---------------------------- MODULE RealmGovernance ----------------------------
(***************************************************************************)
(* Amendments of the constitution: ConstitutionalGovernanceEngine.         *)
(* Anybody proposes a change, validators vote, and the vote that reaches   *)
(* the quorum enacts the change at once: it rewrites constitution.json,    *)
(* opens an epoch with a snapshot and a new root, and replaces the copy    *)
(* the policy interpreter evaluates.  Several proposals are open at a      *)
(* time, and a change that made sense when it was proposed may no longer   *)
(* apply when it is enacted.                                               *)
(*                                                                         *)
(* Every handler is synchronous.  The file survives a crash; proposals,    *)
(* epochs and snapshots do not: a boot starts again from epoch 0 with the  *)
(* constitution it finds.  (RealmLedgerStore has what a boot says of the   *)
(* saved root, and a constitution.json whose write was cut short.)         *)
(*                                                                         *)
(* A rule is its id and whether an amendment gave it other values.  The    *)
(* root is a hash of the constitution: it is represented by it.            *)
(***************************************************************************)
EXTENDS Integers, Sequences, FiniteSets

CONSTANTS
    N,             \* the number of validators
    Policies,      \* intent types
    Rules,         \* rule ids
    Genesis,       \* the policies of the first constitution
    Changes,       \* the changes proposed in a run
    MaxProposals,  \* bound on the proposals ever made
    MaxCrashes     \* bound on the crashes

Validators == 1 .. N

Rule == [id: Rules, amended: BOOLEAN]

\* What a constitution says: an ordered list of rules for some intent types.
ArePolicies(f) == DOMAIN f \subseteq Policies /\ f \in [DOMAIN f -> Seq(Rule)]

Change ==
    [type: {"AMEND_RULE", "ADD_RULE", "REMOVE_RULE"}, policy: Policies, rule: Rules]
        \cup [type: {"ADD_POLICY", "REMOVE_POLICY"}, policy: Policies]

ASSUME GovernanceAssumption ==
    /\ N \in Nat \ {0}
    /\ ArePolicies(Genesis)
    /\ Changes \subseteq Change
    /\ MaxProposals \in Nat /\ MaxCrashes \in Nat

VARIABLES
    constitution,  \* constitution.json: its policies, its amendment log
    governance,    \* ledger.governance: current_epoch, constitution_root, enacted_epochs, snapshots
    dsl,           \* the constitution the policy interpreter evaluates
    proposals,     \* ledger.governance.proposals
    mode,          \* "live" or "down"
    proposed,      \* history variable: the change of every proposal ever made
    ratified,      \* history variable: who accepted each amendment of the file
    crashes        \* crashes so far

vars == <<constitution, governance, dsl, proposals, mode, proposed, ratified, crashes>>

IsConstitution(c) ==
    /\ DOMAIN c = {"policies", "amendment_log"}
    /\ ArePolicies(c.policies)
    /\ c.amendment_log \in Seq([proposal: Nat, epoch: Nat])

Proposal == [state: {"VOTING", "RATIFIED", "ENACTED", "REJECTED", "VETOED"},
             change: Change,
             votes: [Validators -> {"none", "ACCEPT", "REJECT"}],
             votes_accepted: 0 .. N,
             votes_rejected: 0 .. N]

-----------------------------------------------------------------------------
(* Changing the constitution. *)

FirstRule(rules, id) ==
    CHOOSE k \in DOMAIN rules : rules[k].id = id /\ \A j \in 1 .. k - 1 : rules[j].id # id

HasRule(policies, c) ==
    \E k \in DOMAIN policies[c.policy] : policies[c.policy][k].id = c.rule

\* _applyChange throws unless the change finds what it needs.
Applicable(policies, c) ==
    CASE c.type = "AMEND_RULE" -> c.policy \in DOMAIN policies /\ HasRule(policies, c)
      [] c.type \in {"ADD_RULE", "REMOVE_RULE"} -> c.policy \in DOMAIN policies
      [] c.type = "ADD_POLICY" -> c.policy \notin DOMAIN policies
      [] c.type = "REMOVE_POLICY" -> TRUE

\* A rule is amended in place, the first of its id only; a new one is added at the end,
\* whatever ids there are; a removal removes every rule of the id.
Amended(policies, c) ==
    CASE c.type = "AMEND_RULE" ->
            [policies EXCEPT ![c.policy][FirstRule(policies[c.policy], c.rule)].amended = TRUE]
      [] c.type = "ADD_RULE" ->
            [policies EXCEPT ![c.policy] = Append(@, [id |-> c.rule, amended |-> FALSE])]
      [] c.type = "REMOVE_RULE" ->
            [policies EXCEPT ![c.policy] = SelectSeq(@, LAMBDA r : r.id # c.rule)]
      [] c.type = "ADD_POLICY" ->
            [p \in DOMAIN policies \cup {c.policy} |->
                IF p = c.policy THEN <<>> ELSE policies[p]]
      [] c.type = "REMOVE_POLICY" ->
            [p \in DOMAIN policies \ {c.policy} |-> policies[p]]

\* The file after the enactment of the i-th proposal in the given epoch.
AmendedBy(c, i, change, epoch) ==
    [policies      |-> Amended(c.policies, change),
     amendment_log |-> Append(c.amendment_log, [proposal |-> i, epoch |-> epoch])]

\* The engine's constructor: epoch 0 is whatever the file says.
FreshGovernance(c) ==
    [current_epoch     |-> 0,
     constitution_root |-> c,
     enacted_epochs    |-> <<[epoch |-> 0, constitution_root |-> c, proposal |-> 0]>>,
     snapshots         |-> [e \in {0} |-> c]]

GenesisConstitution == [policies |-> Genesis, amendment_log |-> <<>>]

Init ==
    /\ constitution = GenesisConstitution
    /\ governance = FreshGovernance(GenesisConstitution)
    /\ dsl = GenesisConstitution
    /\ proposals = [i \in {} |-> {}]
    /\ mode = "live"
    /\ proposed = <<>>
    /\ ratified = <<>>
    /\ crashes = 0

-----------------------------------------------------------------------------
(* Votes. *)

\* _requiredVotes: two thirds, rounded up.
Required == (2 * N + 2) \div 3

\* Slip: a rejection too early.
VerdictTooEarly(accepted, rejected) ==
    IF accepted >= Required THEN "RATIFIED"
    ELSE IF rejected >= N - Required THEN "REJECTED"
    ELSE "VOTING"

\* _checkRatification.
Verdict(accepted, rejected) ==
    IF accepted >= Required THEN "RATIFIED"
    ELSE IF rejected > N - Required THEN "REJECTED"
    ELSE "VOTING"

\* The proposal after the given validators voted alike.
Voted(p, voters, decision) ==
    LET accepted == p.votes_accepted + IF decision = "ACCEPT" THEN Cardinality(voters) ELSE 0
        rejected == p.votes_rejected + IF decision = "REJECT" THEN Cardinality(voters) ELSE 0
    IN  [state          |-> Verdict(accepted, rejected),
         change         |-> p.change,
         votes          |-> [v \in Validators |-> IF v \in voters THEN decision ELSE p.votes[v]],
         votes_accepted |-> accepted,
         votes_rejected |-> rejected]

WithProposal(i, p) == [j \in DOMAIN proposals \cup {i} |-> IF j = i THEN p ELSE proposals[j]]

\* Slip: the interpreter is not reloaded.
EnactWithoutReload(i, p) ==
    LET epoch == governance.current_epoch + 1
        next  == AmendedBy(constitution, i, p.change, epoch)
    IN  /\ constitution' = next
        /\ governance' =
              [current_epoch     |-> epoch,
               constitution_root |-> next,
               enacted_epochs    |-> Append(governance.enacted_epochs,
                     [epoch |-> epoch, constitution_root |-> next, proposal |-> i]),
               snapshots         |-> [e \in 0 .. epoch |->
                     IF e = epoch THEN next ELSE governance.snapshots[e]]]
        /\ UNCHANGED dsl
        /\ proposals' = WithProposal(i, [p EXCEPT !.state = "ENACTED"])
        /\ ratified' = Append(ratified, {v \in Validators : p.votes[v] = "ACCEPT"})

\* _enact, when the change applies.
Enact(i, p) ==
    LET epoch == governance.current_epoch + 1
        next  == AmendedBy(constitution, i, p.change, epoch)
    IN  /\ constitution' = next
        /\ governance' =
              [current_epoch     |-> epoch,
               constitution_root |-> next,
               enacted_epochs    |-> Append(governance.enacted_epochs,
                     [epoch |-> epoch, constitution_root |-> next, proposal |-> i]),
               snapshots         |-> [e \in 0 .. epoch |->
                     IF e = epoch THEN next ELSE governance.snapshots[e]]]
        /\ dsl' = next
        /\ proposals' = WithProposal(i, [p EXCEPT !.state = "ENACTED"])
        /\ ratified' = Append(ratified, {v \in Validators : p.votes[v] = "ACCEPT"})

Enacts(p) == p.state = "RATIFIED" /\ Applicable(constitution.policies, p.change)

\* A change that does not apply throws after the state was set: the proposal stays
\* RATIFIED, neither open nor enacted.
Conclude(i, p) ==
    /\ IF Enacts(p) THEN Enact(i, p)
       ELSE /\ proposals' = WithProposal(i, p)
            /\ UNCHANGED <<constitution, governance, dsl, ratified>>
    /\ UNCHANGED <<mode, proposed, crashes>>

\* Slip: only a conclusion closes the vote, a veto does not.
OpenUnlessConcluded(i) ==
    mode = "live" /\ i \in DOMAIN proposals /\ proposals[i].state \in {"VOTING", "VETOED"}

Open(i) == mode = "live" /\ i \in DOMAIN proposals /\ proposals[i].state = "VOTING"

Unvoted(p) == {v \in Validators : p.votes[v] = "none"}

Decision == {"ACCEPT", "REJECT"}

\* Slip: a validator may vote again.
VoteRepeatedly(i, v, decision) ==
    /\ Open(i)
    /\ proposals[i].votes_accepted + proposals[i].votes_rejected < N
    /\ Conclude(i, Voted(proposals[i], {v}, decision))

Vote(i, v, decision) ==
    /\ Open(i)
    /\ v \in Unvoted(proposals[i])
    /\ Conclude(i, Voted(proposals[i], {v}, decision))

\* _evaluateProposalMerit: the same for every validator.
Merit(p) == IF p.change.type = "REMOVE_POLICY" THEN "REJECT" ELSE "ACCEPT"

\* collectLocalVotes: validators who have not voted do, in their order, until the
\* votes decide.
Voters(p) ==
    LET missing == IF Merit(p) = "ACCEPT" THEN Required - p.votes_accepted
                   ELSE N - Required + 1 - p.votes_rejected
    IN  {v \in Unvoted(p) : Cardinality({u \in Unvoted(p) : u < v}) < missing}

CollectLocalVotes(i) ==
    /\ Open(i)
    /\ LET p == proposals[i] IN Conclude(i, Voted(p, Voters(p), Merit(p)))

-----------------------------------------------------------------------------
Propose(change) ==
    /\ mode = "live"
    /\ Len(proposed) < MaxProposals
    /\ proposals' = WithProposal(Len(proposed) + 1,
          [state |-> "VOTING", change |-> change,
           votes |-> [v \in Validators |-> "none"], votes_accepted |-> 0, votes_rejected |-> 0])
    /\ proposed' = Append(proposed, change)
    /\ UNCHANGED <<constitution, governance, dsl, mode, ratified, crashes>>

Veto(i) ==
    /\ mode = "live"
    /\ i \in DOMAIN proposals
    /\ proposals[i].state \notin {"ENACTED", "VETOED"}
    /\ proposals' = WithProposal(i, [proposals[i] EXCEPT !.state = "VETOED"])
    /\ UNCHANGED <<constitution, governance, dsl, mode, proposed, ratified, crashes>>

-----------------------------------------------------------------------------
(* Crash and boot. *)

\* What the process held is gone when it is down: it is reset here.
Crashes ==
    /\ mode = "live"
    /\ crashes < MaxCrashes
    /\ crashes' = crashes + 1
    /\ mode' = "down"
    /\ proposals' = [i \in {} |-> {}]
    /\ UNCHANGED <<governance, dsl, proposed>>

Crash == Crashes /\ UNCHANGED <<constitution, ratified>>

\* The process stops after a deciding vote wrote the file and before anything else.
CrashInEnactment(i, v) ==
    /\ Open(i)
    /\ v \in Unvoted(proposals[i])
    /\ LET p == Voted(proposals[i], {v}, "ACCEPT")
       IN  /\ Enacts(p)
           /\ constitution' = AmendedBy(constitution, i, p.change, governance.current_epoch + 1)
           /\ ratified' = Append(ratified, {u \in Validators : p.votes[u] = "ACCEPT"})
    /\ Crashes

Boot ==
    /\ mode = "down"
    /\ mode' = "live"
    /\ governance' = FreshGovernance(constitution)
    /\ dsl' = constitution
    /\ UNCHANGED <<constitution, proposals, proposed, ratified, crashes>>

-----------------------------------------------------------------------------
Next ==
    \/ \E change \in Changes : Propose(change)
    \/ \E i \in 1 .. MaxProposals, v \in Validators, decision \in Decision : Vote(i, v, decision)
    \/ \E i \in 1 .. MaxProposals : CollectLocalVotes(i)
    \/ \E i \in 1 .. MaxProposals : Veto(i)
    \/ \E i \in 1 .. MaxProposals, v \in Validators : CrashInEnactment(i, v)
    \/ Crash
    \/ Boot

Spec == Init /\ [][Next]_vars

-----------------------------------------------------------------------------
(* Properties.                                                                *)

\* Every variable has the shape the code gives it.
TypeOK ==
    /\ IsConstitution(constitution)
    /\ IsConstitution(dsl)
    /\ governance.current_epoch \in Nat
    /\ IsConstitution(governance.constitution_root)
    /\ \A k \in DOMAIN governance.enacted_epochs :
          /\ governance.enacted_epochs[k].epoch \in 0 .. governance.current_epoch
          /\ IsConstitution(governance.enacted_epochs[k].constitution_root)
    /\ DOMAIN governance.snapshots = 0 .. governance.current_epoch
    /\ \A e \in DOMAIN governance.snapshots : IsConstitution(governance.snapshots[e])
    /\ DOMAIN proposals \subseteq 1 .. Len(proposed)
    /\ \A i \in DOMAIN proposals : proposals[i] \in Proposal
    /\ mode \in {"live", "down"}
    /\ proposed \in Seq(Change)
    /\ ratified \in Seq(SUBSET Validators)
    /\ crashes \in 0 .. MaxCrashes

\* The policies after the first k amendments of the file.
PoliciesAfter(log, k) ==
    LET after[n \in 0 .. k] ==
            IF n = 0 THEN Genesis ELSE Amended(after[n - 1], proposed[log[n].proposal])
    IN  after[k]

\* "Constitutional amendments follow the same cryptographic rigor": across crashes in
\* the middle of an enactment, failed enactments and open proposals that overtake each
\* other, the file is exactly the replay of its amendment log, no proposal amended it
\* twice, and each amendment was accepted by two thirds of the validators.
AmendmentsHadAQuorum ==
    LET log == constitution.amendment_log
    IN  /\ Len(log) = Len(ratified)
        /\ constitution.policies = PoliciesAfter(log, Len(log))
        /\ \A k \in DOMAIN log :
              /\ 3 * Cardinality(ratified[k]) >= 2 * N
              /\ \A j \in DOMAIN log : log[j].proposal = log[k].proposal => j = k

\* There is one law: what the interpreter evaluates, what the root binds, what the
\* current epoch recorded and what the file says are the same, and the epochs since the
\* boot are numbered without a gap, each a snapshot of its own root.
LawIsOne ==
    mode = "live" =>
        LET epochs == governance.enacted_epochs
        IN  /\ dsl = constitution
            /\ governance.constitution_root = constitution
            /\ Len(epochs) = governance.current_epoch + 1
            /\ epochs[Len(epochs)].constitution_root = constitution
            /\ \A k \in DOMAIN epochs :
                  /\ epochs[k].epoch = k - 1
                  /\ governance.snapshots[k - 1] = epochs[k].constitution_root

Ballots(p, decision) == {v \in Validators : p.votes[v] = decision}

\* The votes decide as soon as they can and only when they must: an open proposal can
\* still go both ways, so once all have voted none is open; a rejected one could not be
\* ratified by the votes outstanding; one is enacted exactly when the file has it.
VotesDecide ==
    \A i \in DOMAIN proposals :
        LET p        == proposals[i]
            accepted == Cardinality(Ballots(p, "ACCEPT"))
            rejected == Cardinality(Ballots(p, "REJECT"))
        IN  /\ p.state = "VOTING" => accepted < Required /\ N - rejected >= Required
            /\ p.state = "REJECTED" => N - rejected < Required
            /\ p.state \in {"RATIFIED", "ENACTED"} => accepted >= Required
            /\ p.state = "ENACTED" <=> \E k \in DOMAIN constitution.amendment_log :
                                          constitution.amendment_log[k].proposal = i

\* A verdict stands: what is enacted stays enacted, what is vetoed stays vetoed and never
\* amends anything, and what is rejected or stuck can only be vetoed.
VerdictsStand ==
    [][\A i \in DOMAIN proposals \cap DOMAIN proposals' :
          LET before == proposals[i].state
              after  == proposals'[i].state
          IN  /\ before \in {"ENACTED", "VETOED"} => after = before
              /\ before \in {"REJECTED", "RATIFIED"} => after \in {before, "VETOED"}]_vars

=============================================================================
