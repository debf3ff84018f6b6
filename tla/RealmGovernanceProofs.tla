------------------------- MODULE RealmGovernanceProofs -------------------------
(***************************************************************************)
(* Proofs about RealmGovernance: there is one law, the votes decide,       *)
(* verdicts stand and amendments had a quorum, for every number of         *)
(* validators, every set of changes and every bound.                       *)
(***************************************************************************)
EXTENDS RealmGovernance, Induction, FiniteSetTheorems

\* LawIsOne, with what the appends of an enactment need of the epochs' types.
LawInv ==
    /\ mode = "live" => /\ governance.current_epoch \in Nat
                        /\ \E S : governance.enacted_epochs \in Seq(S)
    /\ LawIsOne

-----------------------------------------------------------------------------
\* The constructor leaves one law, whatever the file says: epoch 0 and its snapshot.
LEMMA FreshIsOneLaw ==
    ASSUME governance' = FreshGovernance(constitution'), dsl' = constitution'
    PROVE  LawInv'
<1> DEFINE epoch == [epoch |-> 0, constitution_root |-> constitution', proposal |-> 0]
<1>1. governance'.current_epoch = 0 /\ governance'.constitution_root = constitution'
    BY DEF FreshGovernance
<1>2. governance'.enacted_epochs = <<epoch>> /\ governance'.snapshots = [e \in {0} |-> constitution']
    BY DEF FreshGovernance
<1>3. governance'.enacted_epochs \in Seq({epoch})
    BY <1>2
<1>4. Len(governance'.enacted_epochs) = 1 /\ governance'.enacted_epochs[1] = epoch
    BY <1>2
<1>5. LawIsOne'
    <2>1. epoch.epoch = 0 /\ epoch.constitution_root = constitution'
        OBVIOUS
    <2>2. governance'.snapshots[0] = constitution'
        BY <1>2
    <2>3. DOMAIN governance'.enacted_epochs = {1}
        BY <1>3, <1>4
    <2> QED  BY <1>1, <1>4, <2>1, <2>2, <2>3 DEF LawIsOne
<1> QED  BY <1>1, <1>3, <1>5 DEF LawInv

\* An enactment moves the file, the root, the epoch and the interpreter together.
LEMMA EnactKeepsOneLaw ==
    ASSUME LawInv, mode = "live", mode' = "live", NEW i, NEW p, Enact(i, p)
    PROVE  LawInv'
<1> DEFINE n     == governance.current_epoch + 1
           next  == AmendedBy(constitution, i, p.change, n)
           epoch == [epoch |-> n, constitution_root |-> next, proposal |-> i]
           old   == governance.enacted_epochs
<1>1. /\ constitution' = next /\ dsl' = next
      /\ governance' = [current_epoch     |-> n,
                        constitution_root |-> next,
                        enacted_epochs    |-> Append(old, epoch),
                        snapshots         |-> [e \in 0 .. n |->
                            IF e = n THEN next ELSE governance.snapshots[e]]]
    BY DEF Enact
<1> HIDE DEF next, epoch
<1>2. PICK S : old \in Seq(S)
    BY DEF LawInv
<1>3. governance.current_epoch \in Nat /\ n \in Nat
    BY DEF LawInv
<1>4. /\ governance'.current_epoch = n /\ governance'.constitution_root = next
      /\ governance'.enacted_epochs = Append(old, epoch)
      /\ governance'.snapshots = [e \in 0 .. n |-> IF e = n THEN next ELSE governance.snapshots[e]]
    BY <1>1
<1>5. Len(old) = n /\ \A k \in DOMAIN old : /\ old[k].epoch = k - 1
                                          /\ governance.snapshots[k - 1] = old[k].constitution_root
    BY <1>3 DEF LawInv, LawIsOne
<1>6. old \in Seq(S \cup {epoch}) /\ Append(old, epoch) \in Seq(S \cup {epoch})
    BY <1>2
<1>7. /\ Len(Append(old, epoch)) = n + 1
      /\ Append(old, epoch)[n + 1] = epoch
      /\ DOMAIN Append(old, epoch) = 1 .. n + 1
      /\ \A k \in 1 .. n : k \in DOMAIN old /\ Append(old, epoch)[k] = old[k]
    BY <1>3, <1>5, <1>6
<1>8. epoch.epoch = n /\ epoch.constitution_root = next
    BY DEF epoch
<1>9. ASSUME NEW k \in 1 .. n + 1
      PROVE  /\ Append(old, epoch)[k].epoch = k - 1
             /\ governance'.snapshots[k - 1] = Append(old, epoch)[k].constitution_root
    <2>1. CASE k = n + 1
        <3>1. k - 1 = n /\ n \in 0 .. n
            BY <2>1, <1>3
        <3>2. governance'.snapshots[n] = next
            BY <3>1, <1>4
        <3> QED  BY <2>1, <3>1, <3>2, <1>7, <1>8
    <2>2. CASE k # n + 1
        <3>1. k \in 1 .. n /\ k - 1 \in 0 .. n /\ k - 1 # n
            BY <2>2, <1>3
        <3>2. governance'.snapshots[k - 1] = governance.snapshots[k - 1]
            BY <3>1, <1>4
        <3> QED  BY <3>1, <3>2, <1>5, <1>7
    <2> QED  BY <2>1, <2>2
<1>10. LawIsOne'
    BY <1>1, <1>3, <1>4, <1>7, <1>8, <1>9 DEF LawIsOne
<1> QED  BY <1>3, <1>4, <1>6, <1>10 DEF LawInv

-----------------------------------------------------------------------------
\* The law is one in every reachable state of every instance, however proposals, votes,
\* vetoes, enactments that fail, crashes in the middle of one and boots interleave.
THEOREM TheLawIsOne == Spec => []LawIsOne
<1>1. Init => LawInv
    <2> SUFFICES ASSUME Init PROVE LawInv
        OBVIOUS
    <2> DEFINE epoch == [epoch |-> 0, constitution_root |-> constitution, proposal |-> 0]
    <2>1. governance.current_epoch = 0 /\ governance.constitution_root = constitution
        BY DEF Init, FreshGovernance
    <2>2. governance.enacted_epochs = <<epoch>> /\ governance.snapshots = [e \in {0} |-> constitution]
        BY DEF Init, FreshGovernance
    <2>3. governance.enacted_epochs \in Seq({epoch})
        BY <2>2
    <2>4. Len(governance.enacted_epochs) = 1 /\ governance.enacted_epochs[1] = epoch
          /\ DOMAIN governance.enacted_epochs = {1}
        BY <2>2, <2>3
    <2>5. dsl = constitution
        BY DEF Init
    <2>6. epoch.epoch = 0 /\ epoch.constitution_root = constitution
        OBVIOUS
    <2>7. governance.snapshots[0] = constitution
        BY <2>2
    <2>8. LawIsOne
        BY <2>1, <2>4, <2>5, <2>6, <2>7 DEF LawIsOne
    <2> QED  BY <2>1, <2>3, <2>8 DEF LawInv
<1>2. LawInv /\ [Next]_vars => LawInv'
    <2> SUFFICES ASSUME LawInv, [Next]_vars PROVE LawInv'
        OBVIOUS
    <2>1. ASSUME UNCHANGED <<constitution, governance, dsl, mode>>
          PROVE  LawInv'
        BY <2>1 DEF LawInv, LawIsOne
    <2>2. ASSUME mode' = "down"
          PROVE  LawInv'
        BY <2>2 DEF LawInv, LawIsOne
    <2>3. ASSUME mode = "live", NEW i, NEW p, Conclude(i, p)
          PROVE  LawInv'
        <3>1. CASE Enacts(p)
            BY <2>3, <3>1, EnactKeepsOneLaw DEF Conclude
        <3>2. CASE ~Enacts(p)
            BY <2>3, <3>2, <2>1 DEF Conclude
        <3> QED  BY <3>1, <3>2
    <2>4. ASSUME NEW change \in Changes, Propose(change)
          PROVE  LawInv'
        BY <2>4, <2>1 DEF Propose
    <2>5. ASSUME NEW i \in 1 .. MaxProposals, NEW v \in Validators, NEW decision \in Decision,
                 Vote(i, v, decision)
          PROVE  LawInv'
        BY <2>5, <2>3 DEF Vote, Open
    <2>6. ASSUME NEW i \in 1 .. MaxProposals, CollectLocalVotes(i)
          PROVE  LawInv'
        BY <2>6, <2>3 DEF CollectLocalVotes, Open
    <2>7. ASSUME NEW i \in 1 .. MaxProposals, Veto(i)
          PROVE  LawInv'
        BY <2>7, <2>1 DEF Veto
    <2>8. ASSUME NEW i \in 1 .. MaxProposals, NEW v \in Validators, CrashInEnactment(i, v)
          PROVE  LawInv'
        BY <2>8, <2>2 DEF CrashInEnactment, Crashes
    <2>9. CASE Crash
        BY <2>9, <2>2 DEF Crash, Crashes
    <2>10. CASE Boot
        <3>1. constitution' = constitution /\ governance' = FreshGovernance(constitution)
              /\ dsl' = constitution
            BY <2>10 DEF Boot
        <3> QED  BY <3>1, FreshIsOneLaw
    <2>11. CASE UNCHANGED vars
        BY <2>11, <2>1 DEF vars
    <2> QED
        BY <2>4, <2>5, <2>6, <2>7, <2>8, <2>9, <2>10, <2>11 DEF Next
<1>3. LawInv => LawIsOne
    BY DEF LawInv
<1> QED  BY <1>1, <1>2, <1>3, PTL DEF Spec

-----------------------------------------------------------------------------
(* The votes decide.  The counters are the cardinalities of the ballots, and *)
(* the file names no proposal that was not made.                             *)

States == {"VOTING", "RATIFIED", "ENACTED", "REJECTED", "VETOED"}

ProposalRecord == [state: States, change: Change,
                   votes: [Validators -> {"none", "ACCEPT", "REJECT"}],
                   votes_accepted: Nat, votes_rejected: Nat]

\* The counters are right, and the state is one the votes allow.
Counted(p) ==
    /\ p \in ProposalRecord
    /\ p.votes_accepted = Cardinality(Ballots(p, "ACCEPT"))
    /\ p.votes_rejected = Cardinality(Ballots(p, "REJECT"))
    /\ p.state = "VOTING" => p.votes_accepted < Required /\ p.votes_rejected <= N - Required
    /\ p.state = "REJECTED" => p.votes_rejected > N - Required
    /\ p.state \in {"RATIFIED", "ENACTED"} => p.votes_accepted >= Required

InLog(log, i) == \E k \in DOMAIN log : log[k].proposal = i

VoteInv ==
    /\ proposed \in Seq(Change)
    /\ \E S : constitution.amendment_log \in Seq(S)
    /\ \A k \in DOMAIN constitution.amendment_log :
          constitution.amendment_log[k].proposal \in 1 .. Len(proposed)
    /\ \A i \in DOMAIN proposals :
          /\ i \in 1 .. Len(proposed)
          /\ Counted(proposals[i])
          /\ proposals[i].state = "ENACTED" <=> InLog(constitution.amendment_log, i)

LEMMA RequiredIsInteger == N \in Nat /\ Required \in Int
BY GovernanceAssumption DEF Required

\* Ballots are finite sets of validators.
LEMMA FiniteBallots ==
    ASSUME NEW S \in SUBSET Validators
    PROVE  IsFiniteSet(S) /\ Cardinality(S) \in Nat
<1>1. IsFiniteSet(Validators)
    BY RequiredIsInteger, FS_Interval DEF Validators
<1> QED  BY <1>1, FS_Subset, FS_CardinalityType

\* A new proposal is open, whatever the number of validators.
LEMMA NewIsCounted ==
    ASSUME NEW change \in Change
    PROVE  Counted([state |-> "VOTING", change |-> change,
                    votes |-> [v \in Validators |-> "none"],
                    votes_accepted |-> 0, votes_rejected |-> 0])
<1> DEFINE p == [state |-> "VOTING", change |-> change,
                 votes |-> [v \in Validators |-> "none"],
                 votes_accepted |-> 0, votes_rejected |-> 0]
<1>1. p \in ProposalRecord
    BY DEF ProposalRecord, States
<1>2. Ballots(p, "ACCEPT") = {} /\ Ballots(p, "REJECT") = {}
    BY DEF Ballots
<1>3. Cardinality({}) = 0
    BY FS_EmptySet
<1>4. 0 < Required /\ 0 <= N - Required
    BY GovernanceAssumption DEF Required
<1>5. p.state = "VOTING" /\ p.votes_accepted = 0 /\ p.votes_rejected = 0
    OBVIOUS
<1> HIDE DEF p
<1>6. Counted(p)
    BY <1>1, <1>2, <1>3, <1>4, <1>5 DEF Counted
<1> QED  BY <1>6 DEF p

\* Votes of validators who had not voted leave the counters right, and the verdict is the
\* one they allow.
LEMMA VotedIsCounted ==
    ASSUME NEW p, Counted(p), NEW voters \in SUBSET Unvoted(p), NEW decision \in Decision
    PROVE  /\ Counted(Voted(p, voters, decision))
           /\ Voted(p, voters, decision).state \in {"VOTING", "RATIFIED", "REJECTED"}
<1> DEFINE q == Voted(p, voters, decision)
           accepted == p.votes_accepted + IF decision = "ACCEPT" THEN Cardinality(voters) ELSE 0
           rejected == p.votes_rejected + IF decision = "REJECT" THEN Cardinality(voters) ELSE 0
<1>1. /\ p.votes \in [Validators -> {"none", "ACCEPT", "REJECT"}] /\ p.change \in Change
      /\ p.votes_accepted \in Nat /\ p.votes_rejected \in Nat
    BY DEF Counted, ProposalRecord
<1>2. voters \in SUBSET Validators /\ \A v \in voters : p.votes[v] = "none"
    BY DEF Unvoted
<1>3. IsFiniteSet(voters) /\ Cardinality(voters) \in Nat
    BY <1>2, FiniteBallots
<1>4. accepted \in Nat /\ rejected \in Nat
    BY <1>1, <1>3
<1>5. /\ q.state = Verdict(accepted, rejected) /\ q.change = p.change
      /\ q.votes = [v \in Validators |-> IF v \in voters THEN decision ELSE p.votes[v]]
      /\ q.votes_accepted = accepted /\ q.votes_rejected = rejected
    BY DEF Voted
<1>6. q.state \in {"VOTING", "RATIFIED", "REJECTED"}
    BY <1>5 DEF Verdict
<1>7. q.votes \in [Validators -> {"none", "ACCEPT", "REJECT"}]
    BY <1>1, <1>5 DEF Decision
<1>8. q \in ProposalRecord
    <2>1. q = [state |-> q.state, change |-> q.change, votes |-> q.votes,
               votes_accepted |-> q.votes_accepted, votes_rejected |-> q.votes_rejected]
        BY DEF Voted
    <2>2. q.state \in States
        BY <1>6 DEF States
    <2> QED  BY <2>1, <2>2, <1>1, <1>4, <1>5, <1>7 DEF ProposalRecord
<1>9. ASSUME NEW d \in Decision
      PROVE  Cardinality(Ballots(q, d)) = Cardinality(Ballots(p, d))
                                            + IF d = decision THEN Cardinality(voters) ELSE 0
    <2>1. Ballots(p, d) \in SUBSET Validators
        BY DEF Ballots
    <2>2. CASE d = decision
        <3>1. Ballots(q, d) = Ballots(p, d) \cup voters
            BY <2>2, <1>2, <1>5 DEF Ballots
        <3>2. Ballots(p, d) \cap voters = {}
            BY <1>2 DEF Ballots, Decision
        <3>3. Cardinality(Ballots(p, d) \cup voters) = Cardinality(Ballots(p, d)) + Cardinality(voters)
                                                       - Cardinality(Ballots(p, d) \cap voters)
            BY <2>1, <1>3, FiniteBallots, FS_Union
        <3>4. Cardinality({}) = 0
            BY FS_EmptySet
        <3>5. Cardinality(Ballots(p, d)) \in Nat
            BY <2>1, FiniteBallots
        <3>6. Cardinality(Ballots(q, d)) = Cardinality(Ballots(p, d)) + Cardinality(voters)
            <4>1. Cardinality(Ballots(p, d) \cap voters) = 0
                BY <3>2, <3>4
            <4>2. Cardinality(Ballots(p, d) \cup voters)
                     = Cardinality(Ballots(p, d)) + Cardinality(voters)
                BY <3>3, <3>5, <4>1, <1>3
            <4> HIDE DEF q
            <4> QED  BY <3>1, <4>2
        <3> QED  BY <2>2, <3>6
    <2>3. CASE d # decision
        <3>1. Ballots(q, d) = Ballots(p, d)
            BY <2>3, <1>2, <1>5 DEF Ballots, Decision
        <3>2. Cardinality(Ballots(p, d)) \in Nat
            BY <2>1, FiniteBallots
        <3> QED  BY <2>3, <3>1, <3>2
    <2> QED  BY <2>2, <2>3
<1>10. q.votes_accepted = Cardinality(Ballots(q, "ACCEPT"))
    BY <1>5, <1>9 DEF Counted, Decision
<1>11. q.votes_rejected = Cardinality(Ballots(q, "REJECT"))
    BY <1>5, <1>9 DEF Counted, Decision
<1>12. /\ q.state = "VOTING" => accepted < Required /\ rejected <= N - Required
       /\ q.state = "REJECTED" => rejected > N - Required
       /\ q.state \in {"RATIFIED", "ENACTED"} => accepted >= Required
    BY <1>4, <1>5, RequiredIsInteger DEF Verdict
<1> QED  BY <1>5, <1>6, <1>8, <1>10, <1>11, <1>12 DEF Counted

\* Nothing but the state changes when a proposal is enacted or vetoed.
LEMMA WithState ==
    ASSUME NEW p, Counted(p), NEW state \in {"ENACTED", "VETOED"},
           state = "ENACTED" => p.state = "RATIFIED"
    PROVE  Counted([p EXCEPT !.state = state]) /\ [p EXCEPT !.state = state].state = state
<1> DEFINE q == [p EXCEPT !.state = state]
<1>1. p \in ProposalRecord
    BY DEF Counted
<1>2. q \in ProposalRecord /\ q.state = state
    BY <1>1 DEF ProposalRecord, States
<1>3. /\ q.votes = p.votes /\ q.votes_accepted = p.votes_accepted
      /\ q.votes_rejected = p.votes_rejected
    BY <1>1 DEF ProposalRecord
<1>4. \A d : Ballots(q, d) = Ballots(p, d)
    BY <1>3 DEF Ballots
<1> HIDE DEF q
<1> QED  BY <1>2, <1>3, <1>4 DEF Counted, q

\* A file that grew by one amendment names its proposal and those it named before.
LEMMA AppendedLog ==
    ASSUME NEW log, NEW S, log \in Seq(S), NEW e
    PROVE  /\ Append(log, e) \in Seq(S \cup {e})
           /\ \A i : InLog(Append(log, e), i) <=> InLog(log, i) \/ e.proposal = i
<1>1. log \in Seq(S \cup {e}) /\ Append(log, e) \in Seq(S \cup {e})
    OBVIOUS
<1>2. /\ DOMAIN Append(log, e) = DOMAIN log \cup {Len(log) + 1}
      /\ \A k \in DOMAIN log : Append(log, e)[k] = log[k]
      /\ Append(log, e)[Len(log) + 1] = e
    BY <1>1
<1> QED  BY <1>1, <1>2 DEF InLog

\* The file of a conclusion that enacts.
LEMMA AmendedFile ==
    ASSUME NEW i \in 1 .. Len(proposed), NEW change, NEW epoch, VoteInv,
           constitution' = AmendedBy(constitution, i, change, epoch),
           proposed' = proposed
    PROVE  /\ \E S : constitution'.amendment_log \in Seq(S)
           /\ \A k \in DOMAIN constitution'.amendment_log :
                 constitution'.amendment_log[k].proposal \in 1 .. Len(proposed)
           /\ \A j : InLog(constitution'.amendment_log, j)
                        <=> InLog(constitution.amendment_log, j) \/ j = i
<1> DEFINE log == constitution.amendment_log
           e   == [proposal |-> i, epoch |-> epoch]
<1>1. constitution'.amendment_log = Append(log, e)
    BY DEF AmendedBy
<1>2. PICK S : log \in Seq(S)
    BY DEF VoteInv
<1>3. /\ Append(log, e) \in Seq(S \cup {e})
      /\ \A j : InLog(Append(log, e), j) <=> InLog(log, j) \/ e.proposal = j
    BY <1>2, AppendedLog
<1>4. e.proposal = i
    OBVIOUS
<1>5. \A k \in DOMAIN log : log[k].proposal \in 1 .. Len(proposed)
    BY DEF VoteInv
<1> HIDE DEF e, log
<1>6. \A j : InLog(log, j) => j \in 1 .. Len(proposed)
    BY <1>5 DEF InLog
<1>7. \A j : InLog(Append(log, e), j) => j \in 1 .. Len(proposed)
    BY <1>3, <1>4, <1>6
<1>8. \A k \in DOMAIN Append(log, e) : Append(log, e)[k].proposal \in 1 .. Len(proposed)
    BY <1>7 DEF InLog
<1> QED  BY <1>1, <1>3, <1>4, <1>8 DEF log

\* One conclusion: the proposal's votes decide, the others are as they were.
LEMMA ConcludeKeepsVotes ==
    ASSUME VoteInv, NEW i, Open(i), NEW voters \in SUBSET Unvoted(proposals[i]),
           NEW decision \in Decision, Conclude(i, Voted(proposals[i], voters, decision))
    PROVE  VoteInv'
<1> DEFINE p == Voted(proposals[i], voters, decision)
           q == [p EXCEPT !.state = "ENACTED"]
           log == constitution.amendment_log
<1>1. i \in DOMAIN proposals /\ proposals[i].state = "VOTING" /\ i \in 1 .. Len(proposed)
      /\ Counted(proposals[i]) /\ ~InLog(log, i)
    BY DEF Open, VoteInv
<1>2. Counted(p) /\ p.state \in {"VOTING", "RATIFIED", "REJECTED"}
    BY <1>1, VotedIsCounted
<1>3. proposed' = proposed
    BY DEF Conclude
<1> HIDE DEF p
<1>4. CASE Enacts(p)
    <2>1. /\ constitution' = AmendedBy(constitution, i, p.change, governance.current_epoch + 1)
          /\ proposals' = WithProposal(i, q)
        BY <1>4 DEF Conclude, Enact, p
    <2>2. Counted(q) /\ q.state = "ENACTED"
        BY <1>2, <1>4, WithState DEF Enacts
    <2> HIDE DEF q
    <2>3. /\ \E S : constitution'.amendment_log \in Seq(S)
          /\ \A k \in DOMAIN constitution'.amendment_log :
                constitution'.amendment_log[k].proposal \in 1 .. Len(proposed)
          /\ \A j : InLog(constitution'.amendment_log, j) <=> InLog(log, j) \/ j = i
        BY <1>1, <1>3, <2>1, AmendedFile
    <2>4. DOMAIN proposals' = DOMAIN proposals /\ proposals'[i] = q
          /\ \A j \in DOMAIN proposals : j # i => proposals'[j] = proposals[j]
        BY <1>1, <2>1 DEF WithProposal
    <2>5. \A j \in DOMAIN proposals' :
             /\ j \in 1 .. Len(proposed)
             /\ Counted(proposals'[j])
             /\ proposals'[j].state = "ENACTED" <=> InLog(constitution'.amendment_log, j)
        BY <1>1, <2>2, <2>3, <2>4 DEF VoteInv
    <2> QED  BY <1>3, <2>3, <2>5 DEF VoteInv, InLog, Counted, Ballots
<1>5. CASE ~Enacts(p)
    <2>1. constitution' = constitution /\ proposals' = WithProposal(i, p)
        BY <1>5 DEF Conclude, p
    <2>2. DOMAIN proposals' = DOMAIN proposals /\ proposals'[i] = p
          /\ \A j \in DOMAIN proposals : j # i => proposals'[j] = proposals[j]
        BY <1>1, <2>1 DEF WithProposal
    <2>3. \A j \in DOMAIN proposals' :
             /\ j \in 1 .. Len(proposed)
             /\ Counted(proposals'[j])
             /\ proposals'[j].state = "ENACTED" <=> InLog(constitution.amendment_log, j)
        BY <1>1, <1>2, <2>2 DEF VoteInv
    <2> QED  BY <1>3, <2>1, <2>3 DEF VoteInv
<1> QED  BY <1>4, <1>5

-----------------------------------------------------------------------------
\* The counters and the file stay consistent, whatever is done.
THEOREM VotesAreCounted == Spec => []VoteInv
<1>1. Init => VoteInv
    <2> SUFFICES ASSUME Init PROVE VoteInv
        OBVIOUS
    <2>1. constitution.amendment_log = <<>> /\ proposed = <<>> /\ DOMAIN proposals = {}
        BY DEF Init, GenesisConstitution
    <2>2. constitution.amendment_log \in Seq({}) /\ Len(proposed) = 0
          /\ DOMAIN constitution.amendment_log = {}
        BY <2>1
    <2> QED  BY <2>1, <2>2 DEF VoteInv
<1>2. VoteInv /\ [Next]_vars => VoteInv'
    <2> SUFFICES ASSUME VoteInv, [Next]_vars PROVE VoteInv'
        OBVIOUS
    <2>1. ASSUME UNCHANGED <<constitution, proposals, proposed>>
          PROVE  VoteInv'
        BY <2>1 DEF VoteInv
    <2>2. ASSUME NEW change \in Changes, Propose(change)
          PROVE  VoteInv'
        <3> DEFINE n == Len(proposed) + 1
                   p == [state |-> "VOTING", change |-> change,
                         votes |-> [v \in Validators |-> "none"],
                         votes_accepted |-> 0, votes_rejected |-> 0]
        <3>1. constitution' = constitution /\ proposals' = WithProposal(n, p)
              /\ proposed' = Append(proposed, change)
            BY <2>2 DEF Propose
        <3>2. /\ proposed' \in Seq(Change) /\ Len(proposed') = n
              /\ 1 .. Len(proposed) \subseteq 1 .. Len(proposed') /\ n \in 1 .. Len(proposed')
              /\ n \notin 1 .. Len(proposed)
            BY <3>1, GovernanceAssumption DEF VoteInv
        <3>3. Counted(p)
            BY NewIsCounted, GovernanceAssumption
        <3>4. ~InLog(constitution.amendment_log, n)
            BY <3>2 DEF VoteInv, InLog
        <3>5. p.state = "VOTING"
            OBVIOUS
        <3> HIDE DEF p, n
        <3>6. DOMAIN proposals' = DOMAIN proposals \cup {n} /\ proposals'[n] = p
              /\ \A j \in DOMAIN proposals : j # n => proposals'[j] = proposals[j]
            BY <3>1 DEF WithProposal
        <3>7. \A j \in DOMAIN proposals' :
                 /\ j \in 1 .. Len(proposed')
                 /\ Counted(proposals'[j])
                 /\ proposals'[j].state = "ENACTED" <=> InLog(constitution.amendment_log, j)
            BY <3>2, <3>3, <3>4, <3>5, <3>6 DEF VoteInv
        <3> QED  BY <3>1, <3>2, <3>7 DEF VoteInv
    <2>3. ASSUME NEW i \in 1 .. MaxProposals, NEW v \in Validators, NEW decision \in Decision,
                 Vote(i, v, decision)
          PROVE  VoteInv'
        BY <2>3, ConcludeKeepsVotes DEF Vote
    <2>4. ASSUME NEW i \in 1 .. MaxProposals, CollectLocalVotes(i)
          PROVE  VoteInv'
        <3>1. Voters(proposals[i]) \in SUBSET Unvoted(proposals[i])
            BY DEF Voters
        <3>2. Merit(proposals[i]) \in Decision
            BY DEF Merit, Decision
        <3> QED  BY <2>4, <3>1, <3>2, ConcludeKeepsVotes DEF CollectLocalVotes
    <2>5. ASSUME NEW i \in 1 .. MaxProposals, Veto(i)
          PROVE  VoteInv'
        <3> DEFINE q == [proposals[i] EXCEPT !.state = "VETOED"]
        <3>1. /\ i \in DOMAIN proposals /\ proposals[i].state # "ENACTED"
              /\ proposals' = WithProposal(i, q)
              /\ constitution' = constitution /\ proposed' = proposed
            BY <2>5 DEF Veto
        <3>2. Counted(proposals[i])
            BY <3>1 DEF VoteInv
        <3>3. Counted(q) /\ q.state = "VETOED"
            BY <3>2, WithState
        <3> HIDE DEF q
        <3>4. DOMAIN proposals' = DOMAIN proposals /\ proposals'[i] = q
              /\ \A j \in DOMAIN proposals : j # i => proposals'[j] = proposals[j]
            BY <3>1 DEF WithProposal
        <3>5. \A j \in DOMAIN proposals' :
                 /\ j \in 1 .. Len(proposed)
                 /\ Counted(proposals'[j])
                 /\ proposals'[j].state = "ENACTED" <=> InLog(constitution.amendment_log, j)
            BY <3>1, <3>3, <3>4 DEF VoteInv
        <3> QED  BY <3>1, <3>5 DEF VoteInv
    <2>6. ASSUME NEW i \in 1 .. MaxProposals, NEW v \in Validators, CrashInEnactment(i, v)
          PROVE  VoteInv'
        <3>1. i \in 1 .. Len(proposed)
            BY <2>6 DEF CrashInEnactment, Open, VoteInv
        <3>2. PICK change, epoch : constitution' = AmendedBy(constitution, i, change, epoch)
            BY <2>6 DEF CrashInEnactment
        <3>3. proposed' = proposed /\ DOMAIN proposals' = {}
            BY <2>6 DEF CrashInEnactment, Crashes
        <3>4. /\ \E S : constitution'.amendment_log \in Seq(S)
              /\ \A k \in DOMAIN constitution'.amendment_log :
                    constitution'.amendment_log[k].proposal \in 1 .. Len(proposed)
            BY <3>1, <3>2, <3>3, AmendedFile
        <3> QED  BY <3>3, <3>4 DEF VoteInv
    <2>7. CASE Crash
        <3>1. constitution' = constitution /\ proposed' = proposed /\ DOMAIN proposals' = {}
            BY <2>7 DEF Crash, Crashes
        <3> QED  BY <3>1 DEF VoteInv
    <2>8. CASE Boot
        BY <2>8, <2>1 DEF Boot
    <2>9. CASE UNCHANGED vars
        BY <2>9, <2>1 DEF vars
    <2> QED
        BY <2>2, <2>3, <2>4, <2>5, <2>6, <2>7, <2>8, <2>9 DEF Next
<1> QED  BY <1>1, <1>2, PTL DEF Spec

\* In every reachable state the votes have decided what they can decide, for any number
\* of validators: the rounding of the quorum leaves no set of votes that neither ratifies
\* nor rejects, and a proposal is ENACTED exactly when the file has it.
THEOREM TheVotesDecide == Spec => []VotesDecide
<1>1. VoteInv => VotesDecide
    BY RequiredIsInteger DEF VoteInv, VotesDecide, Counted, ProposalRecord, InLog
<1> QED  BY <1>1, VotesAreCounted, PTL

\* The verdict a step may give: none to what is enacted or vetoed, and a veto to what is
\* rejected or stuck.
VerdictStep ==
    \A i \in DOMAIN proposals \cap DOMAIN proposals' :
        LET before == proposals[i].state
            after  == proposals'[i].state
        IN  /\ before \in {"ENACTED", "VETOED"} => after = before
            /\ before \in {"REJECTED", "RATIFIED"} => after \in {before, "VETOED"}

\* No step of any instance takes a verdict back: a late vote finds the proposal closed, a
\* veto comes too late for an enacted one, and no new proposal takes the place of another.
THEOREM TheVerdictsStand == Spec => VerdictsStand
<1>1. VoteInv /\ [Next]_vars => [VerdictStep]_vars
    <2> SUFFICES ASSUME VoteInv, Next PROVE VerdictStep
        OBVIOUS
    <2>1. ASSUME UNCHANGED proposals
          PROVE  VerdictStep
        BY <2>1 DEF VerdictStep
    <2>2. ASSUME DOMAIN proposals' = {}
          PROVE  VerdictStep
        BY <2>2 DEF VerdictStep
    <2>3. ASSUME NEW i, NEW p, Open(i), Conclude(i, p)
          PROVE  VerdictStep
        <3>1. proposals[i].state = "VOTING"
            BY <2>3 DEF Open
        <3>2. PICK q : proposals' = WithProposal(i, q)
            BY <2>3 DEF Conclude, Enact
        <3>3. \A j \in DOMAIN proposals : j # i => proposals'[j] = proposals[j]
            BY <3>2 DEF WithProposal
        <3> QED  BY <3>1, <3>3 DEF VerdictStep
    <2>4. ASSUME NEW change \in Changes, Propose(change)
          PROVE  VerdictStep
        <3>1. PICK q : proposals' = WithProposal(Len(proposed) + 1, q)
            BY <2>4 DEF Propose
        <3>2. Len(proposed) + 1 \notin DOMAIN proposals
            BY DEF VoteInv
        <3>3. \A j \in DOMAIN proposals : proposals'[j] = proposals[j]
            BY <3>1, <3>2 DEF WithProposal
        <3> QED  BY <3>3 DEF VerdictStep
    <2>5. ASSUME NEW i \in 1 .. MaxProposals, Veto(i)
          PROVE  VerdictStep
        <3> DEFINE q == [proposals[i] EXCEPT !.state = "VETOED"]
        <3>1. /\ i \in DOMAIN proposals /\ proposals[i].state \notin {"ENACTED", "VETOED"}
              /\ proposals' = WithProposal(i, q)
            BY <2>5 DEF Veto
        <3>2. q.state = "VETOED"
            BY <3>1, WithState DEF VoteInv
        <3> HIDE DEF q
        <3>3. proposals'[i] = q /\ \A j \in DOMAIN proposals : j # i => proposals'[j] = proposals[j]
            BY <3>1 DEF WithProposal
        <3> QED  BY <3>1, <3>2, <3>3 DEF VerdictStep
    <2>6. ASSUME NEW i \in 1 .. MaxProposals, NEW v \in Validators, NEW decision \in Decision,
                 Vote(i, v, decision)
          PROVE  VerdictStep
        BY <2>6, <2>3 DEF Vote
    <2>7. ASSUME NEW i \in 1 .. MaxProposals, CollectLocalVotes(i)
          PROVE  VerdictStep
        BY <2>7, <2>3 DEF CollectLocalVotes
    <2>8. ASSUME NEW i \in 1 .. MaxProposals, NEW v \in Validators, CrashInEnactment(i, v)
          PROVE  VerdictStep
        BY <2>8, <2>2 DEF CrashInEnactment, Crashes
    <2>9. CASE Crash
        BY <2>9, <2>2 DEF Crash, Crashes
    <2>10. CASE Boot
        BY <2>10, <2>1 DEF Boot
    <2> QED
        BY <2>4, <2>5, <2>6, <2>7, <2>8, <2>9, <2>10 DEF Next
<1>2. VerdictsStand <=> [][VerdictStep]_vars
    BY DEF VerdictsStand, VerdictStep
<1> QED  BY <1>1, <1>2, VotesAreCounted, PTL DEF Spec

-----------------------------------------------------------------------------
(* Amendments had a quorum.  What the file says after each of its amendments *)
(* is a function of its log and of the changes that were proposed.           *)

\* The policies after each amendment of a log.
PolicyStates(after, log, changes) ==
    /\ after[0] = Genesis
    /\ \A n \in 1 .. Len(log) : after[n] = Amended(after[n - 1], changes[log[n].proposal])

\* PoliciesAfter is the last of them.
LEMMA PoliciesUnfold ==
    ASSUME NEW log, NEW k \in Nat, Len(log) = k, NEW states, PolicyStates(states, log, proposed)
    PROVE  PoliciesAfter(log, k) = states[k]
<1> DEFINE Equation(f) == f = [n \in 0 .. k |-> IF n = 0 THEN Genesis
                                  ELSE Amended(f[n - 1], proposed[log[n].proposal])]
           g == [n \in 0 .. k |-> states[n]]
<1>1. PoliciesAfter(log, k) = (CHOOSE f : Equation(f))[k]
    BY Zenon DEF PoliciesAfter
<1>2. \A n \in 1 .. k : n - 1 \in 0 .. k /\ n \in 0 .. k /\ n # 0
    OBVIOUS
<1>3. \A n \in 0 .. k : n = 0 \/ n \in 1 .. k
    OBVIOUS
<1>4. 0 \in 0 .. k /\ k \in 0 .. k
    OBVIOUS
<1>5. ASSUME NEW n \in 0 .. k
      PROVE  states[n] = IF n = 0 THEN Genesis
                         ELSE Amended(g[n - 1], proposed[log[n].proposal])
    <2>1. CASE n = 0
        BY <2>1 DEF PolicyStates
    <2>2. CASE n # 0
        <3>1. n \in 1 .. k
            BY <1>3, <2>2
        <3>2. g[n - 1] = states[n - 1]
            BY <1>2, <3>1
        <3>3. states[n] = Amended(states[n - 1], proposed[log[n].proposal])
            BY <3>1 DEF PolicyStates
        <3> QED  BY <2>2, <3>2, <3>3, Zenon
    <2> QED  BY <2>1, <2>2
<1>6. Equation(g)
    BY <1>5, Zenon
<1>7. PICK f : f = (CHOOSE h : Equation(h))
    OBVIOUS
<1>8. Equation(f)
    BY <1>6, <1>7, Zenon
<1>9. f[0] = Genesis
    BY <1>4, <1>8, Zenon
<1>10. \A n \in 1 .. k : f[n] = Amended(f[n - 1], proposed[log[n].proposal])
    BY <1>2, <1>8, Zenon
<1> HIDE DEF Equation, g
<1>11. \A n \in 1 .. k : f[n - 1] = states[n - 1] => f[n] = states[n]
    BY <1>10 DEF PolicyStates
<1>12. f[0] = states[0]
    BY <1>9 DEF PolicyStates
<1>13. f[k] = states[k]
    BY ONLY <1>11, <1>12, k \in Nat, StepsAgree
<1> QED  BY <1>1, <1>7, <1>13

\* The file is the replay of its log, no proposal amended it twice, and two thirds of the
\* validators accepted each amendment.
Backed(c, voters, changes) ==
    LET log == c.amendment_log
    IN  /\ \E S : log \in Seq(S)
        /\ Len(log) = Len(voters)
        /\ \E states : PolicyStates(states, log, changes) /\ c.policies = states[Len(log)]
        /\ \A k \in 1 .. Len(log) : /\ 3 * Cardinality(voters[k]) >= 2 * N
                                    /\ \A j \in 1 .. Len(log) :
                                          log[j].proposal = log[k].proposal => j = k

QuorumInv ==
    /\ VoteInv
    /\ \A i \in DOMAIN proposals : proposals[i].change = proposed[i]
    /\ ratified \in Seq(SUBSET Validators)
    /\ Backed(constitution, ratified, proposed)

\* Two thirds, rounded up, are two thirds.
LEMMA RequiredIsEnough == 3 * Required >= 2 * N
BY GovernanceAssumption DEF Required

\* An amendment by a proposal that two thirds accepted and the file did not have.
LEMMA AmendmentBacked ==
    ASSUME Backed(constitution, ratified, proposed), ratified \in Seq(SUBSET Validators),
           NEW i, ~ InLog(constitution.amendment_log, i),
           NEW p, Counted(p), p.state = "RATIFIED", p.change = proposed[i],
           NEW epoch, NEW file, file = AmendedBy(constitution, i, p.change, epoch),
           NEW voters, voters = Append(ratified, {v \in Validators : p.votes[v] = "ACCEPT"})
    PROVE  /\ voters \in Seq(SUBSET Validators)
           /\ Backed(file, voters, proposed)
<1> DEFINE last == {v \in Validators : p.votes[v] = "ACCEPT"}
<1>1. PICK log : log = constitution.amendment_log
    OBVIOUS
<1>2. PICK e : e = [proposal |-> i, epoch |-> epoch]
    OBVIOUS
<1>3. PICK S : log \in Seq(S)
    BY <1>1 DEF Backed
<1>4. PICK k : k = Len(log)
    OBVIOUS
<1>5. PICK longer : longer = Append(log, e)
    OBVIOUS
<1>6. PICK states : PolicyStates(states, log, proposed) /\ constitution.policies = states[k]
    BY <1>1, <1>4 DEF Backed
<1>7. file.amendment_log = longer /\ file.policies = Amended(states[k], proposed[i])
    BY <1>1, <1>2, <1>5, <1>6 DEF AmendedBy
<1>8. last \in SUBSET Validators /\ 3 * Cardinality(last) >= 2 * N
    <2>1. last = Ballots(p, "ACCEPT")
        BY DEF Ballots
    <2>2. p.votes_accepted = Cardinality(last) /\ p.votes_accepted >= Required
        BY <2>1 DEF Counted
    <2>3. Cardinality(last) \in Nat
        BY FiniteBallots
    <2> QED  BY <2>2, <2>3, RequiredIsEnough, RequiredIsInteger
<1> HIDE DEF last
<1>9. voters \in Seq(SUBSET Validators) /\ voters = Append(ratified, last)
    BY <1>8 DEF last
<1>10. k \in Nat /\ Len(ratified) = k
    BY <1>1, <1>3, <1>4 DEF Backed
<1>11. /\ Len(voters) = k + 1 /\ voters[k + 1] = last
       /\ \A n \in 1 .. k : voters[n] = ratified[n]
    BY <1>8, <1>9, <1>10
<1>12. log \in Seq(S \cup {e}) /\ longer \in Seq(S \cup {e})
    BY <1>3, <1>5
<1>13. /\ Len(longer) = k + 1 /\ longer[k + 1] = e
       /\ \A n \in 1 .. k : longer[n] = log[n]
    BY <1>4, <1>5, <1>10, <1>12
<1>14. e.proposal = i
    BY <1>2
<1>15. \A n \in 1 .. k + 1 : n = k + 1 \/ n \in 1 .. k
    BY <1>10
<1>16. \A n \in 1 .. k : log[n].proposal # i
    BY <1>1, <1>3, <1>4 DEF InLog
<1> DEFINE more == [n \in 0 .. k + 1 |-> IF n = k + 1 THEN Amended(states[k], proposed[i])
                                         ELSE states[n]]
<1>17. \A n \in 0 .. k : n \in 0 .. k + 1 /\ n # k + 1
    BY <1>10
<1>18. k + 1 \in 0 .. k + 1 /\ k \in 0 .. k /\ 0 \in 0 .. k
    BY <1>10
<1>19. more[k + 1] = Amended(states[k], proposed[i]) /\ \A n \in 0 .. k : more[n] = states[n]
    BY <1>17, <1>18, Zenon
<1> HIDE DEF more
<1>20. \A n \in 1 .. k : n \in 0 .. k /\ n - 1 \in 0 .. k
    BY <1>10
<1>21. PolicyStates(more, longer, proposed)
    <2>1. more[0] = Genesis
        BY <1>6, <1>18, <1>19 DEF PolicyStates
    <2>2. \A n \in 1 .. k : states[n] = Amended(states[n - 1], proposed[log[n].proposal])
        BY <1>4, <1>6 DEF PolicyStates
    <2>3. ASSUME NEW n \in 1 .. k + 1
          PROVE  more[n] = Amended(more[n - 1], proposed[longer[n].proposal])
        <3>1. CASE n = k + 1
            <4>1. n - 1 = k
                BY <1>10, <3>1
            <4>2. more[n - 1] = states[k] /\ longer[n].proposal = i
                BY <1>13, <1>14, <1>18, <1>19, <3>1, <4>1
            <4> QED  BY <1>19, <3>1, <4>2
        <3>2. CASE n \in 1 .. k
            <4>1. more[n] = states[n] /\ more[n - 1] = states[n - 1] /\ longer[n] = log[n]
                BY <1>13, <1>19, <1>20, <3>2
            <4> QED  BY <2>2, <3>2, <4>1
        <3> QED  BY <1>15, <3>1, <3>2
    <2> QED  BY <1>13, <2>1, <2>3 DEF PolicyStates
<1>22. \A n \in 1 .. k + 1 : 3 * Cardinality(voters[n]) >= 2 * N
    <2>1. \A n \in 1 .. k : 3 * Cardinality(ratified[n]) >= 2 * N
        BY <1>1, <1>4 DEF Backed
    <2> QED  BY <1>8, <1>11, <1>15, <2>1
<1>23. \A n, m \in 1 .. k + 1 : longer[m].proposal = longer[n].proposal => m = n
    <2>1. \A n, m \in 1 .. k : log[m].proposal = log[n].proposal => m = n
        BY <1>1, <1>4 DEF Backed
    <2> QED  BY <1>13, <1>14, <1>15, <1>16, <2>1
<1> QED  BY <1>7, <1>9, <1>11, <1>12, <1>13, <1>19, <1>21, <1>22, <1>23 DEF Backed

\* One conclusion: an enactment is backed, the other conclusions leave the file alone.
LEMMA ConcludeKeepsQuorum ==
    ASSUME QuorumInv, NEW i, Open(i), NEW voters \in SUBSET Unvoted(proposals[i]),
           NEW decision \in Decision, Conclude(i, Voted(proposals[i], voters, decision))
    PROVE  QuorumInv'
<1> DEFINE p == Voted(proposals[i], voters, decision)
           q == [p EXCEPT !.state = "ENACTED"]
<1>1. VoteInv'
    BY ConcludeKeepsVotes DEF QuorumInv
<1>2. /\ i \in DOMAIN proposals /\ Counted(proposals[i])
      /\ ~ InLog(constitution.amendment_log, i)
      /\ proposals[i].change = proposed[i]
    BY DEF QuorumInv, Open, VoteInv
<1>3. Counted(p) /\ p.change = proposed[i]
    <2>1. Counted(p)
        BY <1>2, VotedIsCounted
    <2>2. p.change = proposals[i].change
        BY DEF Voted
    <2> QED  BY <1>2, <2>1, <2>2
<1>4. proposed' = proposed
    BY DEF Conclude
<1>5. q.change = p.change
    BY DEF Voted
<1> HIDE DEF p
<1>6. CASE Enacts(p)
    <2>1. /\ constitution' = AmendedBy(constitution, i, p.change, governance.current_epoch + 1)
          /\ proposals' = WithProposal(i, q)
          /\ ratified' = Append(ratified, {v \in Validators : p.votes[v] = "ACCEPT"})
        BY <1>6 DEF Conclude, Enact, p
    <2>2. /\ ratified' \in Seq(SUBSET Validators)
          /\ Backed(constitution', ratified', proposed)
        BY <1>2, <1>3, <1>6, <2>1, AmendmentBacked DEF QuorumInv, Enacts
    <2> HIDE DEF q
    <2>3. \A j \in DOMAIN proposals' : proposals'[j].change = proposed'[j]
        BY <1>2, <1>3, <1>4, <1>5, <2>1 DEF WithProposal, QuorumInv
    <2> QED  BY <1>1, <1>4, <2>2, <2>3 DEF QuorumInv
<1>7. CASE ~ Enacts(p)
    <2>1. constitution' = constitution /\ ratified' = ratified /\ proposals' = WithProposal(i, p)
        BY <1>7 DEF Conclude, p
    <2>2. \A j \in DOMAIN proposals' : proposals'[j].change = proposed'[j]
        BY <1>2, <1>3, <1>4, <2>1 DEF WithProposal, QuorumInv
    <2> QED  BY <1>1, <1>4, <2>1, <2>2 DEF QuorumInv
<1> QED  BY <1>6, <1>7

\* A crash between the file and the rest of an enactment leaves an amendment that is
\* backed; the proposal is forgotten with all the others.
LEMMA CrashKeepsQuorum ==
    ASSUME QuorumInv, VoteInv', NEW i, NEW v \in Validators, CrashInEnactment(i, v)
    PROVE  QuorumInv'
<1> DEFINE p == Voted(proposals[i], {v}, "ACCEPT")
<1>1. /\ i \in DOMAIN proposals /\ Counted(proposals[i])
      /\ ~ InLog(constitution.amendment_log, i)
      /\ proposals[i].change = proposed[i]
    BY DEF CrashInEnactment, QuorumInv, Open, VoteInv
<1>2. {v} \in SUBSET Unvoted(proposals[i]) /\ "ACCEPT" \in Decision
    BY DEF CrashInEnactment, Decision
<1>3. Counted(p) /\ p.change = proposed[i]
    <2>1. Counted(p)
        BY <1>1, <1>2, VotedIsCounted
    <2>2. p.change = proposals[i].change
        BY DEF Voted
    <2> QED  BY <1>1, <2>1, <2>2
<1>4. /\ Enacts(p)
      /\ constitution' = AmendedBy(constitution, i, p.change, governance.current_epoch + 1)
      /\ ratified' = Append(ratified, {u \in Validators : p.votes[u] = "ACCEPT"})
    BY DEF CrashInEnactment
<1>5. proposed' = proposed /\ DOMAIN proposals' = {}
    BY DEF CrashInEnactment, Crashes
<1> HIDE DEF p
<1>6. ratified' \in Seq(SUBSET Validators) /\ Backed(constitution', ratified', proposed)
    BY <1>1, <1>3, <1>4, AmendmentBacked DEF QuorumInv, Enacts
<1> QED  BY <1>5, <1>6 DEF QuorumInv

\* A further proposal changes nothing of what the earlier ones did to the file.
LEMMA ProposeKeepsQuorum ==
    ASSUME QuorumInv, VoteInv', NEW change \in Changes, Propose(change)
    PROVE  QuorumInv'
<1>1. /\ constitution' = constitution /\ ratified' = ratified
      /\ proposed' = Append(proposed, change)
      /\ proposed \in Seq(Change) /\ change \in Change
    BY GovernanceAssumption DEF Propose, QuorumInv, VoteInv
<1>2. /\ \A j \in 1 .. Len(proposed) : proposed'[j] = proposed[j]
      /\ proposed'[Len(proposed) + 1] = change
    BY <1>1
<1>3. \A k \in DOMAIN constitution.amendment_log :
         constitution.amendment_log[k].proposal \in 1 .. Len(proposed)
    BY DEF QuorumInv, VoteInv
<1>4. PICK log : log = constitution.amendment_log
    OBVIOUS
<1>5. PICK S : log \in Seq(S)
    BY <1>4 DEF QuorumInv, Backed
<1>6. \A k \in 1 .. Len(log) : proposed'[log[k].proposal] = proposed[log[k].proposal]
    BY <1>2, <1>3, <1>4, <1>5
<1>7. \A states : PolicyStates(states, log, proposed) => PolicyStates(states, log, proposed')
    BY <1>6 DEF PolicyStates
<1>8. Backed(constitution', ratified', proposed')
    BY <1>1, <1>4, <1>7 DEF QuorumInv, Backed
<1>9. PICK n : n = Len(proposed) + 1
    OBVIOUS
<1>10. PICK p : proposals' = WithProposal(n, p) /\ p.change = change
    BY <1>9 DEF Propose
<1>11. \A j \in DOMAIN proposals : j \in 1 .. Len(proposed) /\ proposals[j].change = proposed[j]
    BY DEF QuorumInv, VoteInv
<1>12. \A j \in DOMAIN proposals' : proposals'[j].change = proposed'[j]
    BY <1>2, <1>9, <1>10, <1>11 DEF WithProposal
<1> QED  BY <1>1, <1>8, <1>12 DEF QuorumInv

\* Every amendment of the file was accepted by two thirds of the validators, is in its log
\* once, and is what its proposal asked for: for any number of validators and of crashes in
\* the middle of an enactment, with proposals that fail, overtake or undo each other.
THEOREM AmendmentsBacked == Spec => []AmendmentsHadAQuorum
<1>1. Init => QuorumInv
    <2> SUFFICES ASSUME Init PROVE QuorumInv
        OBVIOUS
    <2>1. /\ constitution.amendment_log = <<>> /\ constitution.policies = Genesis
          /\ ratified = <<>> /\ DOMAIN proposals = {} /\ proposed = <<>>
        BY DEF Init, GenesisConstitution
    <2>2. <<>> \in Seq({}) /\ <<>> \in Seq(Change) /\ <<>> \in Seq(SUBSET Validators)
          /\ Len(<<>>) = 0 /\ DOMAIN <<>> = {}
        OBVIOUS
    <2>3. PolicyStates([n \in {0} |-> Genesis], <<>>, proposed)
        BY <2>2 DEF PolicyStates
    <2>4. Backed(constitution, ratified, proposed)
        BY <2>1, <2>2, <2>3 DEF Backed
    <2>5. VoteInv
        BY <2>1, <2>2 DEF VoteInv
    <2> QED  BY <2>1, <2>2, <2>4, <2>5 DEF QuorumInv
<1>2. QuorumInv /\ VoteInv' /\ [Next]_vars => QuorumInv'
    <2> SUFFICES ASSUME QuorumInv, VoteInv', [Next]_vars PROVE QuorumInv'
        OBVIOUS
    <2>1. ASSUME UNCHANGED <<constitution, proposals, proposed, ratified>>
          PROVE  QuorumInv'
        BY <2>1 DEF QuorumInv
    <2>2. ASSUME NEW change \in Changes, Propose(change)
          PROVE  QuorumInv'
        BY <2>2, ProposeKeepsQuorum
    <2>3. ASSUME NEW i \in 1 .. MaxProposals, NEW v \in Validators, NEW decision \in Decision,
                 Vote(i, v, decision)
          PROVE  QuorumInv'
        BY <2>3, ConcludeKeepsQuorum DEF Vote
    <2>4. ASSUME NEW i \in 1 .. MaxProposals, CollectLocalVotes(i)
          PROVE  QuorumInv'
        <3>1. Voters(proposals[i]) \in SUBSET Unvoted(proposals[i])
            BY DEF Voters
        <3>2. Merit(proposals[i]) \in Decision
            BY DEF Merit, Decision
        <3> QED  BY <2>4, <3>1, <3>2, ConcludeKeepsQuorum DEF CollectLocalVotes
    <2>5. ASSUME NEW i \in 1 .. MaxProposals, Veto(i)
          PROVE  QuorumInv'
        <3> DEFINE q == [proposals[i] EXCEPT !.state = "VETOED"]
        <3>1. /\ i \in DOMAIN proposals /\ proposals' = WithProposal(i, q)
              /\ constitution' = constitution /\ proposed' = proposed /\ ratified' = ratified
            BY <2>5 DEF Veto
        <3>2. q.change = proposals[i].change
            BY <3>1 DEF QuorumInv, VoteInv, Counted, ProposalRecord
        <3> HIDE DEF q
        <3>3. \A j \in DOMAIN proposals' : proposals'[j].change = proposed'[j]
            BY <3>1, <3>2 DEF WithProposal, QuorumInv
        <3> QED  BY <3>1, <3>3 DEF QuorumInv
    <2>6. ASSUME NEW i \in 1 .. MaxProposals, NEW v \in Validators, CrashInEnactment(i, v)
          PROVE  QuorumInv'
        BY <2>6, CrashKeepsQuorum
    <2>7. CASE Crash
        <3>1. constitution' = constitution /\ proposed' = proposed /\ ratified' = ratified
              /\ DOMAIN proposals' = {}
            BY <2>7 DEF Crash, Crashes
        <3> QED  BY <3>1 DEF QuorumInv
    <2>8. CASE Boot
        BY <2>8, <2>1 DEF Boot
    <2>9. CASE UNCHANGED vars
        BY <2>9, <2>1 DEF vars
    <2> QED
        BY <2>2, <2>3, <2>4, <2>5, <2>6, <2>7, <2>8, <2>9 DEF Next
<1>3. QuorumInv => AmendmentsHadAQuorum
    <2> SUFFICES ASSUME QuorumInv PROVE AmendmentsHadAQuorum
        OBVIOUS
    <2>1. PICK log : log = constitution.amendment_log
        OBVIOUS
    <2>2. PICK S : log \in Seq(S)
        BY <2>1 DEF QuorumInv, Backed
    <2>3. Len(log) \in Nat /\ DOMAIN log = 1 .. Len(log)
        BY <2>2
    <2>4. PICK states : PolicyStates(states, log, proposed)
                        /\ constitution.policies = states[Len(log)]
        BY <2>1 DEF QuorumInv, Backed
    <2>5. PoliciesAfter(log, Len(log)) = states[Len(log)]
        BY <2>3, <2>4, PoliciesUnfold
    <2> QED  BY <2>1, <2>3, <2>4, <2>5 DEF QuorumInv, Backed, AmendmentsHadAQuorum
<1> QED  BY <1>1, <1>2, <1>3, VotesAreCounted, PTL DEF Spec

=============================================================================
