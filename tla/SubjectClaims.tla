----------------------------- MODULE SubjectClaims -----------------------------
(***************************************************************************)
(* The claims about subjects (subject-claim-history-runtime.js): a stream  *)
(* of events beside the event log, from which the server derives, for      *)
(* every proof it issues, the email address that the proof discloses.      *)
(*                                                                         *)
(* What a claim is about is its subject and its type together.  An event   *)
(* that validateClaimEvent rejects, or whose type matches only once it is  *)
(* trimmed, is of the kind "malformed"; one without an id has no effect    *)
(* and is left out.  Nothing in the source appends to the stream: it comes *)
(* with the ledger that a boot loads.                                      *)
(***************************************************************************)
EXTENDS Integers, Sequences, SequencesExt

CONSTANTS
    ClaimIds,     \* event ids; the id of an event is the id of its claim
    Abouts,       \* subjects with a claim type
    MaxClaims     \* how many events the stream holds: a bound

\* No event has the id that stands for the lack of one.
ClaimsAssumption == "none" \notin ClaimIds

VARIABLES
    claimHistory  \* ledger.claim_history

\* The event of a claim: target is the claim it supersedes or revokes.
ClaimEvent ==
    [id : ClaimIds, about : Abouts, type : {"malformed", "issued"}, target : {"none"}]
        \cup [id : ClaimIds, about : Abouts, type : {"superseded", "revoked"}, target : ClaimIds]

Init == claimHistory = <<>>

-----------------------------------------------------------------------------

\* The claims an event may end: those of its id that are about the same.
Targets(claims, event) ==
    {i \in DOMAIN claims : claims[i].id = event.target /\ claims[i].about = event.about}

Accepted(projection, event) ==
    /\ event.id \notin projection.seen
    /\ event.type # "malformed"
    /\ event.type = "issued" \/ Targets(projection.claims, event) # {}

\* What an accepted event does: a claim that has ended may be ended again.
Applied(claims, event) ==
    LET ended == [i \in DOMAIN claims |->
                     IF i \in Targets(claims, event)
                     THEN [claims[i] EXCEPT !.status = event.type] ELSE claims[i]]
        made == [id |-> event.id, about |-> event.about, status |-> "active"]
    IN  IF event.type = "revoked" THEN ended ELSE Append(ended, made)

\* Slip: only the ids of accepted events count as seen.
DeriveUnlessRejected(projection, event) ==
    IF Accepted(projection, event)
    THEN [seen |-> projection.seen \cup {event.id}, claims |-> Applied(projection.claims, event)]
    ELSE projection

\* One turn of the loop of deriveActiveClaimProjection: the id of an event counts as seen
\* whatever becomes of the event.
Derive(projection, event) ==
    [seen |-> projection.seen \cup {event.id},
     claims |-> IF Accepted(projection, event) THEN Applied(projection.claims, event)
                ELSE projection.claims]

\* deriveActiveClaimProjection: the claims in the order they were made.
Projection == FoldLeft(Derive, [seen |-> {}, claims |-> <<>>], claimHistory)

\* emailDisclosureFromClaimHistory discloses the first of the active claims, if any.
Disclosed(about) ==
    LET claims == Projection.claims
        active == {i \in DOMAIN claims : claims[i].about = about /\ claims[i].status = "active"}
    IN  IF active = {} THEN "none" ELSE claims[Min(active)].id

\* The stream grows.
AppendClaim(event) ==
    /\ Len(claimHistory) < MaxClaims
    /\ claimHistory' = Append(claimHistory, event)

Next == \E event \in ClaimEvent : AppendClaim(event)

Spec == Init /\ [][Next]_claimHistory

-----------------------------------------------------------------------------

TypeOK == claimHistory \in Seq(ClaimEvent)

\* The event at i is the first under its id; later ones are replays.
Fresh(i) == \A j \in 1 .. i - 1 : claimHistory[j].id # claimHistory[i].id

\* The claim of the event at i stands: nothing after it supersedes or revokes it.
Stands(i) ==
    /\ Fresh(i)
    /\ \A j \in i + 1 .. Len(claimHistory) :
          Fresh(j) => claimHistory[j].target # claimHistory[i].id
                        \/ claimHistory[j].about # claimHistory[i].about

\* A proof discloses a claim only if the event that made it came first under its id, is
\* about the subject, and no event after it ended the claim: a replayed, reused or rejected
\* id never brings an ended claim back.  And a claim that was issued and stands is never
\* passed over for the want of one.
DisclosedClaimsStand ==
    \A about \in Abouts :
       /\ Disclosed(about) # "none" =>
             \E i \in DOMAIN claimHistory :
                /\ Stands(i) /\ claimHistory[i].about = about
                /\ claimHistory[i].id = Disclosed(about)
                /\ claimHistory[i].type \in {"issued", "superseded"}
       /\ Disclosed(about) = "none" =>
             ~ \E i \in DOMAIN claimHistory :
                  /\ Stands(i) /\ claimHistory[i].about = about
                  /\ claimHistory[i].type = "issued"

=============================================================================
