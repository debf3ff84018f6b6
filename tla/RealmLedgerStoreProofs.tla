------------------------ MODULE RealmLedgerStoreProofs ------------------------
(***************************************************************************)
(* What RealmLedgerStore promises, for every set of accounts, every        *)
(* initial ledger and every bound.                                         *)
(***************************************************************************)
EXTENDS RealmLedgerStore, Induction, FiniteSetTheorems

-----------------------------------------------------------------------------
(* Accounts, roots and the replay of a log. *)

LEMMA WithType ==
    ASSUME NEW accounts \in Accounts, NEW a \in Names, NEW record \in Account
    PROVE  With(accounts, a, record) \in Accounts
<1>1. PICK S \in SUBSET Names : accounts \in [S -> Account]
  BY DEF Accounts
<1>2. S \cup {a} \in SUBSET Names
  OBVIOUS
<1>3. With(accounts, a, record) \in [S \cup {a} -> Account]
  BY <1>1 DEF With
<1> QED BY <1>2, <1>3 DEF Accounts

LEMMA NoAccountsType == NoAccounts \in Accounts
<1>1. NoAccounts \in [{} -> Account]
  BY DEF NoAccounts
<1> QED BY <1>1 DEF Accounts

\* applyEvent takes accounts to accounts.
LEMMA ApplyEventType ==
    ASSUME NEW accounts \in Accounts, NEW e \in Event
    PROVE  ApplyEvent(accounts, e) \in Accounts
<1>1. CASE e.type = "GENESIS"
  <2>1. e.account \in Names
    BY <1>1 DEF Event
  <2>2. [balance |-> 1000, credential |-> TRUE] \in Account
    BY DEF Account
  <2> HIDE DEF With
  <2> QED BY <1>1, <2>1, <2>2, WithType DEF ApplyEvent
<1>2. CASE e.type = "ACCOUNT_PROVENANCE_ADMISSION" /\ e.account \notin DOMAIN accounts
  <2>1. e.account \in Names /\ e.state \in Account
    BY <1>2 DEF Event
  <2> QED BY <1>2, <2>1, WithType DEF ApplyEvent
<1> QED BY <1>1, <1>2 DEF ApplyEvent

LEMMA StateRootType ==
    ASSUME NEW accounts \in Accounts, NEW law \in Law
    PROVE  StateRoot(accounts, law) \in Root
<1>1. PICK S \in SUBSET Names : accounts \in [S -> Account]
  BY DEF Accounts
<1>2. [a \in DOMAIN accounts |-> accounts[a].balance] \in [S -> {0, 1000, 5000}]
  BY <1>1 DEF Account
<1>3. [a \in DOMAIN accounts |-> accounts[a].balance]
        \in UNION {[T -> {0, 1000, 5000}] : T \in SUBSET Names}
  BY <1>1, <1>2
<1> QED BY <1>3 DEF StateRoot, Root

\* states[i] are the accounts after the first i events of the log.
ReplayStates(log, states) ==
    /\ states \in [0 .. Len(log) -> Accounts]
    /\ states[0] = NoAccounts
    /\ \A i \in 1 .. Len(log) : states[i] = ApplyEvent(states[i - 1], log[i])

\* The replay of a log is the last of its states: the fold empties the set of positions
\* from the largest down, which is one event after the other.
LEMMA ReplayUnfolds ==
    ASSUME NEW log \in Seq(Event)
    PROVE  \E states : ReplayStates(log, states) /\ Replay(log) = states[Len(log)]
<1> DEFINE k    == Len(log)
           step == [p \in (1 .. k) \X Accounts |-> ApplyEvent(p[2], log[p[1]])]
           Equation(f) == f = [s \in SUBSET DOMAIN log |->
                                 IF s = {} THEN NoAccounts
                                 ELSE ApplyEvent(f[s \ {Max(s)}], log[Max(s)])]
<1>1. k \in Nat /\ DOMAIN log = 1 .. k /\ \A i \in 1 .. k : log[i] \in Event
  OBVIOUS
<1>2. Replay(log) = (CHOOSE f : Equation(f))[DOMAIN log]
  BY Zenon DEF Replay, FoldLeft, MapThenFoldSet
<1>3. step \in [(1 .. k) \X Accounts -> Accounts]
  <2>1. ASSUME NEW p \in (1 .. k) \X Accounts
        PROVE  ApplyEvent(p[2], log[p[1]]) \in Accounts
    <3>1. p[1] \in 1 .. k /\ p[2] \in Accounts
      OBVIOUS
    <3> QED BY <1>1, <3>1, ApplyEventType
  <2> QED BY <2>1
<1>4. \A n \in 1 .. k : \A x \in Accounts : step[<<n, x>>] = ApplyEvent(x, log[n])
  <2> HIDE DEF k
  <2> QED OBVIOUS
<1> HIDE DEF k, step
<1>5. FoldSolved(Accounts, k, NoAccounts, step)
  BY <1>1, <1>3, NoAccountsType, FoldExists
<1>6. PICK g \in [SUBSET (1 .. k) -> Accounts] : FoldEquation(g, k, NoAccounts, step)
  BY <1>5 DEF FoldSolved
<1>7. ASSUME NEW s \in SUBSET (1 .. k), s # {}
      PROVE  g[s] = ApplyEvent(g[s \ {Max(s)}], log[Max(s)])
  <2>1. Max(s) \in 1 .. k
    BY <1>1, <1>7, LargestIsElement
  <2>2. g[s \ {Max(s)}] \in Accounts
    <3>1. s \ {Max(s)} \in SUBSET (1 .. k)
      OBVIOUS
    <3> QED BY <1>6, <3>1
  <2>3. g[s] = step[<<Max(s), g[s \ {Max(s)}]>>]
    BY <1>6, <1>7 DEF FoldEquation
  <2> QED BY <1>4, <2>1, <2>2, <2>3
<1>8. Equation(g)
  <2>1. g[{}] = NoAccounts
    BY <1>6 DEF FoldEquation
  <2>2. \A s \in SUBSET (1 .. k) :
           g[s] = IF s = {} THEN NoAccounts ELSE ApplyEvent(g[s \ {Max(s)}], log[Max(s)])
    BY <1>7, <2>1, Zenon
  <2>3. g = [s \in SUBSET (1 .. k) |-> g[s]]
    BY <1>6
  <2>4. DOMAIN log = 1 .. k
    BY <1>1
  <2> QED BY <2>2, <2>3, <2>4, Zenon
<1>9. PICK f : f = (CHOOSE h : Equation(h))
  OBVIOUS
<1>10. Equation(f)
  BY <1>8, <1>9, Zenon
<1>11. Replay(log) = f[1 .. k]
  BY <1>1, <1>2, <1>9, Zenon
<1> DEFINE fs == [n \in 0 .. k |-> f[1 .. n]]
           gs == [n \in 0 .. k |-> g[1 .. n]]
<1>12. /\ gs \in [0 .. k -> Accounts] /\ gs[0] = NoAccounts
       /\ \A n \in 1 .. k : gs[n] = ApplyEvent(gs[n - 1], log[n])
  <2>1. /\ g[1 .. 0] = NoAccounts
        /\ \A n \in 1 .. k : g[1 .. n] = step[<<n, g[1 .. n - 1]>>]
        /\ \A n \in 0 .. k : g[1 .. n] \in Accounts
    BY ONLY <1>1, <1>6, FoldSteps
  <2>2. \A n \in 1 .. k : n - 1 \in 0 .. k
    BY <1>1
  <2>3. 0 \in 0 .. k
    BY <1>1
  <2>4. \A n \in 1 .. k : g[1 .. n - 1] \in Accounts
    BY <2>1, <2>2
  <2>5. \A n \in 1 .. k : g[1 .. n] = ApplyEvent(g[1 .. n - 1], log[n])
    BY <1>4, <2>1, <2>4
  <2>6. \A n \in 1 .. k : gs[n] = g[1 .. n] /\ gs[n - 1] = g[1 .. n - 1]
    <3>1. \A n \in 1 .. k : n \in 0 .. k
      BY <1>1
    <3> QED BY <2>2, <3>1
  <2>7. gs \in [0 .. k -> Accounts] /\ gs[0] = NoAccounts
    BY <2>1, <2>3
  <2> HIDE DEF gs
  <2> QED BY <2>5, <2>6, <2>7
<1>13. /\ fs[0] = NoAccounts
       /\ \A n \in 1 .. k : fs[n] = ApplyEvent(fs[n - 1], log[n])
  <2>1. f = [s \in SUBSET (1 .. k) |->
               IF s = {} THEN NoAccounts ELSE ApplyEvent(f[s \ {Max(s)}], log[Max(s)])]
    BY <1>1, <1>10, Zenon
  <2>2. {} \in SUBSET (1 .. k) /\ 1 .. 0 = {} /\ 0 \in 0 .. k
    BY <1>1
  <2>3. f[{}] = NoAccounts
    BY <2>1, <2>2, Zenon
  <2>4. ASSUME NEW n \in 1 .. k
        PROVE  f[1 .. n] = ApplyEvent(f[1 .. n - 1], log[n])
    <3>1. n - 1 \in Nat /\ (n - 1) + 1 = n
      BY <1>1
    <3>2. Max(1 .. n) = n /\ (1 .. n) \ {n} = 1 .. n - 1
      BY <3>1, LargestOfInterval
    <3>3. 1 .. n \in SUBSET (1 .. k) /\ 1 .. n # {}
      <4>1. k \in Nat /\ n \in 1 .. n /\ \A i \in 1 .. n : i \in 1 .. k
        BY <1>1
      <4> QED BY <4>1
    <3>4. f[1 .. n] = ApplyEvent(f[(1 .. n) \ {Max(1 .. n)}], log[Max(1 .. n)])
      BY <2>1, <3>3, Zenon
    <3> QED BY <3>2, <3>4
  <2>5. \A n \in 1 .. k : n - 1 \in 0 .. k /\ n \in 0 .. k
    BY <1>1
  <2> QED BY <2>2, <2>3, <2>4, <2>5
<1>14. fs[k] = gs[k]
  <2>1. fs[0] = gs[0]
    BY <1>12, <1>13
  <2>2. \A n \in 1 .. k : fs[n - 1] = gs[n - 1] => fs[n] = gs[n]
    BY <1>12, <1>13
  <2> HIDE DEF fs, gs
  <2> QED BY <1>1, <2>1, <2>2, StepsAgree
<1>15. Replay(log) = gs[k]
  <2>1. k \in 0 .. k
    BY <1>1
  <2> QED BY <1>11, <1>14, <2>1
<1>16. ReplayStates(log, gs)
  <2> HIDE DEF gs
  <2> QED BY <1>12 DEF ReplayStates, k
<1> HIDE DEF gs
<1> QED BY <1>15, <1>16 DEF k

\* The states of a log are determined by it.
LEMMA ReplayDetermined ==
    ASSUME NEW log \in Seq(Event), NEW states, ReplayStates(log, states)
    PROVE  Replay(log) = states[Len(log)]
<1>1. PICK others : ReplayStates(log, others) /\ Replay(log) = others[Len(log)]
  BY ReplayUnfolds
<1>2. PICK k : k = Len(log)
  OBVIOUS
<1>3. others[0] = states[0]
  BY <1>1 DEF ReplayStates
<1>4. \A n \in 1 .. k : others[n - 1] = states[n - 1] => others[n] = states[n]
  BY <1>1, <1>2 DEF ReplayStates
<1>5. k \in Nat
  BY <1>2
<1>6. others[k] = states[k]
  BY ONLY <1>3, <1>4, <1>5, StepsAgree
<1> QED BY <1>1, <1>2, <1>6

LEMMA ReplayType ==
    ASSUME NEW log \in Seq(Event)
    PROVE  Replay(log) \in Accounts
<1>1. PICK states : ReplayStates(log, states) /\ Replay(log) = states[Len(log)]
  BY ReplayUnfolds
<1>2. Len(log) \in 0 .. Len(log)
  OBVIOUS
<1> QED BY <1>1, <1>2 DEF ReplayStates

\* An event at the end of a log is applied to what the log gives.
LEMMA ReplayAppends ==
    ASSUME NEW log \in Seq(Event), NEW e \in Event
    PROVE  Replay(Append(log, e)) = ApplyEvent(Replay(log), e)
<1>1. PICK states : ReplayStates(log, states) /\ Replay(log) = states[Len(log)]
  BY ReplayUnfolds
<1>2. PICK k : k = Len(log)
  OBVIOUS
<1>3. PICK longer : longer = Append(log, e)
  OBVIOUS
<1>4. PICK next : next = ApplyEvent(states[k], e)
  OBVIOUS
<1>5. /\ k \in Nat
      /\ longer \in Seq(Event) /\ Len(longer) = k + 1
      /\ \A i \in 1 .. k : longer[i] = log[i]
      /\ longer[k + 1] = e
  BY <1>2, <1>3
<1>6. /\ states \in [0 .. k -> Accounts] /\ states[0] = NoAccounts
      /\ \A i \in 1 .. k : states[i] = ApplyEvent(states[i - 1], log[i])
  BY <1>1, <1>2 DEF ReplayStates
<1>7. next \in Accounts
  BY <1>4, <1>5, <1>6, ApplyEventType
<1> DEFINE more == [n \in 0 .. k + 1 |-> IF n = k + 1 THEN next ELSE states[n]]
<1>8. /\ more \in [0 .. k + 1 -> Accounts] /\ more[0] = NoAccounts
      /\ \A n \in 0 .. k : more[n] = states[n]
      /\ more[k + 1] = next
  <2>1. \A n \in 0 .. k + 1 : n = k + 1 \/ n \in 0 .. k
    BY <1>5
  <2>2. \A n \in 0 .. k : n # k + 1 /\ n \in 0 .. k + 1
    BY <1>5
  <2>3. 0 \in 0 .. k /\ k + 1 \in 0 .. k + 1
    BY <1>5
  <2> QED BY <1>6, <1>7, <2>1, <2>2, <2>3
<1> HIDE DEF more
<1>9. ASSUME NEW i \in 1 .. k + 1
      PROVE  more[i] = ApplyEvent(more[i - 1], longer[i])
  <2>1. CASE i = k + 1
    <3>1. i - 1 = k /\ k \in 0 .. k
      BY <1>5, <2>1
    <3> QED BY <1>4, <1>5, <1>8, <2>1, <3>1
  <2>2. CASE i # k + 1
    <3>1. i \in 1 .. k /\ i \in 0 .. k /\ i - 1 \in 0 .. k
      BY <1>5, <2>2
    <3> QED BY <1>5, <1>6, <1>8, <3>1
  <2> QED BY <2>1, <2>2
<1>10. ReplayStates(longer, more)
  BY <1>5, <1>8, <1>9 DEF ReplayStates
<1>11. Replay(longer) = more[k + 1]
  BY <1>5, <1>10, ReplayDetermined
<1> QED BY <1>1, <1>2, <1>3, <1>4, <1>8, <1>11

-----------------------------------------------------------------------------
(* What a boot makes of the files. *)

\* A finite set has a sequence of its elements.
LEMMA SetToSeqLists ==
    ASSUME NEW S, IsFiniteSet(S)
    PROVE  SetToSeq(S) \in Seq(S)
<1>1. Cardinality(S) \in Nat /\ ExistsBijection(1 .. Cardinality(S), S)
  BY FS_CardinalityType
<1>2. PICK f \in [1 .. Cardinality(S) -> S] : IsInjective(f)
  BY <1>1 DEF ExistsBijection, Bijection, Injection
<1>3. SetToSeq(S) \in [1 .. Cardinality(S) -> S]
  BY <1>2, Zenon DEF SetToSeq
<1> QED BY <1>1, <1>3

LEMMA NamesFinite == IsFiniteSet(Names)
  BY NamesAssumption, FS_AddElement DEF Names

LEMMA AccountsWithin ==
    ASSUME NEW accounts \in Accounts
    PROVE  /\ DOMAIN accounts \subseteq Names
           /\ \A a \in DOMAIN accounts : accounts[a] \in Account
  BY DEF Accounts

Backfilled(a) == [type |-> "GENESIS", account |-> a, backfilled |-> TRUE]

\* The events a boot backfills: registrations of accounts that no event of the log knows.
LEMMA BackfillLists ==
    ASSUME NEW accounts \in Accounts, NEW log \in Seq(Event), NEW S,
           S = {a \in DOMAIN accounts : accounts[a].credential /\ a \notin Known(log)}
    PROVE  /\ SetToSeq({Backfilled(a) : a \in S}) \in Seq({Backfilled(a) : a \in S})
           /\ {Backfilled(a) : a \in S} \subseteq Event
           /\ {Backfilled(a) : a \in S} \cap Range(log) = {}
<1> DEFINE T == {Backfilled(a) : a \in S}
           f == [a \in S |-> Backfilled(a)]
<1>1. S \subseteq Names
  BY AccountsWithin
<1>2. IsFiniteSet(S)
  BY <1>1, NamesFinite, FS_Subset
<1>3. f \in Surjection(S, T)
  <2>1. f \in [S -> T]
    OBVIOUS
  <2>2. \A t \in T : \E s \in S : f[s] = t
    OBVIOUS
  <2> QED BY <2>1, <2>2, Zenon DEF Surjection
<1>4. IsFiniteSet(T)
  BY ONLY <1>2, <1>3, FS_Surjection
<1>5. SetToSeq(T) \in Seq(T)
  BY <1>4, SetToSeqLists
<1>6. T \subseteq Event
  <2>1. ASSUME NEW a \in S PROVE Backfilled(a) \in Event
    <3>1. a \in Names
      BY <1>1
    <3>2. Backfilled(a) \in [type: {"GENESIS"}, account: Names, backfilled: BOOLEAN]
      BY <3>1 DEF Backfilled
    <3> QED BY <3>2 DEF Event
  <2> QED BY <2>1
<1>7. ASSUME NEW a \in S, Backfilled(a) \in Range(log) PROVE FALSE
  <2>1. PICK i \in DOMAIN log : log[i] = Backfilled(a)
    BY <1>7 DEF Range
  <2>2. a \in Known(log)
    BY <2>1 DEF Known, Backfilled
  <2> QED BY <2>2
<1> QED BY <1>5, <1>6, <1>7

\* The events of a repair, none of which is in the log.
LEMMA AdmittedLists ==
    ASSUME NEW accounts \in Accounts, NEW log \in Seq(Event), NEW S,
           S \subseteq DOMAIN accounts \ Admitted(log),
           \A a \in S : ~ accounts[a].credential,
           NEW T, T = {[type |-> "ACCOUNT_PROVENANCE_ADMISSION", account |-> a,
                        state |-> accounts[a]] : a \in S}
    PROVE  SetToSeq(T) \in Seq(T) /\ T \subseteq Event /\ T \cap Range(log) = {}
<1> DEFINE Admit(a) == [type |-> "ACCOUNT_PROVENANCE_ADMISSION", account |-> a,
                        state |-> accounts[a]]
           U == {Admit(a) : a \in S}
           f == [a \in S |-> Admit(a)]
<1>1. S \subseteq Names /\ \A a \in S : accounts[a] \in Account
  BY AccountsWithin
<1>2. IsFiniteSet(S)
  BY <1>1, NamesFinite, FS_Subset
<1>3. f \in Surjection(S, U)
  <2>1. f \in [S -> U]
    OBVIOUS
  <2>2. \A t \in U : \E s \in S : f[s] = t
    OBVIOUS
  <2> QED BY <2>1, <2>2, Zenon DEF Surjection
<1>4. IsFiniteSet(U)
  BY ONLY <1>2, <1>3, FS_Surjection
<1>5. IsFiniteSet(T)
  BY <1>4
<1>6. U \subseteq Event
  BY <1>1 DEF Event
<1>7. ASSUME NEW t \in T, t \in Range(log) PROVE FALSE
  <2>1. PICK i \in DOMAIN log : log[i] = t
    BY <1>7 DEF Range
  <2>2. PICK a \in S : t.type = "ACCOUNT_PROVENANCE_ADMISSION" /\ t.account = a
    BY <1>7
  <2>3. a \in Admitted(log)
    BY <2>1, <2>2 DEF Admitted
  <2> QED BY <2>2, <2>3
<1> QED BY <1>5, <1>6, <1>7, SetToSeqLists

BootstrapType ==
    [event_log: Seq(Event \cup {Torn}), accounts: Accounts, state_root: Root \cup {None},
     migrated: BOOLEAN]

Saved(file, type) == file \in {None, Torn} \/ file \in type

LEMMA NoLedgerType ==
    /\ NoLedger.event_log = <<>> /\ NoLedger.accounts = NoAccounts
    /\ NoLedger.state_root = None
  BY DEF NoLedger

LEMMA BootstrapTyped ==
    ASSUME NEW log \in Seq(Event \cup {Torn}), NEW saved, Saved(saved, Snapshot),
           NEW db, Saved(db, Ledger), NEW b, b = Bootstrap(log, saved, db)
    PROVE  b \in BootstrapType
<1>1. PICK legacy : legacy = Readable(db, NoLedger)
  OBVIOUS
<1>2. PICK latest : latest = Readable(saved, [accounts |-> NoAccounts, state_root |-> None])
  OBVIOUS
<1>3. /\ legacy.event_log \in Seq(Event \cup {Torn}) /\ legacy.accounts \in Accounts
      /\ legacy.state_root \in Root \cup {None}
  <2>1. CASE db \in {None, Torn}
    <3>1. legacy = NoLedger
      BY <1>1, <2>1, Zenon DEF Readable
    <3>2. legacy.event_log = <<>> /\ legacy.accounts = NoAccounts /\ legacy.state_root = None
      BY <3>1, NoLedgerType, Zenon
    <3>3. <<>> \in Seq(Event \cup {Torn})
      OBVIOUS
    <3> QED BY <3>2, <3>3, NoAccountsType, Zenon
  <2>2. CASE db \notin {None, Torn}
    <3>1. legacy \in Ledger
      BY <1>1, <2>2 DEF Readable, Saved
    <3>2. legacy.event_log \in Seq(Event)
      BY <3>1 DEF Ledger
    <3> QED BY <3>1, <3>2 DEF Ledger
  <2> QED BY <2>1, <2>2
<1>4. latest.accounts \in Accounts /\ latest.state_root \in Root \cup {None}
  <2>1. CASE saved \in {None, Torn}
    BY <1>2, <2>1, NoAccountsType DEF Readable
  <2>2. CASE saved \notin {None, Torn}
    BY <1>2, <2>2 DEF Readable, Saved, Snapshot
  <2> QED BY <2>1, <2>2
<1>5. b = CASE backend = "file" ->
               [event_log |-> legacy.event_log, accounts |-> legacy.accounts,
                state_root |-> legacy.state_root, migrated |-> FALSE]
          [] backend = "replicated" /\ log # <<>> ->
               [event_log |-> log, accounts |-> latest.accounts,
                state_root |-> latest.state_root, migrated |-> FALSE]
          [] OTHER ->
               IF legacy.event_log # <<>>
               THEN [event_log |-> legacy.event_log, accounts |-> legacy.accounts,
                     state_root |-> legacy.state_root, migrated |-> TRUE]
               ELSE [event_log |-> <<>>, accounts |-> NoAccounts, state_root |-> None,
                     migrated |-> FALSE]
  BY <1>1, <1>2, Zenon DEF Bootstrap
<1>6. CASE backend = "file"
  BY <1>3, <1>5, <1>6 DEF BootstrapType
<1>7. CASE backend # "file" /\ backend = "replicated" /\ log # <<>>
  BY <1>4, <1>5, <1>7 DEF BootstrapType
<1>8. CASE backend # "file" /\ ~ (backend = "replicated" /\ log # <<>>)
  BY <1>3, <1>5, <1>8, NoAccountsType DEF BootstrapType
<1> QED BY <1>6, <1>7, <1>8

LEMMA SystemGenesisType == SystemGenesis \in Event /\ <<SystemGenesis>> \in Seq(Event)
  BY DEF SystemGenesis, Event

\* The log a boot starts from, without what it adds.
BaseLog(b) == IF b.event_log = <<>> THEN <<SystemGenesis>> ELSE b.event_log

\* The history of a boot is the log it read and events that are not in it.
LEMMA HistoryExtends ==
    ASSUME NEW b \in BootstrapType, Torn \notin Range(b.event_log)
    PROVE  /\ b.event_log \in Seq(Event)
           /\ BaseLog(b) \in Seq(Event)
           /\ \E more \in Seq(Event) : /\ History(b) = BaseLog(b) \o more
                                       /\ Range(more) \cap Range(BaseLog(b)) = {}
           /\ History(b) \in Seq(Event) /\ History(b) # <<>>
<1>1. b.event_log \in Seq(Event \cup {Torn}) /\ b.accounts \in Accounts
  BY DEF BootstrapType
<1>2. b.event_log \in Seq(Event)
  <2>1. \A i \in DOMAIN b.event_log : b.event_log[i] # Torn
    BY DEF Range
  <2>2. \A i \in 1 .. Len(b.event_log) : b.event_log[i] \in Event
    BY <1>1, <2>1
  <2> QED BY <1>1, <2>2
<1>3. PICK log : log = BaseLog(b)
  OBVIOUS
<1>4. log \in Seq(Event) /\ log # <<>>
  BY <1>2, <1>3, SystemGenesisType DEF BaseLog
<1>5. PICK S : S = {a \in DOMAIN b.accounts : b.accounts[a].credential /\ a \notin Known(log)}
  OBVIOUS
<1>6. PICK T : T = {Backfilled(a) : a \in S}
  OBVIOUS
<1>7. SetToSeq(T) \in Seq(T) /\ T \subseteq Event /\ T \cap Range(log) = {}
  BY ONLY <1>1, <1>4, <1>5, <1>6, BackfillLists
<1>8. History(b) = log \o SetToSeq(T)
  BY <1>3, <1>5, <1>6, Zenon DEF History, BaseLog, Backfilled
<1>9. PICK more : more = SetToSeq(T)
  OBVIOUS
<1>10. more \in Seq(T) /\ more \in Seq(Event)
  BY <1>7, <1>9
<1>11. Range(more) \subseteq T
  BY <1>10 DEF Range
<1>12. log \o more \in Seq(Event) /\ log \o more # <<>>
  BY <1>4, <1>10
<1> QED BY <1>2, <1>3, <1>4, <1>7, <1>8, <1>9, <1>10, <1>11, <1>12

-----------------------------------------------------------------------------
(* Types. *)

StandbyType ==
    [mode: {"down", "copying", "live"}, log: Seq(Event \cup {Torn}),
     snapshot: {None, Torn} \cup Snapshot, accounts: Accounts]

TypeInv ==
    /\ TypeOK
    /\ backend \in Backends
    /\ mode = "live" => ledger.state_root \in Root
    /\ standby \in StandbyType

LEMMA BootLawType == \A c \in Nat : BootLaw(c) \in Law
  BY DEF BootLaw, Law

LEMMA EmptyLedgerType == EmptyLedger \in Ledger /\ EmptyLedger.event_log = <<>>
<1>1. BootLaw(0) \in Law
  BY BootLawType
<1>2. <<>> \in Seq(Event)
  OBVIOUS
<1> QED BY <1>1, <1>2, NoAccountsType DEF EmptyLedger, Ledger

LEMMA AdminType ==
    ASSUME NEW accounts \in Accounts
    PROVE  WithAdmin(accounts) \in Accounts
<1>1. Admin \in Names /\ [balance |-> 5000, credential |-> FALSE] \in Account
  BY DEF Names, Account
<1> QED BY <1>1, WithType DEF WithAdmin

LEMMA RootedType ==
    ASSUME NEW log \in Seq(Event), NEW accounts \in Accounts, NEW law \in Law
    PROVE  /\ Rooted(log, accounts, law) \in Ledger
           /\ Rooted(log, accounts, law).state_root \in Root
           /\ Rooted(log, accounts, law).event_log = log
           /\ Rooted(log, accounts, law).accounts = accounts
           /\ Rooted(log, accounts, law).law = law
<1>1. StateRoot(accounts, law) \in Root
  BY StateRootType
<1>2. PICK r : r = StateRoot(accounts, law)
  OBVIOUS
<1> QED BY <1>1, <1>2 DEF Rooted, Ledger

\* The writes of a save.
LEMMA SaveSnapshotType ==
    ASSUME NEW l \in Ledger, l.state_root \in Root
    PROVE  SaveSnapshot(l) \in Seq(FileWrite)
<1>1. [file |-> "ledger_db", content |-> l] \in FileWrite
  BY DEF FileWrite
<1>2. [file |-> "snapshot",
       content |-> [accounts |-> l.accounts, state_root |-> l.state_root]] \in FileWrite
  <2>1. [accounts |-> l.accounts, state_root |-> l.state_root] \in Snapshot
    BY DEF Ledger, Snapshot
  <2> QED BY <2>1 DEF FileWrite
<1> QED BY <1>1, <1>2 DEF SaveSnapshot

LEMMA RecordEventType ==
    ASSUME NEW e \in Event
    PROVE  RecordEvent(e) \in Seq(FileWrite)
<1>1. LineWrite(e) \in FileWrite
  BY DEF LineWrite, FileWrite
<1> QED BY <1>1 DEF RecordEvent

Mishap == {"untold root", "amendment", "interrupted save", "interrupted migration", "torn ledger"}

LEMMA SaveTyped ==
    ASSUME TypeInv, mode = "live", NEW l \in Ledger, l.state_root \in Root,
           NEW before \in Seq(FileWrite), Save(l, before), request' \in Event \cup {None}
    PROVE  TypeInv'
<1>1. before \o SaveSnapshot(l) \in Seq(FileWrite)
  BY SaveSnapshotType
<1>2. writes' \in Seq(FileWrite)
  BY <1>1 DEF Save
<1>3. mishaps' \subseteq Mishap
  <2>1. Untold(l) \subseteq Mishap
    BY DEF Untold, Mishap
  <2>2. (IF l.law = ledger.law THEN {} ELSE {"amendment"}) \subseteq Mishap
    BY DEF Mishap
  <2>3. mishaps \subseteq Mishap
    BY DEF TypeInv, TypeOK, Mishap
  <2> QED BY <2>1, <2>2, <2>3 DEF Save
<1>4. /\ ledger' = l /\ mode' = "live"
      /\ UNCHANGED <<backend, log_file, snapshot, ledger_db, constitution, standby, boots, answered>>
  BY DEF Save, disk
<1>5. TypeOK'
  BY <1>2, <1>3, <1>4 DEF TypeInv, TypeOK, Mishap
<1> QED BY <1>4, <1>5 DEF TypeInv

LEMMA InitTyped ==
    ASSUME Init
    PROVE  TypeInv
<1>1. ledger_db \in {None, Torn} \/ ledger_db \in Ledger
  BY LedgersAssumption DEF Init
<1>2. answered \in Seq(Event)
  <2>1. CASE ledger_db \in {None, Torn}
    <3>1. answered = <<>>
      BY <2>1, EmptyLedgerType DEF Init, Readable
    <3>2. <<>> \in Seq(Event)
      OBVIOUS
    <3> QED BY <3>1, <3>2
  <2>2. CASE ledger_db \notin {None, Torn}
    BY <1>1, <2>2 DEF Init, Readable, Ledger
  <2> QED BY <2>1, <2>2
<1>3. standby \in StandbyType
  <2>1. <<>> \in Seq(Event \cup {Torn})
    OBVIOUS
  <2> QED BY <2>1, NoAccountsType DEF Init, StandbyType
<1>4. log_file \in Seq(Event \cup {Torn}) /\ writes \in Seq(FileWrite)
  BY DEF Init
<1> QED
  BY <1>1, <1>2, <1>3, <1>4, EmptyLedgerType, StoreAssumption
     DEF Init, TypeInv, TypeOK, StandbyType

\* What a boot that comes up finds and makes of it.
LEMMA BootsTyped ==
    ASSUME NEW b \in BootstrapType, NEW c, c \in Nat \cup {Torn}, Boots(b, c)
    PROVE  /\ Torn \notin Range(b.event_log) /\ c \in Nat
           /\ History(b) \in Seq(Event)
           /\ BootedAccounts(b) \in Accounts
           /\ WithAdmin(BootedAccounts(b)) \in Accounts
           /\ StateRoot(BootedAccounts(b), BootLaw(c)) \in Root
           /\ BootLaw(c) \in Law
<1>1. Torn \notin Range(b.event_log) /\ c \in Nat
  BY DEF Boots
<1>2. History(b) \in Seq(Event)
  BY <1>1, HistoryExtends
<1>3. BootedAccounts(b) \in Accounts
  BY <1>2, ReplayType DEF BootedAccounts
<1>4. BootLaw(c) \in Law
  BY <1>1, BootLawType
<1> QED BY <1>1, <1>2, <1>3, <1>4, AdminType, StateRootType

LEMMA DiskTyped ==
    ASSUME TypeInv, NEW b, b = Bootstrap(log_file, snapshot, ledger_db)
    PROVE  b \in BootstrapType
<1>1. log_file \in Seq(Event \cup {Torn}) /\ Saved(snapshot, Snapshot) /\ Saved(ledger_db, Ledger)
  BY DEF TypeInv, TypeOK, Saved
<1> QED BY <1>1, BootstrapTyped

LEMMA BootTyped ==
    ASSUME TypeInv, Boot
    PROVE  TypeInv'
<1>1. PICK b : b = Bootstrap(log_file, snapshot, ledger_db)
  OBVIOUS
<1>2. b \in BootstrapType
  BY <1>1, DiskTyped
<1>3. /\ boots \in 0 .. MaxBoots /\ boots < MaxBoots /\ boots' = boots + 1
      /\ UNCHANGED <<backend, log_file, snapshot, ledger_db, constitution, request, standby,
                     answered>>
  BY DEF TypeInv, TypeOK, Boot, disk
<1>4. boots' \in 0 .. MaxBoots
  BY <1>3, StoreAssumption
<1>5. CASE Boots(b, constitution)
  <2>1. constitution \in Nat \cup {Torn}
    BY DEF TypeInv, TypeOK
  <2>2. /\ History(b) \in Seq(Event) /\ WithAdmin(BootedAccounts(b)) \in Accounts
        /\ StateRoot(BootedAccounts(b), BootLaw(constitution)) \in Root
        /\ BootLaw(constitution) \in Law
    BY <1>2, <1>5, <2>1, BootsTyped
  <2>3. PICK log : log = History(b)
    OBVIOUS
  <2>4. /\ mode' = "live"
        /\ ledger' = [event_log  |-> log,
                      accounts   |-> WithAdmin(BootedAccounts(b)),
                      state_root |-> StateRoot(BootedAccounts(b), BootLaw(constitution)),
                      law        |-> BootLaw(constitution)]
        /\ writes' = IF b.migrated THEN [i \in DOMAIN log |-> LineWrite(log[i])] ELSE <<>>
        /\ mishaps' = IF b.migrated THEN mishaps
                      ELSE mishaps \ {"untold root", "amendment", "interrupted save"}
    BY <1>1, <1>5, <2>3, Zenon DEF Boot
  <2>5. ledger' \in Ledger /\ ledger'.state_root \in Root
    BY <2>2, <2>3, <2>4 DEF Ledger
  <2>6. writes' \in Seq(FileWrite)
    <3>1. CASE b.migrated
      <4>1. log \in Seq(Event)
        BY <2>2, <2>3
      <4>2. \A i \in DOMAIN log : LineWrite(log[i]) \in FileWrite
        <5>1. \A i \in DOMAIN log : log[i] \in Event
          BY <4>1
        <5> QED BY <5>1 DEF LineWrite, FileWrite
      <4>3. PICK n \in Nat : DOMAIN log = 1 .. n
        BY <4>1
      <4>4. [i \in DOMAIN log |-> LineWrite(log[i])] \in [1 .. n -> FileWrite]
        BY <4>2, <4>3
      <4> QED BY <2>4, <3>1, <4>4
    <3>2. CASE ~ b.migrated
      <4>1. writes' = <<>>
        BY <2>4, <3>2
      <4> QED BY <4>1
    <3> QED BY <3>1, <3>2
  <2>7. mishaps' \subseteq mishaps
    BY <2>4
  <2>8. TypeOK'
    BY <1>3, <1>4, <2>4, <2>5, <2>6, <2>7 DEF TypeInv, TypeOK
  <2> QED BY <1>3, <2>4, <2>5, <2>8 DEF TypeInv
<1>6. CASE ~ Boots(b, constitution)
  <2>1. mode' = "refused" /\ UNCHANGED <<ledger, writes, mishaps>>
    BY <1>1, <1>6, Zenon DEF Boot
  <2>2. mode = "down" /\ writes = <<>>
    BY DEF Boot, TypeInv, TypeOK
  <2>3. TypeOK'
    BY <1>3, <1>4, <2>1, <2>2 DEF TypeInv, TypeOK
  <2> QED BY <1>3, <2>1, <2>3 DEF TypeInv
<1> QED BY <1>5, <1>6

LEMMA LiveTyped ==
    ASSUME TypeInv, mode = "live"
    PROVE  /\ ledger \in Ledger /\ ledger.state_root \in Root
           /\ ledger.event_log \in Seq(Event) /\ ledger.accounts \in Accounts
           /\ ledger.law \in Law
  BY DEF TypeInv, TypeOK, Ledger

LEMMA RequestTyped ==
    ASSUME TypeInv, NEW e \in Event, ApplyRequest(e)
    PROVE  TypeInv'
<1>1. mode = "live" /\ request' = e
  BY DEF ApplyRequest, Serving
<1>2. PICK log : log = Append(ledger.event_log, e)
  OBVIOUS
<1>3. PICK accounts : accounts = ApplyEvent(ledger.accounts, e)
  OBVIOUS
<1>4. PICK l : l = Rooted(log, accounts, ledger.law)
  OBVIOUS
<1>5. log \in Seq(Event)
  BY <1>1, <1>2, LiveTyped
<1>6. accounts \in Accounts /\ ledger.law \in Law
  BY <1>1, <1>3, LiveTyped, ApplyEventType
<1>7. l \in Ledger /\ l.state_root \in Root
  BY <1>4, <1>5, <1>6, RootedType
<1>8. Save(l, RecordEvent(e))
  BY <1>2, <1>3, <1>4, Zenon DEF ApplyRequest
<1>9. request' \in Event \cup {None}
  BY <1>1
<1> QED BY <1>1, <1>7, <1>8, <1>9, RecordEventType, SaveTyped

\* The events of the requests.
LEMMA RequestEvents ==
    /\ \A a \in Registrants : Genesis(a) \in Event /\ Genesis(a).type = "GENESIS"
                              /\ Genesis(a).account = a
    /\ \A a \in Registrants \cup CapsuleOwners :
          Passkey(a) \in Event /\ Passkey(a).type = "PASSKEY_ADDED" /\ Passkey(a).account = a
<1>1. ASSUME NEW a \in Registrants PROVE Genesis(a) \in Event
  <2>1. Genesis(a) \in [type: {"GENESIS"}, account: Names, backfilled: BOOLEAN]
    BY DEF Genesis, Names
  <2> QED BY <2>1 DEF Event
<1>2. ASSUME NEW a \in Registrants \cup CapsuleOwners PROVE Passkey(a) \in Event
  <2>1. Passkey(a) \in [type: {"PASSKEY_ADDED"}, account: Names]
    BY DEF Passkey, Names
  <2> QED BY <2>1 DEF Event
<1> QED BY <1>1, <1>2 DEF Genesis, Passkey

LEMMA RememberTyped ==
    ASSUME TypeInv, Remember
    PROVE  TypeInv'
<1>1. mode = "live" /\ request' = request
  BY DEF Remember, Serving
<1>2. PICK a \in CapsuleOwners \ DOMAIN ledger.accounts :
         Save(Rooted(ledger.event_log,
                     With(ledger.accounts, a, [balance |-> 0, credential |-> FALSE]),
                     ledger.law), <<>>)
  BY DEF Remember
<1>3. PICK accounts : accounts = With(ledger.accounts, a, [balance |-> 0, credential |-> FALSE])
  OBVIOUS
<1>4. accounts \in Accounts
  <2>1. a \in Names /\ [balance |-> 0, credential |-> FALSE] \in Account
    BY DEF Names, Account
  <2> QED BY <1>1, <1>3, <2>1, LiveTyped, WithType
<1>5. PICK l : l = Rooted(ledger.event_log, accounts, ledger.law)
  OBVIOUS
<1>6. l \in Ledger /\ l.state_root \in Root
  BY <1>1, <1>4, <1>5, LiveTyped, RootedType
<1>7. Save(l, <<>>)
  BY <1>2, <1>3, <1>5, Zenon
<1>8. request' \in Event \cup {None}
  BY <1>1 DEF TypeInv, TypeOK
<1>9. PICK before : before = <<>>
  OBVIOUS
<1>10. before \in Seq(FileWrite) /\ Save(l, before)
  BY <1>7, <1>9
<1> QED BY <1>1, <1>6, <1>8, <1>10, SaveTyped

LEMMA AmendTyped ==
    ASSUME TypeInv, Amend
    PROVE  TypeInv'
<1>1. mode = "live" /\ request' = request
  BY DEF Amend, Serving
<1>2. PICK law : law = [root |-> ledger.law.root + 1, epoch |-> ledger.law.epoch + 1]
  OBVIOUS
<1>3. PICK enacted : enacted = [ledger EXCEPT !.law = law]
  OBVIOUS
<1>4. PICK amended : amended = [file |-> "constitution", content |-> law.root]
  OBVIOUS
<1>5. \/ Save(enacted, <<amended>>)
      \/ Save(Rooted(ledger.event_log, ledger.accounts, law), <<amended>> \o SaveSnapshot(enacted))
  BY <1>2, <1>3, <1>4, Zenon DEF Amend
<1>6. law \in Law
  BY <1>1, <1>2, LiveTyped DEF Law
<1>7. enacted \in Ledger /\ enacted.state_root \in Root
  BY <1>1, <1>3, <1>6, LiveTyped DEF Ledger
<1>8. <<amended>> \in Seq(FileWrite)
  <2>1. amended \in FileWrite
    BY <1>4, <1>6 DEF Law, FileWrite
  <2> QED BY <2>1
<1>9. <<amended>> \o SaveSnapshot(enacted) \in Seq(FileWrite)
  BY <1>7, <1>8, SaveSnapshotType
<1>10. request' \in Event \cup {None}
  BY <1>1 DEF TypeInv, TypeOK
<1>11. PICK l : l = Rooted(ledger.event_log, ledger.accounts, law)
  OBVIOUS
<1>12. l \in Ledger /\ l.state_root \in Root
  BY <1>1, <1>6, <1>11, LiveTyped, RootedType
<1>13. CASE Save(enacted, <<amended>>)
  BY <1>1, <1>7, <1>8, <1>10, <1>13, SaveTyped
<1>14. CASE Save(l, <<amended>> \o SaveSnapshot(enacted))
  BY <1>1, <1>9, <1>10, <1>12, <1>14, SaveTyped
<1> QED BY <1>5, <1>11, <1>13, <1>14

LEMMA SaveOnlyTyped ==
    ASSUME TypeInv, SaveOnly
    PROVE  TypeInv'
<1>1. mode = "live" /\ request' = request /\ Save(ledger, <<>>)
  BY DEF SaveOnly, Serving
<1>2. request' \in Event \cup {None}
  BY <1>1 DEF TypeInv, TypeOK
<1>3. PICK before : before = <<>>
  OBVIOUS
<1>4. before \in Seq(FileWrite) /\ Save(ledger, before)
  BY <1>1, <1>3
<1> QED BY <1>1, <1>2, <1>4, LiveTyped, SaveTyped

\* What one file write leaves on the disk.
LEMMA WriteKinds ==
    ASSUME NEW w \in FileWrite
    PROVE  /\ w.file = "log" => w.content \in Event
           /\ w.file = "snapshot" => w.content \in Snapshot
           /\ w.file = "ledger_db" => w.content \in Ledger
           /\ w.file = "constitution" => w.content \in Nat
           /\ w.file \in {"log", "snapshot", "ledger_db", "constitution"}
  BY DEF FileWrite

LEMMA WriteTyped ==
    ASSUME TypeInv, Write
    PROVE  TypeInv'
<1>1. PICK w : w = Head(writes)
  OBVIOUS
<1>2. writes \in Seq(FileWrite) /\ writes # <<>> /\ writes' = Tail(writes) /\ mode = "live"
  BY DEF TypeInv, TypeOK, Write
<1>3. w \in FileWrite /\ writes' \in Seq(FileWrite)
  BY <1>1, <1>2
<1>4. /\ log_file' = IF w.file = "log" THEN Append(log_file, w.content) ELSE log_file
      /\ snapshot' = IF w.file = "snapshot" THEN w.content ELSE snapshot
      /\ ledger_db' = IF w.file = "ledger_db" THEN w.content ELSE ledger_db
      /\ constitution' = IF w.file = "constitution" THEN w.content ELSE constitution
  BY <1>1 DEF Write
<1>5. log_file' \in Seq(Event \cup {Torn})
  <2>1. log_file \in Seq(Event \cup {Torn})
    BY DEF TypeInv, TypeOK
  <2> QED BY <1>3, <1>4, <2>1, WriteKinds
<1>6. /\ snapshot' \in {None, Torn} \/ snapshot' \in Snapshot
      /\ ledger_db' \in {None, Torn} \/ ledger_db' \in Ledger
      /\ constitution' \in Nat \cup {Torn}
  BY <1>3, <1>4, WriteKinds DEF TypeInv, TypeOK
<1>7. answered' \in Seq(Event) /\ (request' = None \/ request' \in Event)
  <2>1. answered \in Seq(Event) /\ (request = None \/ request \in Event)
    BY DEF TypeInv, TypeOK
  <2>2. CASE Len(writes) = 1 /\ request # None
    <3>1. answered' = Append(answered, request) /\ request' = None
      BY <2>2 DEF Write
    <3>2. request \in Event
      BY <2>1, <2>2
    <3> QED BY <2>1, <3>1, <3>2
  <2>3. CASE ~ (Len(writes) = 1 /\ request # None)
    <3>1. UNCHANGED <<answered, request>>
      BY <2>3 DEF Write
    <3> QED BY <2>1, <3>1
  <2> QED BY <2>2, <2>3
<1>8. UNCHANGED <<backend, mode, ledger, standby, boots, mishaps>>
  BY DEF Write
<1>9. TypeOK'
  BY <1>2, <1>3, <1>5, <1>6, <1>7, <1>8 DEF TypeInv, TypeOK
<1> QED BY <1>8, <1>9 DEF TypeInv

LEMMA CrashTyped ==
    ASSUME TypeInv, Crash
    PROVE  TypeInv'
<1>1. PICK torn \in BOOLEAN :
         LET file == IF torn THEN Head(writes).file ELSE "none"
         IN  /\ log_file' = IF file = "log" THEN Append(log_file, Torn) ELSE log_file
             /\ snapshot' = IF file = "snapshot" THEN Torn ELSE snapshot
             /\ ledger_db' = IF file = "ledger_db" THEN Torn ELSE ledger_db
             /\ constitution' = IF file = "constitution" THEN Torn ELSE constitution
             /\ mishaps' = mishaps \cup Interruption(torn)
  BY DEF Crash
<1>2. log_file' \in Seq(Event \cup {Torn})
  <2>1. log_file \in Seq(Event \cup {Torn})
    BY DEF TypeInv, TypeOK
  <2>2. log_file' = log_file \/ log_file' = Append(log_file, Torn)
    BY <1>1
  <2> QED BY <2>1, <2>2
<1>3. /\ snapshot' \in {None, Torn} \/ snapshot' \in Snapshot
      /\ ledger_db' \in {None, Torn} \/ ledger_db' \in Ledger
      /\ constitution' \in Nat \cup {Torn}
  BY <1>1 DEF TypeInv, TypeOK
<1>4. mishaps' \subseteq Mishap
  <2>1. Interruption(torn) \subseteq Mishap
    BY DEF Interruption, Mishap
  <2> QED BY <1>1, <2>1 DEF TypeInv, TypeOK, Mishap
<1>5. /\ mode' = "down" /\ ledger' = EmptyLedger /\ writes' = <<>> /\ request' = None
      /\ UNCHANGED <<backend, standby, boots, answered>>
  BY DEF Crash
<1>6. writes' \in Seq(FileWrite)
  BY <1>5
<1>7. TypeOK'
  BY <1>2, <1>3, <1>4, <1>5, <1>6, EmptyLedgerType DEF TypeInv, TypeOK, Mishap
<1> QED BY <1>5, <1>7 DEF TypeInv

\* A repair appends to the log of ledger_db events that are not in it.
LEMMA RepairExtends ==
    ASSUME TypeInv, AdmitOrphans
    PROVE  /\ ledger_db \in Ledger /\ ledger_db' \in Ledger
           /\ \E more \in Seq(Event) : /\ ledger_db'.event_log = ledger_db.event_log \o more
                                       /\ Range(more) \cap Range(ledger_db.event_log) = {}
<1>1. ledger_db \in Ledger
  BY DEF AdmitOrphans, TypeInv, TypeOK
<1>2. PICK S : S = {a \in DOMAIN ledger_db.accounts \ Known(ledger_db.event_log) :
                       ~ ledger_db.accounts[a].credential} \ Admitted(ledger_db.event_log)
  OBVIOUS
<1>3. PICK accounts : accounts = ledger_db.accounts
  OBVIOUS
<1>4. PICK log : log = ledger_db.event_log
  OBVIOUS
<1>5. PICK T : T = {[type |-> "ACCOUNT_PROVENANCE_ADMISSION", account |-> a,
                     state |-> accounts[a]] : a \in S}
  OBVIOUS
<1>6. accounts \in Accounts /\ log \in Seq(Event)
  BY <1>1, <1>3, <1>4 DEF Ledger
<1>7. S \subseteq DOMAIN accounts \ Admitted(log) /\ \A a \in S : ~ accounts[a].credential
  BY <1>2, <1>3, <1>4
<1>8. SetToSeq(T) \in Seq(T) /\ T \subseteq Event /\ T \cap Range(log) = {}
  BY ONLY <1>5, <1>6, <1>7, AdmittedLists
<1>9. PICK more : more = SetToSeq(T)
  OBVIOUS
<1>10. ledger_db' = [ledger_db EXCEPT !.event_log = @ \o more]
  BY <1>2, <1>3, <1>4, <1>5, <1>9, Zenon DEF AdmitOrphans
<1>11. more \in Seq(T) /\ more \in Seq(Event) /\ log \o more \in Seq(Event)
  BY <1>6, <1>8, <1>9
<1>12. Range(more) \cap Range(log) = {}
  <2>1. Range(more) \subseteq T
    BY <1>11 DEF Range
  <2> QED BY <1>8, <2>1
<1>13. ledger_db'.event_log = log \o more /\ ledger_db' \in Ledger
  BY <1>1, <1>4, <1>10, <1>11 DEF Ledger
<1> QED BY <1>1, <1>4, <1>11, <1>12, <1>13

LEMMA OperatorTyped ==
    ASSUME TypeInv, AdmitOrphans \/ DeleteSnapshot
    PROVE  TypeInv'
<1>1. CASE AdmitOrphans
  <2>1. ledger_db' \in Ledger
    BY <1>1, RepairExtends
  <2>2. /\ mode' = "down" /\ writes = <<>>
        /\ UNCHANGED <<backend, log_file, snapshot, constitution, ledger, writes, request,
                       standby, boots, answered, mishaps>>
    BY <1>1 DEF AdmitOrphans, TypeInv, TypeOK, history
  <2>3. TypeOK'
    BY <2>1, <2>2 DEF TypeInv, TypeOK
  <2> QED BY <2>2, <2>3 DEF TypeInv
<1>2. CASE DeleteSnapshot
  <2>1. /\ mode' = "down" /\ writes = <<>> /\ snapshot' = None
        /\ UNCHANGED <<backend, log_file, ledger_db, constitution, ledger, writes, request,
                       standby, boots, answered, mishaps>>
    BY <1>2 DEF DeleteSnapshot, TypeInv, TypeOK, history
  <2>2. TypeOK'
    BY <2>1 DEF TypeInv, TypeOK
  <2> QED BY <2>1, <2>2 DEF TypeInv
<1> QED BY <1>1, <1>2

StandbyStep == StandbyCopiesLog \/ StandbyBoots \/ StandbyRequest \/ StandbyStops

LEMMA StandbyKeeps ==
    ASSUME StandbyStep
    PROVE  UNCHANGED <<backend, log_file, snapshot, ledger_db, constitution, mode, ledger,
                       writes, request, boots, answered, mishaps>>
  BY DEF StandbyStep, StandbyCopiesLog, StandbyBoots, StandbyRequest, StandbyStops, disk, node,
         history

LEMMA StandbyTyped ==
    ASSUME TypeInv, StandbyStep
    PROVE  TypeInv'
<1>0. standby \in StandbyType /\ log_file \in Seq(Event \cup {Torn})
      /\ Saved(snapshot, Snapshot) /\ constitution \in Nat \cup {Torn}
  BY DEF TypeInv, TypeOK, Saved
<1>1. CASE StandbyCopiesLog
  <2>1. standby' = [standby EXCEPT !.mode = "copying", !.log = log_file]
    BY <1>1 DEF StandbyCopiesLog
  <2>2. standby' \in StandbyType
    BY <1>0, <2>1 DEF StandbyType
  <2> QED BY <1>0, <2>2, StandbyKeeps DEF TypeInv, TypeOK, StandbyType
<1>2. CASE StandbyBoots
  <2>1. PICK copied : copied = IF snapshot = None THEN standby.snapshot ELSE snapshot
    OBVIOUS
  <2>2. PICK b : b = Bootstrap(standby.log, copied, None)
    OBVIOUS
  <2>3. standby' = [standby EXCEPT
                      !.log      = <<>>,
                      !.snapshot = copied,
                      !.mode     = IF Boots(b, 0) THEN "live" ELSE "down",
                      !.accounts = IF Boots(b, 0) THEN WithAdmin(BootedAccounts(b))
                                   ELSE NoAccounts]
    BY <1>2, <2>1, <2>2, Zenon DEF StandbyBoots
  <2>4. Saved(copied, Snapshot) /\ standby.log \in Seq(Event \cup {Torn}) /\ Saved(None, Ledger)
    BY <1>0, <2>1 DEF Saved, StandbyType
  <2>5. b \in BootstrapType
    BY ONLY <2>2, <2>4, BootstrapTyped
  <2>6. (IF Boots(b, 0) THEN WithAdmin(BootedAccounts(b)) ELSE NoAccounts) \in Accounts
    <3>1. PICK c \in Nat : c = 0
      OBVIOUS
    <3>2. Boots(b, c) => WithAdmin(BootedAccounts(b)) \in Accounts
      BY <2>5, BootsTyped
    <3> QED BY <3>1, <3>2, NoAccountsType
  <2>7. <<>> \in Seq(Event \cup {Torn})
    OBVIOUS
  <2>8. PICK accounts : accounts = (IF Boots(b, 0) THEN WithAdmin(BootedAccounts(b))
                                    ELSE NoAccounts)
    OBVIOUS
  <2>9. PICK now : now = IF Boots(b, 0) THEN "live" ELSE "down"
    OBVIOUS
  <2>10. standby' = [standby EXCEPT !.log = <<>>, !.snapshot = copied, !.mode = now,
                                    !.accounts = accounts]
    BY <2>3, <2>8, <2>9, Zenon
  <2>11. accounts \in Accounts /\ now \in {"live", "down"}
    BY <2>6, <2>8, <2>9
  <2>12. standby' \in StandbyType
    BY <1>0, <2>4, <2>7, <2>10, <2>11 DEF StandbyType, Saved
  <2> QED BY <1>0, <2>12, StandbyKeeps DEF TypeInv, TypeOK, StandbyType
<1>3. CASE StandbyRequest
  <2>1. PICK a \in Registrants :
           standby' = [standby EXCEPT !.accounts = ApplyEvent(@, Genesis(a))]
    BY <1>3 DEF StandbyRequest
  <2>2. PICK accounts : accounts = ApplyEvent(standby.accounts, Genesis(a))
    OBVIOUS
  <2>3. accounts \in Accounts
    BY <1>0, <2>2, RequestEvents, ApplyEventType DEF StandbyType
  <2>4. standby' = [standby EXCEPT !.accounts = accounts]
    BY <2>1, <2>2, Zenon
  <2>5. standby' \in StandbyType
    BY <1>0, <2>3, <2>4 DEF StandbyType
  <2> QED BY <1>0, <2>5, StandbyKeeps DEF TypeInv, TypeOK, StandbyType
<1>4. CASE StandbyStops
  <2>1. standby' = [standby EXCEPT !.mode = "down", !.accounts = NoAccounts]
    BY <1>4 DEF StandbyStops
  <2>2. standby' \in StandbyType
    BY <1>0, <2>1, NoAccountsType DEF StandbyType
  <2> QED BY <1>0, <2>2, StandbyKeeps DEF TypeInv, TypeOK, StandbyType
<1> QED BY <1>1, <1>2, <1>3, <1>4 DEF StandbyStep

-----------------------------------------------------------------------------
(* The accounts that registered are a replay of the log. *)

\* Both have the account, with the same record, or neither has it.
SameAccount(a, accounts, others) ==
    /\ a \in DOMAIN accounts <=> a \in DOMAIN others
    /\ a \in DOMAIN others => accounts[a] = others[a]

LEMMA WithOther ==
    ASSUME NEW accounts \in Accounts, NEW others \in Accounts, NEW x, NEW record,
           NEW a, a # x, SameAccount(a, accounts, others)
    PROVE  SameAccount(a, With(accounts, x, record), others)
  BY DEF SameAccount, With

\* A registration or a passkey does the same to both.
LEMMA ApplyAlike ==
    ASSUME NEW accounts \in Accounts, NEW others \in Accounts, NEW a,
           SameAccount(a, accounts, others),
           NEW e \in Event, e.type \in {"GENESIS", "PASSKEY_ADDED"}
    PROVE  SameAccount(a, ApplyEvent(accounts, e), ApplyEvent(others, e))
<1>1. CASE e.type = "GENESIS"
  <2>1. PICK record : record = [balance |-> 1000, credential |-> TRUE]
    OBVIOUS
  <2>2. /\ ApplyEvent(accounts, e) = With(accounts, e.account, record)
        /\ ApplyEvent(others, e) = With(others, e.account, record)
    BY <1>1, <2>1 DEF ApplyEvent
  <2>3. SameAccount(a, With(accounts, e.account, record), With(others, e.account, record))
    BY DEF SameAccount, With
  <2> QED BY <2>2, <2>3
<1>2. CASE e.type # "GENESIS"
  <2>1. ApplyEvent(accounts, e) = accounts /\ ApplyEvent(others, e) = others
    BY <1>2 DEF ApplyEvent
  <2> QED BY <2>1
<1> QED BY <1>1, <1>2

Registered == Registrants \ CapsuleOwners

LiveAgrees(accounts, log) ==
    \A a \in Registered : SameAccount(a, accounts, Replay(log))

LEMMA LiveAgreement == LiveStateIsReplay <=> (mode = "live" =>
                                                LiveAgrees(ledger.accounts, ledger.event_log))
  BY Zenon DEF LiveStateIsReplay, LiveAgrees, SameAccount, Registered

LEMMA SaveAgrees ==
    ASSUME NEW log, NEW accounts, NEW l, l.event_log = log, l.accounts = accounts,
           LiveAgrees(accounts, log), NEW before, Save(l, before)
    PROVE  LiveStateIsReplay'
<1>1. ledger' = l
  BY DEF Save
<1>2. LiveAgrees(ledger'.accounts, ledger'.event_log)
  BY <1>1
<1> QED BY <1>2, Zenon DEF LiveStateIsReplay, LiveAgrees, SameAccount, Registered

LEMMA AgreementKept ==
    ASSUME TypeInv, LiveStateIsReplay, [Next]_vars
    PROVE  LiveStateIsReplay'
<1>0. ASSUME mode = "live"
      PROVE  /\ LiveAgrees(ledger.accounts, ledger.event_log)
             /\ ledger.accounts \in Accounts /\ ledger.event_log \in Seq(Event)
             /\ ledger.law \in Law /\ Replay(ledger.event_log) \in Accounts
  BY <1>0, LiveAgreement, LiveTyped, ReplayType
<1>1. CASE Boot
  <2>1. PICK b : b = Bootstrap(log_file, snapshot, ledger_db)
    OBVIOUS
  <2>2. b \in BootstrapType /\ constitution \in Nat \cup {Torn}
    BY <2>1, DiskTyped DEF TypeInv, TypeOK
  <2>3. CASE Boots(b, constitution)
    <3>1. BootedAccounts(b) \in Accounts
      BY <2>2, <2>3, BootsTyped
    <3>2. ledger'.event_log = History(b) /\ ledger'.accounts = WithAdmin(BootedAccounts(b))
      <4>1. ledger' = [event_log  |-> History(b),
                       accounts   |-> WithAdmin(BootedAccounts(b)),
                       state_root |-> StateRoot(BootedAccounts(b), BootLaw(constitution)),
                       law        |-> BootLaw(constitution)]
        BY <1>1, <2>1, <2>3, Zenon DEF Boot
      <4> QED BY <4>1
    <3>3. ASSUME NEW a \in Registered
          PROVE  SameAccount(a, WithAdmin(BootedAccounts(b)), BootedAccounts(b))
      <4>1. a # Admin
        BY NamesAssumption DEF Registered
      <4>2. SameAccount(a, BootedAccounts(b), BootedAccounts(b))
        BY DEF SameAccount
      <4> QED BY <3>1, <4>1, <4>2, WithOther DEF WithAdmin
    <3>4. LiveAgrees(ledger'.accounts, ledger'.event_log)
      BY <3>2, <3>3, Zenon DEF LiveAgrees, BootedAccounts
    <3> QED BY <3>4, Zenon DEF LiveStateIsReplay, LiveAgrees, SameAccount, Registered
  <2>4. CASE ~ Boots(b, constitution)
    <3>1. mode' = "refused"
      BY <1>1, <2>1, <2>4 DEF Boot
    <3> QED BY <3>1 DEF LiveStateIsReplay
  <2> QED BY <2>3, <2>4
<1>2. ASSUME NEW e \in Event, e.type \in {"GENESIS", "PASSKEY_ADDED"}, ApplyRequest(e)
      PROVE  LiveStateIsReplay'
  <2>1. mode = "live"
    BY <1>2 DEF ApplyRequest, Serving
  <2>2. PICK log : log = Append(ledger.event_log, e)
    OBVIOUS
  <2>3. PICK accounts : accounts = ApplyEvent(ledger.accounts, e)
    OBVIOUS
  <2>4. PICK l : l = Rooted(log, accounts, ledger.law)
    OBVIOUS
  <2>5. Save(l, RecordEvent(e))
    BY <1>2, <2>2, <2>3, <2>4, Zenon DEF ApplyRequest
  <2>6. Replay(log) = ApplyEvent(Replay(ledger.event_log), e)
    BY <1>0, <2>1, <2>2, ReplayAppends
  <2>7. ASSUME NEW a \in Registered
        PROVE  SameAccount(a, accounts, Replay(log))
    <3>1. SameAccount(a, ledger.accounts, Replay(ledger.event_log))
      BY <1>0, <2>1 DEF LiveAgrees
    <3>2. SameAccount(a, ApplyEvent(ledger.accounts, e), ApplyEvent(Replay(ledger.event_log), e))
      BY <1>0, <1>2, <2>1, <3>1, ApplyAlike
    <3> QED BY <2>3, <2>6, <3>2
  <2>8. LiveAgrees(accounts, log)
    BY <2>7 DEF LiveAgrees
  <2>9. l.event_log = log /\ l.accounts = accounts
    BY <2>4 DEF Rooted
  <2> QED BY <2>5, <2>8, <2>9, SaveAgrees
<1>3. CASE Request
  BY <1>2, <1>3, RequestEvents DEF Request
<1>4. CASE Remember
  <2>1. mode = "live"
    BY <1>4 DEF Remember, Serving
  <2>2. PICK x \in CapsuleOwners \ DOMAIN ledger.accounts :
           Save(Rooted(ledger.event_log,
                       With(ledger.accounts, x, [balance |-> 0, credential |-> FALSE]),
                       ledger.law), <<>>)
    BY <1>4 DEF Remember
  <2>3. PICK accounts : accounts = With(ledger.accounts, x, [balance |-> 0, credential |-> FALSE])
    OBVIOUS
  <2>4. PICK l : l = Rooted(ledger.event_log, accounts, ledger.law)
    OBVIOUS
  <2>5. Save(l, <<>>)
    BY <2>2, <2>3, <2>4, Zenon
  <2>6. ASSUME NEW a \in Registered
        PROVE  SameAccount(a, accounts, Replay(ledger.event_log))
    <3>1. a # x
      BY DEF Registered
    <3>2. SameAccount(a, ledger.accounts, Replay(ledger.event_log))
      BY <1>0, <2>1 DEF LiveAgrees
    <3> QED BY <1>0, <2>1, <2>3, <3>1, <3>2, WithOther
  <2>7. LiveAgrees(accounts, ledger.event_log)
    BY <2>6 DEF LiveAgrees
  <2>8. l.event_log = ledger.event_log /\ l.accounts = accounts
    BY <2>4 DEF Rooted
  <2> QED BY <2>5, <2>7, <2>8, SaveAgrees
<1>5. CASE Amend
  <2>1. mode = "live"
    BY <1>5 DEF Amend, Serving
  <2>2. PICK l, before : /\ Save(l, before)
                         /\ l.event_log = ledger.event_log /\ l.accounts = ledger.accounts
    <3>1. PICK law : law = [root |-> ledger.law.root + 1, epoch |-> ledger.law.epoch + 1]
      OBVIOUS
    <3>2. PICK enacted : enacted = [ledger EXCEPT !.law = law]
      OBVIOUS
    <3>3. PICK rooted : rooted = Rooted(ledger.event_log, ledger.accounts, law)
      OBVIOUS
    <3>4. (\E before : Save(enacted, before)) \/ (\E before : Save(rooted, before))
      BY <1>5, <3>1, <3>2, <3>3, Zenon DEF Amend
    <3>5. enacted.event_log = ledger.event_log /\ enacted.accounts = ledger.accounts
      BY <2>1, <3>2, LiveTyped DEF Ledger
    <3>6. rooted.event_log = ledger.event_log /\ rooted.accounts = ledger.accounts
      BY <3>3 DEF Rooted
    <3> QED BY <3>4, <3>5, <3>6, Zenon
  <2> QED BY <1>0, <2>1, <2>2, SaveAgrees
<1>6. CASE SaveOnly
  <2>1. mode = "live" /\ Save(ledger, <<>>)
    BY <1>6 DEF SaveOnly, Serving
  <2>2. LiveAgrees(ledger.accounts, ledger.event_log)
    BY <1>0, <2>1
  <2> QED BY <2>1, <2>2, SaveAgrees
<1>7. CASE Crash \/ AdmitOrphans \/ DeleteSnapshot
  <2>1. mode' = "down"
    BY <1>7 DEF Crash, AdmitOrphans, DeleteSnapshot
  <2> QED BY <2>1 DEF LiveStateIsReplay
<1>8. CASE Write \/ StandbyStep \/ UNCHANGED vars
  <2>1. UNCHANGED <<mode, ledger>>
    BY <1>8, StandbyKeeps DEF Write, vars, node
  <2>2. mode' = "live" => LiveAgrees(ledger'.accounts, ledger'.event_log)
    BY <1>0, <2>1
  <2> QED BY <2>2, Zenon DEF LiveStateIsReplay, LiveAgrees, SameAccount, Registered
<1> QED BY <1>1, <1>3, <1>4, <1>5, <1>6, <1>7, <1>8 DEF Next, StandbyStep

LEMMA TypeStep ==
    ASSUME TypeInv, [Next]_vars
    PROVE  TypeInv'
<1>1. CASE Boot BY <1>1, BootTyped
<1>2. CASE Request
  BY <1>2, RequestEvents, RequestTyped DEF Request
<1>3. CASE Remember BY <1>3, RememberTyped
<1>4. CASE Amend BY <1>4, AmendTyped
<1>5. CASE SaveOnly BY <1>5, SaveOnlyTyped
<1>6. CASE Write BY <1>6, WriteTyped
<1>7. CASE Crash BY <1>7, CrashTyped
<1>8. CASE AdmitOrphans \/ DeleteSnapshot BY <1>8, OperatorTyped
<1>9. CASE StandbyStep BY <1>9, StandbyTyped
<1>10. CASE UNCHANGED vars
  BY <1>10 DEF vars, disk, node, history, TypeInv, TypeOK
<1> QED BY <1>1, <1>2, <1>3, <1>4, <1>5, <1>6, <1>7, <1>8, <1>9, <1>10 DEF Next, StandbyStep

\* Every variable keeps the shape the code gives it.
THEOREM TypeCorrect == Spec => []TypeOK
<1>1. Init => TypeInv
  BY InitTyped
<1>2. TypeInv /\ [Next]_vars => TypeInv'
  BY TypeStep
<1>3. TypeInv => TypeOK
  BY DEF TypeInv
<1> QED BY <1>1, <1>2, <1>3, PTL DEF Spec

\* applyEvent on the live accounts and start's replay of the log agree on every account that
\* registered, whichever files a boot reads and whatever stopped the node before.
THEOREM LiveStateReplays == Spec => []LiveStateIsReplay
<1>1. Init => TypeInv /\ LiveStateIsReplay
  BY InitTyped DEF Init, LiveStateIsReplay
<1>2. TypeInv /\ LiveStateIsReplay /\ [Next]_vars => (TypeInv /\ LiveStateIsReplay)'
  BY TypeStep, AgreementKept
<1> QED BY <1>1, <1>2, PTL DEF Spec

-----------------------------------------------------------------------------
(* What was answered survives. *)

Unbroken ==
    /\ "interrupted migration" \notin mishaps
    /\ backend = "file" => "torn ledger" \notin mishaps

SavedLog == Readable(ledger_db, NoLedger).event_log

\* The lines of an older ledger are being written to the log file.
Migrating == writes # <<>> /\ Head(writes).file = "log" /\ request = None

\* Of one pending write.
PendingWrite(i) ==
    /\ writes[i].file = "ledger_db" => writes[i].content.event_log = ledger.event_log
    /\ writes[i].file = "log" => backend = "replicated"
    /\ writes[i].file = "log" /\ ~ Migrating
          => i = 1 /\ request # None /\ writes[i].content = request

\* What a node has yet to write: the line of the event it will answer comes first, the whole
\* ledger last; a migration writes the log line by line.
PendingInv ==
    /\ mode # "live" => request = None
    /\ backend = "file" => log_file = <<>>
    /\ mode = "live" =>
          /\ Range(log_file) \subseteq Range(ledger.event_log)
          /\ request # None => request \in Range(ledger.event_log)
          /\ request # None => writes # <<>> /\ writes[Len(writes)].file = "ledger_db"
          /\ \A i \in DOMAIN writes : PendingWrite(i)
          /\ Migrating =>
                /\ Len(log_file) + Len(writes) = Len(ledger.event_log)
                /\ \A i \in DOMAIN log_file : log_file[i] = ledger.event_log[i]
                /\ \A i \in DOMAIN writes :
                      writes[i] = LineWrite(ledger.event_log[Len(log_file) + i])

\* What was answered is in the log that the next boot would read.
DiskKeeps ==
    IF backend = "file" \/ (mode # "live" /\ log_file = <<>>)
    THEN Kept(answered, SavedLog)
    ELSE ~ Migrating => Kept(answered, log_file)

\* And in memory, with the event to be answered next.
MemoryKeeps ==
    mode = "live" =>
        /\ Kept(answered, ledger.event_log)
        /\ request # None =>
              /\ Kept(Append(answered, request), ledger.event_log)
              /\ backend = "replicated" =>
                    IF Head(writes).file = "log" THEN request \notin Range(log_file)
                    ELSE Kept(Append(answered, request), log_file)

KeepInv == Unbroken => DiskKeeps /\ MemoryKeeps

LEMMA RangeIn ==
    ASSUME NEW E, NEW s \in Seq(E)
    PROVE  /\ Range(s) \subseteq E
           /\ \A i \in DOMAIN s : s[i] \in Range(s)
           /\ DOMAIN s = 1 .. Len(s) /\ Len(s) \in Nat
           /\ \A x \in Range(s) : \E i \in DOMAIN s : s[i] = x
  BY DEF Range

LEMMA KeptNone ==
    ASSUME NEW log
    PROVE  Kept(<<>>, log)
<1>1. DOMAIN <<>> = {} /\ Range(<<>>) = {}
  BY DEF Range
<1> QED BY <1>1 DEF Kept

LEMMA KeptInNone ==
    ASSUME NEW E, NEW events \in Seq(E), Kept(events, <<>>)
    PROVE  events = <<>>
<1>1. Range(events) = {}
  <2>1. Range(<<>>) = {}
    BY DEF Range
  <2> QED BY <2>1 DEF Kept
<1>2. \A i \in DOMAIN events : events[i] \in Range(events)
  BY RangeIn
<1>3. Len(events) = 0
  <2>1. DOMAIN events = {}
    BY <1>1, <1>2
  <2>2. Len(events) \in Nat /\ DOMAIN events = 1 .. Len(events)
    OBVIOUS
  <2>3. Len(events) > 0 => 1 \in DOMAIN events
    BY <2>2
  <2> QED BY <2>1, <2>2, <2>3
<1> QED BY <1>3

\* More lines keep the events, if they are others.
LEMMA KeptMore ==
    ASSUME NEW E, NEW events \in Seq(E), NEW log \in Seq(E), NEW more \in Seq(E),
           Kept(events, log), Range(more) \cap Range(events) = {}
    PROVE  /\ Kept(events, log \o more)
           /\ Range(log \o more) = Range(log) \cup Range(more)
<1> DEFINE all == log \o more
           k == Len(log)
<1>1. /\ all \in Seq(E) /\ k \in Nat /\ Len(more) \in Nat /\ Len(all) = k + Len(more)
      /\ DOMAIN log = 1 .. k /\ DOMAIN more = 1 .. Len(more)
      /\ DOMAIN all = 1 .. k + Len(more)
      /\ \A p \in 1 .. k : all[p] = log[p]
      /\ \A p \in 1 .. Len(more) : all[k + p] = more[p]
  OBVIOUS
<1> HIDE DEF all, k
<1>2. \A p \in DOMAIN all : \/ p \in DOMAIN log /\ all[p] = log[p]
                            \/ /\ p - k \in DOMAIN more /\ all[p] = more[p - k]
  BY <1>1
<1>3. \A p \in DOMAIN log : p \in DOMAIN all /\ all[p] = log[p]
  BY <1>1
<1>4. \A p \in DOMAIN more : k + p \in DOMAIN all /\ all[k + p] = more[p]
  BY <1>1
<1>5. Range(all) = Range(log) \cup Range(more)
  <2>1. ASSUME NEW x \in Range(all) PROVE x \in Range(log) \cup Range(more)
    <3>1. PICK p \in DOMAIN all : all[p] = x
      BY DEF Range
    <3> QED BY <1>2, <3>1 DEF Range
  <2>2. ASSUME NEW x \in Range(log) PROVE x \in Range(all)
    BY <1>3 DEF Range
  <2>3. ASSUME NEW x \in Range(more) PROVE x \in Range(all)
    <3>1. PICK p \in DOMAIN more : more[p] = x
      BY DEF Range
    <3>2. k + p \in DOMAIN all /\ all[k + p] = x
      BY <1>4, <3>1
    <3> QED BY <3>2 DEF Range
  <2> QED BY <2>1, <2>2, <2>3
<1>6. ASSUME NEW i \in DOMAIN events, NEW p \in DOMAIN all, all[p] = events[i]
      PROVE  p \in DOMAIN log /\ log[p] = events[i]
  <2>1. events[i] \in Range(events)
    BY RangeIn
  <2>2. \A q \in DOMAIN more : more[q] \in Range(more)
    BY RangeIn
  <2> QED BY <1>2, <1>6, <2>1, <2>2
<1>7. ASSUME NEW i \in DOMAIN events, NEW j \in DOMAIN events,
             NEW p \in DOMAIN all, NEW q \in DOMAIN all,
             all[p] = events[i], all[q] = events[j]
      PROVE  i <= j <=> p <= q
  <2>1. p \in DOMAIN log /\ log[p] = events[i] /\ q \in DOMAIN log /\ log[q] = events[j]
    BY <1>6, <1>7
  <2> QED BY <2>1 DEF Kept
<1>8. Range(events) \subseteq Range(all)
  BY <1>5 DEF Kept
<1>9. Kept(events, all)
  BY <1>7, <1>8 DEF Kept
<1> QED BY <1>5, <1>9 DEF all

LEMMA KeptLine ==
    ASSUME NEW E, NEW events \in Seq(E), NEW log \in Seq(E), NEW e \in E,
           Kept(events, log), e \notin Range(events)
    PROVE  /\ Kept(events, Append(log, e))
           /\ Range(Append(log, e)) = Range(log) \cup {e}
<1>1. PICK more : more = <<e>>
  OBVIOUS
<1>2. more \in Seq(E) /\ Append(log, e) = log \o more
  BY <1>1
<1>3. Range(more) = {e}
  BY <1>1 DEF Range
<1> QED BY <1>2, <1>3, KeptMore

LEMMA RangeAppends ==
    ASSUME NEW E, NEW log \in Seq(E), NEW e \in E
    PROVE  Range(Append(log, e)) = Range(log) \cup {e}
<1>1. PICK none \in Seq(E) : none = <<>>
  <2>1. <<>> \in Seq(E)
    OBVIOUS
  <2> QED BY <2>1
<1>2. Kept(none, log) /\ e \notin Range(none)
  BY <1>1, KeptNone DEF Range
<1> QED BY <1>2, KeptLine

\* An event that is new to the log and to the answers is last in both.
LEMMA KeptBoth ==
    ASSUME NEW E, NEW events \in Seq(E), NEW log \in Seq(E), NEW e \in E,
           Kept(events, log), e \notin Range(log)
    PROVE  Kept(Append(events, e), Append(log, e))
<1> DEFINE n == Len(events)
           k == Len(log)
           l2 == Append(log, e)
           e2 == Append(events, e)
<1>1. /\ n \in Nat /\ k \in Nat /\ DOMAIN events = 1 .. n /\ DOMAIN log = 1 .. k
      /\ DOMAIN e2 = 1 .. n + 1 /\ DOMAIN l2 = 1 .. k + 1
      /\ \A i \in 1 .. n : e2[i] = events[i]
      /\ e2[n + 1] = e
      /\ \A p \in 1 .. k : l2[p] = log[p]
      /\ l2[k + 1] = e
  OBVIOUS
<1>2. \A p \in 1 .. k : log[p] # e
  BY <1>1 DEF Range
<1>3. \A i \in 1 .. n : events[i] # e
  <2>1. \A i \in 1 .. n : events[i] \in Range(log)
    BY <1>1, RangeIn DEF Kept
  <2> QED BY <2>1
<1> HIDE DEF n, k, l2, e2
<1>4. ASSUME NEW i \in 1 .. n + 1, NEW p \in 1 .. k + 1, l2[p] = e2[i]
      PROVE  \/ i = n + 1 /\ p = k + 1
             \/ i \in 1 .. n /\ p \in 1 .. k /\ log[p] = events[i]
  <2>1. CASE i = n + 1
    <3>1. p \in 1 .. k => FALSE
      BY <1>1, <1>2, <1>4, <2>1
    <3> QED BY <1>1, <2>1, <3>1
  <2>2. CASE i # n + 1
    <3>1. i \in 1 .. n
      BY <1>1, <2>2
    <3>2. p # k + 1
      BY <1>1, <1>3, <1>4, <3>1
    <3>3. p \in 1 .. k
      BY <1>1, <3>2
    <3> QED BY <1>1, <1>4, <3>1, <3>3
  <2> QED BY <2>1, <2>2
<1>5. ASSUME NEW i \in 1 .. n + 1, NEW j \in 1 .. n + 1,
             NEW p \in 1 .. k + 1, NEW q \in 1 .. k + 1, l2[p] = e2[i], l2[q] = e2[j]
      PROVE  i <= j <=> p <= q
  <2>1. /\ \/ i = n + 1 /\ p = k + 1
           \/ i \in 1 .. n /\ p \in 1 .. k /\ log[p] = events[i]
        /\ \/ j = n + 1 /\ q = k + 1
           \/ j \in 1 .. n /\ q \in 1 .. k /\ log[q] = events[j]
    BY <1>4, <1>5
  <2>2. CASE i \in 1 .. n /\ p \in 1 .. k /\ log[p] = events[i]
             /\ j \in 1 .. n /\ q \in 1 .. k /\ log[q] = events[j]
    BY <1>1, <2>2 DEF Kept
  <2>3. CASE i = n + 1 /\ p = k + 1
    BY <1>1, <2>1, <2>3
  <2>4. CASE j = n + 1 /\ q = k + 1
    BY <1>1, <2>1, <2>4
  <2> QED BY <2>1, <2>2, <2>3, <2>4
<1>6. Range(e2) \subseteq Range(l2)
  <2>1. ASSUME NEW i \in 1 .. n + 1 PROVE \E p \in 1 .. k + 1 : l2[p] = e2[i]
    <3>1. CASE i = n + 1
      <4>1. k + 1 \in 1 .. k + 1
        BY <1>1
      <4> QED BY <1>1, <3>1, <4>1
    <3>2. CASE i # n + 1
      <4>1. i \in 1 .. n
        BY <1>1, <3>2
      <4>2. events[i] \in Range(log)
        BY <1>1, <4>1, RangeIn DEF Kept
      <4>3. PICK p \in 1 .. k : log[p] = events[i]
        BY <1>1, <4>2 DEF Range
      <4>4. p \in 1 .. k + 1
        BY <1>1
      <4> QED BY <1>1, <4>1, <4>3, <4>4
    <3> QED BY <3>1, <3>2
  <2> QED BY <1>1, <2>1 DEF Range
<1>7. Kept(e2, l2)
  BY <1>1, <1>5, <1>6 DEF Kept
<1> QED BY <1>7 DEF e2, l2

LEMMA KeptShorter ==
    ASSUME NEW E, NEW events \in Seq(E), NEW log \in Seq(E), NEW e \in E,
           Kept(Append(events, e), log)
    PROVE  Kept(events, log) /\ e \in Range(log)
<1> DEFINE n == Len(events)
           e2 == Append(events, e)
<1>1. /\ n \in Nat /\ DOMAIN events = 1 .. n /\ DOMAIN e2 = 1 .. n + 1
      /\ \A i \in 1 .. n : e2[i] = events[i] /\ i \in 1 .. n + 1
      /\ e2[n + 1] = e /\ n + 1 \in 1 .. n + 1
  OBVIOUS
<1> HIDE DEF n, e2
<1>2. Kept(e2, log)
  BY DEF e2
<1>3. e \in Range(e2) /\ Range(events) \subseteq Range(e2)
  BY <1>1 DEF Range
<1> QED BY <1>1, <1>2, <1>3 DEF Kept

\* A log without repetitions keeps itself.
LEMMA KeptSelf ==
    ASSUME NEW E, NEW log \in Seq(E), \A i, j \in DOMAIN log : log[i] = log[j] => i = j
    PROVE  Kept(log, log)
  BY DEF Kept

LedgerInv == TypeInv /\ PendingInv /\ KeepInv

LEMMA LedgerReads ==
    ASSUME NEW db \in Ledger
    PROVE  Readable(db, NoLedger) = db /\ db.event_log \in Seq(Event)
  BY LedgersAssumption DEF Readable, Ledger

LEMMA SavedLogType ==
    ASSUME Saved(ledger_db, Ledger)
    PROVE  SavedLog \in Seq(Event)
<1>1. CASE ledger_db \in {None, Torn}
  <2>1. SavedLog = <<>>
    BY <1>1, NoLedgerType DEF SavedLog, Readable
  <2> QED BY <2>1
<1>2. CASE ledger_db \notin {None, Torn}
  BY <1>2, LedgerReads DEF SavedLog, Saved
<1> QED BY <1>1, <1>2

LEMMA EventsAreValues == None \notin Event /\ Torn \notin Event
  BY LedgersAssumption

LEMMA InitKeeps ==
    ASSUME Init
    PROVE  LedgerInv
<1>1. TypeInv
  BY InitTyped
<1>2. mode = "down" /\ request = None /\ log_file = <<>> /\ writes = <<>>
  BY DEF Init
<1>3. PendingInv
  BY <1>2 DEF PendingInv, Migrating
<1>4. Kept(answered, SavedLog)
  <2>1. CASE ledger_db \in {None, Torn}
    <3>1. answered = <<>>
      BY <2>1, EmptyLedgerType DEF Init, Readable
    <3> QED BY <3>1, KeptNone
  <2>2. CASE ledger_db \notin {None, Torn}
    <3>1. answered = ledger_db.event_log /\ SavedLog = ledger_db.event_log
      BY <2>2 DEF Init, Readable, SavedLog
    <3>2. ledger_db \in InitialLedgers \ {None}
      BY <2>2 DEF Init
    <3>3. \A i, j \in DOMAIN answered : answered[i] = answered[j] => i = j
      BY <3>1, <3>2, LedgersAssumption
    <3>4. answered \in Seq(Event)
      BY <1>1 DEF TypeInv, TypeOK
    <3> QED BY <3>1, <3>3, <3>4, KeptSelf
  <2> QED BY <2>1, <2>2
<1> QED BY <1>1, <1>2, <1>3, <1>4 DEF LedgerInv, KeepInv, DiskKeeps, MemoryKeeps

\* The log a boot reads is the one that keeps the answers, and it is the log file when that
\* holds anything.
LEMMA BootReads ==
    ASSUME LedgerInv, mode = "down", NEW b, b = Bootstrap(log_file, snapshot, ledger_db)
    PROVE  /\ log_file # <<>> => b.event_log = log_file
           /\ b.migrated => log_file = <<>> /\ backend = "replicated"
           /\ b.migrated \/ log_file # <<>> \/ backend = "file" \/ b.event_log = <<>>
           /\ Unbroken => Kept(answered, b.event_log)
<1>1. /\ backend \in {"file", "replicated"} /\ answered \in Seq(Event)
      /\ backend = "file" => log_file = <<>>
      /\ Unbroken => DiskKeeps
      /\ request = None /\ writes = <<>>
  BY StoreAssumption DEF LedgerInv, TypeInv, TypeOK, PendingInv, KeepInv
<1>2. CASE backend = "file"
  <2>1. b.event_log = SavedLog /\ b.migrated = FALSE
    BY <1>2 DEF Bootstrap, SavedLog
  <2> QED BY <1>1, <1>2, <2>1 DEF DiskKeeps
<1>3. CASE backend = "replicated" /\ log_file # <<>>
  <2>1. b.event_log = log_file /\ b.migrated = FALSE
    BY <1>3 DEF Bootstrap
  <2> QED BY <1>1, <1>3, <2>1 DEF DiskKeeps, Migrating
<1>4. CASE backend = "replicated" /\ log_file = <<>>
  <2>1. b = IF SavedLog # <<>>
            THEN [event_log |-> SavedLog, accounts |-> Readable(ledger_db, NoLedger).accounts,
                  state_root |-> Readable(ledger_db, NoLedger).state_root, migrated |-> TRUE]
            ELSE [event_log |-> <<>>, accounts |-> NoAccounts, state_root |-> None,
                  migrated |-> FALSE]
    BY <1>4 DEF Bootstrap, SavedLog
  <2>2. b.event_log = SavedLog
    BY <2>1
  <2>3. b.migrated \/ b.event_log = <<>>
    BY <2>1
  <2> QED BY <1>1, <1>4, <2>2, <2>3 DEF DiskKeeps
<1> QED BY <1>1, <1>2, <1>3, <1>4

LEMMA HistoryKeeps ==
    ASSUME NEW b \in BootstrapType, Torn \notin Range(b.event_log)
    PROVE  /\ Range(b.event_log) \subseteq Range(History(b))
           /\ answered \in Seq(Event) /\ Kept(answered, b.event_log)
                => Kept(answered, History(b))
<1>1. b.event_log \in Seq(Event) /\ BaseLog(b) \in Seq(Event)
  BY HistoryExtends
<1>2. PICK more \in Seq(Event) : /\ History(b) = BaseLog(b) \o more
                                 /\ Range(more) \cap Range(BaseLog(b)) = {}
  BY HistoryExtends
<1>3. PICK none \in Seq(Event) : none = <<>>
  <2>1. <<>> \in Seq(Event)
    OBVIOUS
  <2> QED BY <2>1
<1>4. Range(BaseLog(b)) \subseteq Range(History(b))
  <2>1. Kept(none, BaseLog(b)) /\ Range(more) \cap Range(none) = {}
    BY <1>3, KeptNone DEF Range
  <2> QED BY <1>1, <1>2, <2>1, KeptMore
<1>5. CASE b.event_log = <<>>
  <2>1. Range(b.event_log) = {}
    BY <1>5 DEF Range
  <2>2. answered \in Seq(Event) /\ Kept(answered, b.event_log) => answered = <<>>
    BY <1>5, KeptInNone
  <2> QED BY <2>1, <2>2, KeptNone
<1>6. CASE b.event_log # <<>>
  <2>1. BaseLog(b) = b.event_log
    BY <1>6 DEF BaseLog
  <2>2. ASSUME answered \in Seq(Event), Kept(answered, b.event_log)
        PROVE  Kept(answered, History(b))
    <3>1. Range(answered) \subseteq Range(BaseLog(b))
      BY <2>1, <2>2 DEF Kept
    <3>2. Range(more) \cap Range(answered) = {}
      BY <1>2, <3>1
    <3>3. Kept(answered, BaseLog(b))
      BY <2>1, <2>2
    <3> QED BY <1>1, <1>2, <2>2, <3>2, <3>3, KeptMore
  <2> QED BY <1>4, <2>1, <2>2
<1> QED BY <1>5, <1>6

LEMMA BootKeeps ==
    ASSUME LedgerInv, Boot
    PROVE  (PendingInv /\ KeepInv)'
<1>1. PICK b : b = Bootstrap(log_file, snapshot, ledger_db)
  OBVIOUS
<1>2. /\ b \in BootstrapType /\ mode = "down"
      /\ constitution \in Nat \cup {Torn} /\ answered \in Seq(Event)
      /\ log_file \in Seq(Event \cup {Torn})
      /\ request = None /\ writes = <<>> /\ backend \in {"file", "replicated"}
  BY <1>1, DiskTyped, StoreAssumption DEF LedgerInv, Boot, TypeInv, TypeOK, PendingInv
<1>3. /\ log_file # <<>> => b.event_log = log_file
      /\ b.migrated => log_file = <<>> /\ backend = "replicated"
      /\ b.migrated \/ log_file # <<>> \/ backend = "file" \/ b.event_log = <<>>
      /\ Unbroken => Kept(answered, b.event_log)
  BY <1>1, <1>2, BootReads
<1>4. UNCHANGED <<backend, log_file, snapshot, ledger_db, constitution, request, standby, answered>>
  BY DEF Boot, disk
<1>5. CASE Boots(b, constitution)
  <2>1. PICK log : log = History(b)
    OBVIOUS
  <2>2. /\ mode' = "live" /\ ledger'.event_log = log
        /\ writes' = IF b.migrated THEN [i \in DOMAIN log |-> LineWrite(log[i])] ELSE <<>>
        /\ mishaps' = IF b.migrated THEN mishaps
                      ELSE mishaps \ {"untold root", "amendment", "interrupted save"}
    <3>1. ledger' = [event_log  |-> log,
                     accounts   |-> WithAdmin(BootedAccounts(b)),
                     state_root |-> StateRoot(BootedAccounts(b), BootLaw(constitution)),
                     law        |-> BootLaw(constitution)]
      BY <1>1, <1>5, <2>1, Zenon DEF Boot
    <3>2. /\ mode' = "live"
          /\ writes' = IF b.migrated THEN [i \in DOMAIN log |-> LineWrite(log[i])] ELSE <<>>
          /\ mishaps' = IF b.migrated THEN mishaps
                        ELSE mishaps \ {"untold root", "amendment", "interrupted save"}
      BY <1>1, <1>5, <2>1, Zenon DEF Boot
    <3> QED BY <3>1, <3>2
  <2>3. Torn \notin Range(b.event_log) /\ log \in Seq(Event)
    BY <1>2, <1>5, <2>1, BootsTyped
  <2>4. Unbroken' => Unbroken
    BY <1>4, <2>2 DEF Unbroken
  <2>5. /\ Range(b.event_log) \subseteq Range(log)
        /\ Kept(answered, b.event_log) => Kept(answered, log)
    BY <1>2, <2>1, <2>3, HistoryKeeps
  <2>6. Range(log_file) \subseteq Range(log)
    <3>1. Range(<<>>) = {}
      BY DEF Range
    <3> QED BY <1>3, <2>5, <3>1
  <2>7. PICK n \in Nat : n = Len(log) /\ DOMAIN log = 1 .. n
    BY <2>3
  <2>8. request' = None
    BY <1>2, <1>4
  <2>9. PendingInv'
    <3>1. CASE b.migrated
      <4>1. writes' = [i \in 1 .. n |-> LineWrite(log[i])]
        BY <2>2, <2>7, <3>1
      <4>2. DOMAIN writes' = 1 .. n /\ Len(writes') = n
            /\ \A i \in 1 .. n : writes'[i] = LineWrite(log[i])
        BY <4>1
      <4>3. log_file' = <<>> /\ Len(log_file') = 0 /\ DOMAIN log_file' = {}
        BY <1>3, <1>4, <3>1
      <4>4. \A i \in DOMAIN writes' : writes'[i].file = "log"
        BY <4>2 DEF LineWrite
      <4>5. log # <<>>
        BY <1>2, <2>1, <2>3, HistoryExtends
      <4>6. n > 0
        BY <2>3, <2>7, <4>5
      <4>7. Migrating'
        <5>1. writes' # <<>> /\ Head(writes') = writes'[1] /\ 1 \in DOMAIN writes'
          BY <4>2, <4>6
        <5> QED BY <2>8, <4>4, <5>1 DEF Migrating
      <4>8. \A i \in DOMAIN writes' : PendingWrite(i)'
        BY <1>3, <1>4, <3>1, <4>4, <4>7 DEF PendingWrite
      <4>9. \A i \in DOMAIN writes' : writes'[i] = LineWrite(ledger'.event_log[Len(log_file') + i])
        <5>1. Len(log_file') = 0 /\ ledger'.event_log = log
          BY <2>2, <4>3
        <5>2. ASSUME NEW i \in DOMAIN writes'
              PROVE  writes'[i] = LineWrite(log[0 + i])
          <6>1. i \in 1 .. n /\ 0 + i = i
            BY <4>2, <5>2
          <6> QED BY <4>2, <6>1
        <5> QED BY <5>1, <5>2
      <4>10. Len(log_file') + Len(writes') = Len(ledger'.event_log)
        <5>1. Len(log_file') = 0 /\ Len(writes') = n /\ Len(ledger'.event_log) = n
          BY <2>2, <2>7, <4>2, <4>3
        <5> QED BY <5>1
      <4> QED BY <1>3, <1>4, <2>2, <2>6, <2>8, <3>1, <4>3, <4>8, <4>9, <4>10 DEF PendingInv
    <3>2. CASE ~ b.migrated
      <4>1. writes' = <<>>
        BY <2>2, <3>2
      <4>2. DOMAIN writes' = {} /\ ~ Migrating'
        BY <4>1 DEF Migrating
      <4>3. backend' = "file" => log_file' = <<>>
        BY <1>4 DEF LedgerInv, PendingInv
      <4> QED BY <1>4, <2>2, <2>6, <2>8, <4>2, <4>3 DEF PendingInv
    <3> QED BY <3>1, <3>2
  <2>10. ASSUME Unbroken' PROVE DiskKeeps' /\ MemoryKeeps'
    <3>1. Kept(answered', ledger'.event_log)
      BY <1>3, <1>4, <2>2, <2>4, <2>5, <2>10
    <3>2. MemoryKeeps'
      BY <2>8, <3>1 DEF MemoryKeeps
    <3>3. Unbroken => DiskKeeps
      BY DEF LedgerInv, KeepInv
    <3>4. CASE backend = "file"
      <4>1. Kept(answered, SavedLog)
        BY <2>4, <2>10, <3>3, <3>4 DEF DiskKeeps
      <4> QED BY <1>4, <3>2, <3>4, <4>1 DEF DiskKeeps, SavedLog
    <3>5. CASE backend = "replicated" /\ b.migrated
      <4>1. Migrating'
        <5>1. \A i \in DOMAIN log : LineWrite(log[i]).file = "log"
          BY DEF LineWrite
        <5>2. writes' = [i \in 1 .. n |-> LineWrite(log[i])]
          BY <2>2, <2>7, <3>5
        <5>3. log # <<>>
          BY <1>2, <2>1, <2>3, HistoryExtends
        <5>4. n > 0 /\ 1 \in 1 .. n
          BY <2>3, <2>7, <5>3
        <5>5. writes' # <<>> /\ Head(writes') = LineWrite(log[1])
          BY <5>2, <5>4
        <5> QED BY <2>7, <2>8, <5>1, <5>4, <5>5 DEF Migrating
      <4> QED BY <1>4, <2>2, <3>2, <3>5, <4>1 DEF DiskKeeps
    <3>6. CASE backend = "replicated" /\ ~ b.migrated
      <4>1. Kept(answered, log_file)
        BY <1>3, <2>4, <2>10, <3>6
      <4> QED BY <1>4, <2>2, <3>2, <3>6, <4>1 DEF DiskKeeps
    <3> QED BY <1>2, <3>4, <3>5, <3>6
  <2> QED BY <2>9, <2>10 DEF KeepInv
<1>6. CASE ~ Boots(b, constitution)
  <2>1. mode' = "refused" /\ UNCHANGED <<ledger, writes, mishaps>>
    BY <1>1, <1>6, Zenon DEF Boot
  <2>2. PendingInv'
    BY <1>2, <1>4, <2>1 DEF LedgerInv, PendingInv
  <2>3. Unbroken' => Unbroken
    BY <1>4, <2>1 DEF Unbroken
  <2>4. KeepInv'
    BY <1>2, <1>4, <2>1, <2>3
       DEF LedgerInv, KeepInv, DiskKeeps, MemoryKeeps, SavedLog, Migrating
  <2> QED BY <2>2, <2>4
<1> QED BY <1>5, <1>6

LEMMA SaveSnapshotWrites ==
    ASSUME NEW l \in Ledger, l.state_root \in Root
    PROVE  /\ SaveSnapshot(l) \in Seq(FileWrite) /\ SaveSnapshot(l) # <<>>
           /\ SaveSnapshot(l)[Len(SaveSnapshot(l))].file = "ledger_db"
           /\ \A i \in DOMAIN SaveSnapshot(l) :
                 /\ SaveSnapshot(l)[i].file \in {"snapshot", "ledger_db"}
                 /\ SaveSnapshot(l)[i].file = "ledger_db" => SaveSnapshot(l)[i].content = l
<1>1. SaveSnapshot(l) \in Seq(FileWrite)
  BY SaveSnapshotType
<1>2. PICK full : full = [file |-> "ledger_db", content |-> l]
  OBVIOUS
<1>3. PICK brief : brief = [file |-> "snapshot",
                            content |-> [accounts |-> l.accounts, state_root |-> l.state_root]]
  OBVIOUS
<1>4. full.file = "ledger_db" /\ full.content = l /\ brief.file = "snapshot"
  BY <1>2, <1>3
<1>5. SaveSnapshot(l) = IF backend = "replicated" THEN <<brief, full>> ELSE <<full>>
  BY <1>2, <1>3 DEF SaveSnapshot
<1>6. PICK s : s = SaveSnapshot(l)
  OBVIOUS
<1>7. CASE backend = "replicated"
  <2>1. s = <<brief, full>>
    BY <1>5, <1>6, <1>7
  <2>2. DOMAIN s = {1, 2} /\ Len(s) = 2 /\ s[1] = brief /\ s[2] = full /\ s # <<>>
    BY <2>1
  <2> QED BY <1>1, <1>4, <1>6, <2>2
<1>8. CASE backend # "replicated"
  <2>1. s = <<full>>
    BY <1>5, <1>6, <1>8
  <2>2. DOMAIN s = {1} /\ Len(s) = 1 /\ s[1] = full /\ s # <<>>
    BY <2>1
  <2> QED BY <1>1, <1>4, <1>6, <2>2
<1> QED BY <1>7, <1>8

\* At rest a node has no event to answer, and the log file keeps the answers.
LEMMA AtRest ==
    ASSUME LedgerInv, Serving
    PROVE  /\ mode = "live" /\ writes = <<>> /\ request = None
           /\ answered \in Seq(Event)
           /\ backend \in {"file", "replicated"}
           /\ Range(log_file) \subseteq Range(ledger.event_log)
           /\ Unbroken =>
                 /\ Kept(answered, ledger.event_log)
                 /\ backend = "replicated" => Kept(answered, log_file)
                 /\ backend = "file" => Kept(answered, SavedLog)
<1>1. mode = "live" /\ writes = <<>>
  BY DEF Serving
<1>2. request = None /\ Range(log_file) \subseteq Range(ledger.event_log)
  BY <1>1 DEF LedgerInv, PendingInv
<1>3. answered \in Seq(Event) /\ backend \in {"file", "replicated"}
  BY StoreAssumption DEF LedgerInv, TypeInv, TypeOK
<1>4. ~ Migrating
  BY <1>1 DEF Migrating
<1> QED BY <1>1, <1>2, <1>3, <1>4 DEF LedgerInv, KeepInv, DiskKeeps, MemoryKeeps

\* What a save writes: what comes before, and the ledger.
LEMMA SaveWrites ==
    ASSUME NEW l \in Ledger, l.state_root \in Root, NEW before \in Seq(FileWrite),
           Save(l, before)
    PROVE  /\ writes' # <<>> /\ writes' \in Seq(FileWrite)
           /\ writes'[Len(writes')].file = "ledger_db"
           /\ \A i \in DOMAIN writes' :
                 \/ i \in DOMAIN before /\ writes'[i] = before[i]
                 \/ /\ i \notin DOMAIN before
                    /\ writes'[i].file \in {"snapshot", "ledger_db"}
                    /\ writes'[i].file = "ledger_db" => writes'[i].content = l
           /\ before # <<>> => Head(writes') = Head(before)
           /\ before = <<>> => Head(writes').file # "log"
<1>1. PICK s : s = SaveSnapshot(l)
  OBVIOUS
<1>2. /\ s \in Seq(FileWrite) /\ s # <<>> /\ s[Len(s)].file = "ledger_db"
      /\ \A i \in DOMAIN s : /\ s[i].file \in {"snapshot", "ledger_db"}
                             /\ s[i].file = "ledger_db" => s[i].content = l
  BY <1>1, SaveSnapshotWrites
<1>3. PICK w : w = before \o s
  OBVIOUS
<1>4. writes' = w
  BY <1>1, <1>3 DEF Save
<1>5. PICK m \in Nat : m = Len(before) /\ DOMAIN before = 1 .. m
  OBVIOUS
<1>6. PICK n \in Nat : n = Len(s) /\ DOMAIN s = 1 .. n /\ n > 0
  BY <1>2
<1>7. /\ w \in Seq(FileWrite) /\ Len(w) = m + n /\ DOMAIN w = 1 .. m + n /\ w # <<>>
      /\ \A i \in 1 .. m : w[i] = before[i]
      /\ \A i \in 1 .. n : w[m + i] = s[i]
  BY <1>2, <1>3, <1>5, <1>6
<1>8. w[Len(w)].file = "ledger_db"
  <2>1. n \in 1 .. n
    BY <1>6
  <2> QED BY <1>2, <1>6, <1>7, <2>1
<1>9. ASSUME NEW i \in DOMAIN w, i \notin DOMAIN before
      PROVE  /\ w[i].file \in {"snapshot", "ledger_db"}
             /\ w[i].file = "ledger_db" => w[i].content = l
  <2>1. i - m \in 1 .. n /\ m + (i - m) = i
    BY <1>5, <1>7, <1>9
  <2>2. w[i] = s[i - m]
    BY <1>7, <2>1
  <2> QED BY <1>2, <1>6, <2>1, <2>2
<1>10. before # <<>> => Head(w) = Head(before)
  <2>1. before # <<>> => 1 \in 1 .. m /\ Head(before) = before[1]
    BY <1>5
  <2>2. Head(w) = w[1]
    BY <1>7
  <2> QED BY <1>7, <2>1, <2>2
<1>11. before = <<>> => Head(w).file # "log"
  <2>1. ASSUME before = <<>> PROVE Head(w) = s[1] /\ 1 \in DOMAIN s
    <3>1. m = 0
      BY <1>5, <2>1
    <3>2. 1 \in 1 .. n /\ m + 1 = 1
      BY <1>6, <3>1
    <3> QED BY <1>6, <1>7, <3>2
  <2> QED BY <1>2, <2>1
<1> QED BY <1>4, <1>5, <1>7, <1>8, <1>9, <1>10, <1>11

LEMMA SaveUnchanged ==
    ASSUME NEW l, NEW before, Save(l, before)
    PROVE  /\ ledger' = l
           /\ UNCHANGED <<backend, log_file, snapshot, ledger_db, constitution, mode, standby,
                          boots, answered>>
           /\ Unbroken' => Unbroken
  BY DEF Save, disk, Unbroken

\* A save without an event.
LEMMA QuietSaveKeeps ==
    ASSUME LedgerInv, Serving, NEW l \in Ledger, l.state_root \in Root,
           NEW before \in Seq(FileWrite), Save(l, before), request' = request,
           l.event_log = ledger.event_log,
           \A i \in DOMAIN before :
              /\ before[i].file # "log"
              /\ before[i].file = "ledger_db" => before[i].content.event_log = ledger.event_log
    PROVE  (PendingInv /\ KeepInv)'
<1>1. /\ ledger' = l
      /\ UNCHANGED <<backend, log_file, snapshot, ledger_db, constitution, mode, standby,
                     boots, answered>>
      /\ Unbroken' => Unbroken
  BY SaveUnchanged
<1>2. /\ mode = "live" /\ request = None /\ backend \in {"file", "replicated"}
      /\ Range(log_file) \subseteq Range(ledger.event_log)
      /\ Unbroken =>
            /\ Kept(answered, ledger.event_log)
            /\ backend = "replicated" => Kept(answered, log_file)
            /\ backend = "file" => Kept(answered, SavedLog)
  BY AtRest
<1>3. \A i \in DOMAIN writes' : /\ writes'[i].file # "log"
                                /\ writes'[i].file = "ledger_db"
                                      => writes'[i].content.event_log = ledger.event_log
  BY SaveWrites
<1>4. ~ Migrating'
  <2>1. writes' # <<>> /\ writes' \in Seq(FileWrite)
    BY SaveWrites
  <2>2. Head(writes') = writes'[1] /\ 1 \in DOMAIN writes'
    BY <2>1
  <2> QED BY <1>3, <2>2 DEF Migrating
<1>5. PendingInv'
  <2>1. \A i \in DOMAIN writes' : PendingWrite(i)'
    BY <1>1, <1>3 DEF PendingWrite
  <2>2. backend' = "file" => log_file' = <<>>
    BY <1>1 DEF LedgerInv, PendingInv
  <2> QED BY <1>1, <1>2, <1>4, <2>1, <2>2 DEF PendingInv
<1>6. ASSUME Unbroken' PROVE DiskKeeps' /\ MemoryKeeps'
  <2>1. SavedLog' = SavedLog
    BY <1>1 DEF SavedLog
  <2> QED BY <1>1, <1>2, <1>6, <2>1 DEF DiskKeeps, MemoryKeeps
<1> QED BY <1>5, <1>6 DEF KeepInv

LEMMA SaveOnlyKeeps ==
    ASSUME LedgerInv, SaveOnly
    PROVE  (PendingInv /\ KeepInv)'
<1>1. Serving /\ Save(ledger, <<>>) /\ request' = request
  BY DEF SaveOnly
<1>2. ledger \in Ledger /\ ledger.state_root \in Root
  BY <1>1, LiveTyped DEF LedgerInv, Serving
<1>3. PICK before : before = <<>>
  OBVIOUS
<1>4. before \in Seq(FileWrite) /\ DOMAIN before = {} /\ Save(ledger, before)
  BY <1>1, <1>3
<1> QED BY <1>1, <1>2, <1>4, QuietSaveKeeps

LEMMA RememberKeeps ==
    ASSUME LedgerInv, Remember
    PROVE  (PendingInv /\ KeepInv)'
<1>1. Serving /\ mode = "live" /\ request' = request /\ TypeInv
  BY DEF Remember, Serving, LedgerInv
<1>2. PICK a \in CapsuleOwners \ DOMAIN ledger.accounts :
         Save(Rooted(ledger.event_log,
                     With(ledger.accounts, a, [balance |-> 0, credential |-> FALSE]),
                     ledger.law), <<>>)
  BY DEF Remember
<1>3. PICK accounts : accounts = With(ledger.accounts, a, [balance |-> 0, credential |-> FALSE])
  OBVIOUS
<1>4. accounts \in Accounts
  <2>1. a \in Names /\ [balance |-> 0, credential |-> FALSE] \in Account
    BY DEF Names, Account
  <2> QED BY <1>1, <1>3, <2>1, LiveTyped, WithType
<1>5. PICK l : l = Rooted(ledger.event_log, accounts, ledger.law)
  OBVIOUS
<1>6. l \in Ledger /\ l.state_root \in Root /\ l.event_log = ledger.event_log
  BY <1>1, <1>4, <1>5, LiveTyped, RootedType
<1>7. PICK before : before = <<>>
  OBVIOUS
<1>8. Save(l, before)
  BY <1>2, <1>3, <1>5, <1>7, Zenon
<1>9. before \in Seq(FileWrite) /\ DOMAIN before = {}
  BY <1>7
<1> QED BY <1>1, <1>6, <1>8, <1>9, QuietSaveKeeps

LEMMA AmendKeeps ==
    ASSUME LedgerInv, Amend
    PROVE  (PendingInv /\ KeepInv)'
<1>1. Serving /\ mode = "live" /\ request' = request /\ TypeInv
  BY DEF Amend, Serving, LedgerInv
<1>2. PICK law : law = [root |-> ledger.law.root + 1, epoch |-> ledger.law.epoch + 1]
  OBVIOUS
<1>3. PICK enacted : enacted = [ledger EXCEPT !.law = law]
  OBVIOUS
<1>4. PICK amended : amended = [file |-> "constitution", content |-> law.root]
  OBVIOUS
<1>5. PICK l : l = Rooted(ledger.event_log, ledger.accounts, law)
  OBVIOUS
<1>6. Save(enacted, <<amended>>) \/ Save(l, <<amended>> \o SaveSnapshot(enacted))
  BY <1>2, <1>3, <1>4, <1>5, Zenon DEF Amend
<1>7. law \in Law
  BY <1>1, <1>2, LiveTyped DEF Law
<1>8. enacted \in Ledger /\ enacted.state_root \in Root /\ enacted.event_log = ledger.event_log
  BY <1>1, <1>3, <1>7, LiveTyped DEF Ledger
<1>9. l \in Ledger /\ l.state_root \in Root /\ l.event_log = ledger.event_log
  BY <1>1, <1>5, <1>7, LiveTyped, RootedType
<1>10. amended \in FileWrite /\ amended.file = "constitution"
  BY <1>4, <1>7 DEF Law, FileWrite
<1>11. PICK first : first = <<amended>>
  OBVIOUS
<1>12. first \in Seq(FileWrite) /\ DOMAIN first = {1} /\ first[1] = amended /\ Len(first) = 1
  BY <1>10, <1>11
<1>13. CASE Save(enacted, first)
  <2>1. \A i \in DOMAIN first : first[i].file = "constitution"
    BY <1>10, <1>12
  <2> QED BY <1>1, <1>8, <1>12, <1>13, <2>1, QuietSaveKeeps
<1>14. CASE Save(l, first \o SaveSnapshot(enacted))
  <2>1. PICK s : s = SaveSnapshot(enacted)
    OBVIOUS
  <2>2. /\ s \in Seq(FileWrite)
        /\ \A i \in DOMAIN s : /\ s[i].file \in {"snapshot", "ledger_db"}
                               /\ s[i].file = "ledger_db" => s[i].content = enacted
    BY <1>8, <2>1, SaveSnapshotWrites
  <2>3. PICK before : before = first \o s
    OBVIOUS
  <2>4. PICK n \in Nat : n = Len(s) /\ DOMAIN s = 1 .. n
    BY <2>2
  <2>5. /\ before \in Seq(FileWrite) /\ DOMAIN before = 1 .. 1 + n
        /\ before[1] = amended
        /\ \A i \in 1 .. n : before[1 + i] = s[i]
    <3>0. first \in Seq(FileWrite) /\ s \in Seq(FileWrite)
      BY <1>12, <2>2
    <3>1. PICK m \in Nat : m = Len(first) /\ DOMAIN first = 1 .. m
      BY <1>12
    <3>2. /\ before \in Seq(FileWrite) /\ DOMAIN before = 1 .. m + n
          /\ \A i \in 1 .. m : before[i] = first[i]
          /\ \A i \in 1 .. n : before[m + i] = s[i]
      BY ONLY <2>3, <2>4, <3>1, <3>0
    <3>3. m = 1 /\ 1 \in 1 .. m
      BY <1>12, <3>1
    <3> QED BY <1>12, <3>2, <3>3
  <2>6. ASSUME NEW i \in DOMAIN before
        PROVE  /\ before[i].file # "log"
               /\ before[i].file = "ledger_db" => before[i].content.event_log = ledger.event_log
    <3>1. CASE i = 1
      BY <1>10, <2>5, <3>1
    <3>2. CASE i # 1
      <4>1. i - 1 \in 1 .. n /\ 1 + (i - 1) = i
        BY <2>5, <3>2
      <4>2. before[i] = s[i - 1]
        BY <2>5, <4>1
      <4> QED BY <1>8, <2>2, <2>4, <4>1, <4>2
    <3> QED BY <3>1, <3>2
  <2>7. Save(l, before)
    BY <1>14, <2>1, <2>3
  <2> QED BY <1>1, <1>9, <2>5, <2>6, <2>7, QuietSaveKeeps
<1> QED BY <1>6, <1>11, <1>13, <1>14

LEMMA RequestKeeps ==
    ASSUME LedgerInv, NEW e \in Event, ApplyRequest(e)
    PROVE  (PendingInv /\ KeepInv)'
<1>1. Serving /\ mode = "live" /\ request' = e /\ e \notin Range(ledger.event_log)
  BY DEF ApplyRequest, Serving
<1>2. /\ writes = <<>> /\ request = None /\ backend \in {"file", "replicated"}
      /\ Range(log_file) \subseteq Range(ledger.event_log) /\ answered \in Seq(Event)
      /\ Unbroken =>
            /\ Kept(answered, ledger.event_log)
            /\ backend = "replicated" => Kept(answered, log_file)
            /\ backend = "file" => Kept(answered, SavedLog)
  BY <1>1, AtRest
<1>3. PICK log : log = Append(ledger.event_log, e)
  OBVIOUS
<1>4. PICK accounts : accounts = ApplyEvent(ledger.accounts, e)
  OBVIOUS
<1>5. PICK l : l = Rooted(log, accounts, ledger.law)
  OBVIOUS
<1>6. PICK before : before = RecordEvent(e)
  OBVIOUS
<1>7. Save(l, before)
  BY <1>3, <1>4, <1>5, <1>6, Zenon DEF ApplyRequest
<1>8. /\ ledger.event_log \in Seq(Event) /\ ledger.accounts \in Accounts /\ ledger.law \in Law
      /\ log_file \in Seq(Event \cup {Torn}) /\ TypeInv
  BY <1>1, LiveTyped DEF LedgerInv, TypeInv, TypeOK
<1>9. l \in Ledger /\ l.state_root \in Root /\ l.event_log = log
  <2>1. log \in Seq(Event)
    BY <1>3, <1>8
  <2>2. accounts \in Accounts
    BY <1>4, <1>8, ApplyEventType
  <2> QED BY <1>5, <1>8, <2>1, <2>2, RootedType
<1>10. before \in Seq(FileWrite)
  BY <1>6, RecordEventType
<1>11. /\ ledger' = l
       /\ UNCHANGED <<backend, log_file, snapshot, ledger_db, constitution, mode, standby,
                      boots, answered>>
       /\ Unbroken' => Unbroken
  BY <1>7, SaveUnchanged
<1>12. e # None /\ request' # None
  BY <1>1, EventsAreValues
<1>13. ~ Migrating'
  BY <1>12 DEF Migrating
<1>14. LineWrite(e).file = "log" /\ LineWrite(e).content = e
  BY DEF LineWrite
<1>15. /\ backend = "replicated" => /\ DOMAIN before = {1} /\ before[1] = LineWrite(e)
                                    /\ before # <<>> /\ Head(before) = LineWrite(e)
       /\ backend = "file" => before = <<>> /\ DOMAIN before = {}
  BY <1>6 DEF RecordEvent
<1>16. /\ writes' # <<>> /\ writes' \in Seq(FileWrite)
       /\ writes'[Len(writes')].file = "ledger_db"
       /\ \A i \in DOMAIN writes' :
             \/ i \in DOMAIN before /\ writes'[i] = before[i]
             \/ /\ writes'[i].file \in {"snapshot", "ledger_db"}
                /\ writes'[i].file = "ledger_db" => writes'[i].content = l
       /\ before # <<>> => Head(writes') = Head(before)
       /\ before = <<>> => Head(writes').file # "log"
  BY <1>7, <1>9, <1>10, SaveWrites
<1>17. Range(log) = Range(ledger.event_log) \cup {e}
  BY <1>3, <1>8, RangeAppends
<1>18. PendingInv'
  <2>1. ASSUME NEW i \in DOMAIN writes' PROVE PendingWrite(i)'
    <3>1. CASE i \in DOMAIN before /\ writes'[i] = before[i]
      <4>1. backend = "replicated" /\ i = 1 /\ writes'[i] = LineWrite(e)
        BY <1>2, <1>15, <3>1
      <4> QED BY <1>1, <1>11, <1>12, <1>14, <4>1 DEF PendingWrite
    <3>2. CASE /\ writes'[i].file \in {"snapshot", "ledger_db"}
               /\ writes'[i].file = "ledger_db" => writes'[i].content = l
      <4>1. writes'[i].file # "log"
        BY <3>2
      <4>2. writes'[i].file = "ledger_db" => writes'[i].content.event_log = ledger'.event_log
        BY <1>11, <3>2
      <4> QED BY <4>1, <4>2 DEF PendingWrite
    <3> QED BY <1>16, <3>1, <3>2
  <2>2. backend' = "file" => log_file' = <<>>
    BY <1>11 DEF LedgerInv, PendingInv
  <2>3. Range(log_file') \subseteq Range(ledger'.event_log)
    BY <1>2, <1>9, <1>11, <1>17
  <2>4. e \in Range(ledger'.event_log)
    BY <1>9, <1>11, <1>17
  <2> QED BY <1>1, <1>11, <1>13, <1>16, <2>1, <2>2, <2>3, <2>4 DEF PendingInv
<1>19. ASSUME Unbroken' PROVE DiskKeeps' /\ MemoryKeeps'
  <2>1. /\ Kept(answered, ledger.event_log)
        /\ backend = "replicated" => Kept(answered, log_file)
        /\ backend = "file" => Kept(answered, SavedLog)
    BY <1>2, <1>11, <1>19
  <2>2. e \notin Range(answered)
    BY <1>1, <2>1 DEF Kept
  <2>3. Kept(answered, log) /\ Kept(Append(answered, e), log)
    BY <1>1, <1>2, <1>3, <1>8, <2>1, <2>2, KeptLine, KeptBoth
  <2>4. backend = "replicated" => Head(writes').file = "log" /\ e \notin Range(log_file)
    BY <1>1, <1>2, <1>14, <1>15, <1>16
  <2>5. MemoryKeeps'
    BY <1>1, <1>9, <1>11, <2>3, <2>4 DEF MemoryKeeps
  <2>6. SavedLog' = SavedLog
    BY <1>11 DEF SavedLog
  <2>7. DiskKeeps'
    BY <1>1, <1>2, <1>11, <2>1, <2>6 DEF DiskKeeps
  <2> QED BY <2>5, <2>7
<1> QED BY <1>18, <1>19 DEF KeepInv

LEMMA CrashKeeps ==
    ASSUME LedgerInv, Crash
    PROVE  (PendingInv /\ KeepInv)'
<1>1. /\ mode = "live" /\ mode' = "down" /\ request' = None /\ writes' = <<>>
      /\ UNCHANGED <<backend, answered>>
      /\ backend \in {"file", "replicated"} /\ answered \in Seq(Event)
      /\ log_file \in Seq(Event \cup {Torn}) /\ writes \in Seq(FileWrite)
  BY StoreAssumption DEF Crash, LedgerInv, TypeInv, TypeOK
<1>2. PICK torn \in IF writes = <<>> THEN {FALSE} ELSE BOOLEAN :
         LET file == IF torn THEN Head(writes).file ELSE "none"
         IN  /\ log_file' = IF file = "log" THEN Append(log_file, Torn) ELSE log_file
             /\ ledger_db' = IF file = "ledger_db" THEN Torn ELSE ledger_db
             /\ mishaps' = mishaps \cup Interruption(torn)
  BY DEF Crash
<1>3. /\ \/ log_file' = log_file
         \/ /\ writes # <<>> /\ Head(writes).file = "log"
            /\ log_file' = Append(log_file, Torn)
      /\ \/ ledger_db' = ledger_db
         \/ (writes # <<>> /\ torn = TRUE /\ Head(writes).file = "ledger_db")
      /\ mishaps' = mishaps \cup Interruption(torn)
  BY <1>2
<1>4. writes # <<>> => PendingWrite(1)
  <2>1. writes # <<>> => 1 \in DOMAIN writes
    BY <1>1
  <2> QED BY <1>1, <2>1 DEF LedgerInv, PendingInv
<1>5. writes # <<>> => Head(writes) = writes[1]
  BY <1>1
<1>6. backend = "file" => log_file' = <<>>
  BY <1>3, <1>4, <1>5 DEF LedgerInv, PendingInv, PendingWrite
<1>7. PendingInv'
  BY <1>1, <1>6 DEF PendingInv
<1>8. ASSUME Unbroken' PROVE DiskKeeps'
  <2>1. Unbroken /\ ~ Migrating
    <3>1. Unbroken
      BY <1>1, <1>3, <1>8 DEF Unbroken
    <3>2. Migrating => Interruption(torn) = {"interrupted migration"}
      BY DEF Migrating, Interruption
    <3> QED BY <1>3, <1>8, <3>1, <3>2 DEF Unbroken
  <2>2. DiskKeeps
    BY <2>1 DEF LedgerInv, KeepInv
  <2>3. CASE backend = "file"
    <3>1. Kept(answered, SavedLog)
      BY <2>2, <2>3 DEF DiskKeeps
    <3>2. ledger_db' = ledger_db
      <4>1. ASSUME writes # <<>>, torn = TRUE, Head(writes).file = "ledger_db"
            PROVE  FALSE
        <5>1. "torn ledger" \in Interruption(torn)
          BY <4>1 DEF Interruption
        <5> QED BY <1>1, <1>3, <1>8, <2>3, <5>1 DEF Unbroken
      <4> QED BY <1>3, <4>1
    <3> QED BY <1>1, <2>3, <3>1, <3>2 DEF DiskKeeps, SavedLog
  <2>4. CASE backend = "replicated"
    <3>1. Kept(answered, log_file)
      BY <1>1, <2>1, <2>2, <2>4 DEF DiskKeeps
    <3>2. PICK E : E = Event \cup {Torn}
      OBVIOUS
    <3>3. answered \in Seq(E) /\ log_file \in Seq(E) /\ Torn \in E
      BY <1>1, <3>2
    <3>4. Torn \notin Range(answered)
      BY <1>1, EventsAreValues, RangeIn
    <3>5. Kept(answered, log_file')
      <4>1. Kept(answered, Append(log_file, Torn))
        BY <3>1, <3>3, <3>4, KeptLine
      <4>2. log_file' = log_file \/ log_file' = Append(log_file, Torn)
        BY <1>3
      <4> QED BY <3>1, <4>1, <4>2
    <3>6. log_file' = <<>> => answered = <<>>
      <4>1. log_file' = <<>> => Kept(answered, <<>>)
        BY <3>5
      <4> QED BY <1>1, <4>1, KeptInNone
    <3>7. log_file' = <<>> => Kept(answered, SavedLog')
      BY <3>6, KeptNone
    <3> QED BY <1>1, <2>4, <3>5, <3>7 DEF DiskKeeps
  <2> QED BY <1>1, <2>3, <2>4
<1>9. MemoryKeeps'
  BY <1>1 DEF MemoryKeeps
<1> QED BY <1>7, <1>8, <1>9 DEF KeepInv

LEMMA OperatorKeeps ==
    ASSUME LedgerInv, AdmitOrphans \/ DeleteSnapshot
    PROVE  (PendingInv /\ KeepInv)'
<1>1. /\ mode # "live" /\ mode' = "down"
      /\ UNCHANGED <<backend, log_file, writes, request, answered, mishaps>>
      /\ answered \in Seq(Event) /\ TypeInv
  BY DEF AdmitOrphans, DeleteSnapshot, LedgerInv, TypeInv, TypeOK, history
<1>2. PendingInv'
  BY <1>1 DEF LedgerInv, PendingInv
<1>3. Kept(answered, SavedLog) => Kept(answered, SavedLog')
  <2>1. CASE AdmitOrphans
    <3>1. ledger_db \in Ledger /\ ledger_db' \in Ledger
      BY <1>1, <2>1, RepairExtends
    <3>2. PICK more \in Seq(Event) : /\ ledger_db'.event_log = ledger_db.event_log \o more
                                     /\ Range(more) \cap Range(ledger_db.event_log) = {}
      BY <1>1, <2>1, RepairExtends
    <3>3. SavedLog = ledger_db.event_log /\ SavedLog' = ledger_db'.event_log
          /\ SavedLog \in Seq(Event)
      BY <3>1, LedgerReads DEF SavedLog
    <3>4. ASSUME Kept(answered, SavedLog) PROVE Kept(answered, SavedLog')
      <4>1. Range(more) \cap Range(answered) = {}
        BY <3>2, <3>3, <3>4 DEF Kept
      <4> QED BY <1>1, <3>2, <3>3, <3>4, <4>1, KeptMore
    <3> QED BY <3>4
  <2>2. CASE DeleteSnapshot
    <3>1. SavedLog' = SavedLog
      BY <2>2 DEF DeleteSnapshot, SavedLog
    <3> QED BY <1>1, <3>1
  <2> QED BY <2>1, <2>2
<1>4. KeepInv'
  <2>1. Unbroken' => Unbroken
    BY <1>1 DEF Unbroken
  <2>2. Migrating' <=> Migrating
    BY <1>1 DEF Migrating
  <2>3. Unbroken => DiskKeeps
    BY DEF LedgerInv, KeepInv
  <2> QED BY <1>1, <1>3, <2>1, <2>2, <2>3 DEF KeepInv, DiskKeeps, MemoryKeeps
<1> QED BY <1>2, <1>4

LEMMA StandbyStepKeeps ==
    ASSUME LedgerInv, StandbyStep \/ UNCHANGED vars
    PROVE  (PendingInv /\ KeepInv)'
<1>1. UNCHANGED <<backend, log_file, snapshot, ledger_db, constitution, mode, ledger,
                  writes, request, boots, answered, mishaps>>
  BY StandbyKeeps DEF vars, disk, node, history
<1>2. (Migrating' <=> Migrating) /\ (Unbroken' <=> Unbroken) /\ SavedLog' = SavedLog
  BY <1>1 DEF Migrating, Unbroken, SavedLog
<1>3. \A i \in DOMAIN writes : PendingWrite(i)' <=> PendingWrite(i)
  BY <1>1, <1>2 DEF PendingWrite
<1>4. PendingInv'
  BY <1>1, <1>2, <1>3 DEF LedgerInv, PendingInv
<1>5. KeepInv'
  BY <1>1, <1>2 DEF LedgerInv, KeepInv, DiskKeeps, MemoryKeeps
<1> QED BY <1>4, <1>5

\* What a file write takes from the list of writes.
LEMMA WriteTakes ==
    ASSUME LedgerInv, Write
    PROVE  /\ writes \in Seq(FileWrite) /\ writes # <<>> /\ mode = "live"
           /\ Head(writes) = writes[1] /\ 1 \in DOMAIN writes /\ Head(writes) \in FileWrite
           /\ writes' \in Seq(FileWrite)
           /\ Len(writes') = Len(writes) - 1 /\ Len(writes) \in Nat
           /\ \A i \in DOMAIN writes' : /\ writes'[i] = writes[i + 1] /\ i + 1 \in DOMAIN writes
                                        /\ i \in Nat /\ i > 0
           /\ writes' # <<>> =>
                 /\ Head(writes') = writes[2] /\ 2 \in DOMAIN writes
                 /\ writes'[Len(writes')] = writes[Len(writes)]
           /\ writes' = <<>> <=> Len(writes) = 1
<1>1. writes \in Seq(FileWrite) /\ writes # <<>> /\ mode = "live" /\ writes' = Tail(writes)
  BY DEF LedgerInv, TypeInv, TypeOK, Write
<1>2. PICK n \in Nat : n = Len(writes) /\ DOMAIN writes = 1 .. n /\ n > 0
  BY <1>1
<1>3. PICK rest : rest = Tail(writes)
  OBVIOUS
<1>4. /\ rest \in Seq(FileWrite) /\ Len(rest) = n - 1 /\ DOMAIN rest = 1 .. n - 1
      /\ \A i \in 1 .. n - 1 : rest[i] = writes[i + 1] /\ i + 1 \in 1 .. n
      /\ Head(writes) = writes[1] /\ Head(writes) \in FileWrite /\ 1 \in 1 .. n
  BY <1>1, <1>2, <1>3
<1>5. rest = <<>> <=> n = 1
  BY <1>2, <1>4
<1>6. rest # <<>> => /\ Head(rest) = writes[2] /\ 2 \in 1 .. n
                     /\ rest[n - 1] = writes[n]
  <2>1. ASSUME rest # <<>> PROVE n > 1
    BY <1>2, <1>5, <2>1
  <2>2. ASSUME rest # <<>>
        PROVE  /\ 1 \in 1 .. n - 1 /\ 1 + 1 = 2 /\ 2 \in 1 .. n
               /\ n - 1 \in 1 .. n - 1 /\ (n - 1) + 1 = n
    BY <1>2, <2>1, <2>2
  <2>3. rest # <<>> => Head(rest) = rest[1]
    BY <1>4
  <2> QED BY <1>4, <2>2, <2>3
<1> QED BY <1>1, <1>2, <1>3, <1>4, <1>5, <1>6

LEMMA WriteKeeps ==
    ASSUME LedgerInv, Write
    PROVE  (PendingInv /\ KeepInv)'
<1>1. /\ writes \in Seq(FileWrite) /\ writes # <<>> /\ mode = "live"
      /\ Head(writes) = writes[1] /\ 1 \in DOMAIN writes /\ Head(writes) \in FileWrite
      /\ writes' \in Seq(FileWrite)
      /\ Len(writes') = Len(writes) - 1 /\ Len(writes) \in Nat
      /\ \A i \in DOMAIN writes' : /\ writes'[i] = writes[i + 1] /\ i + 1 \in DOMAIN writes
                                   /\ i \in Nat /\ i > 0
      /\ writes' # <<>> =>
            /\ Head(writes') = writes[2] /\ 2 \in DOMAIN writes
            /\ writes'[Len(writes')] = writes[Len(writes)]
      /\ writes' = <<>> <=> Len(writes) = 1
  BY WriteTakes
<1>2. PICK w : w = Head(writes)
  OBVIOUS
<1>3. /\ log_file' = IF w.file = "log" THEN Append(log_file, w.content) ELSE log_file
      /\ ledger_db' = IF w.file = "ledger_db" THEN w.content ELSE ledger_db
      /\ UNCHANGED <<backend, mode, ledger, standby, boots, mishaps>>
      /\ IF Len(writes) = 1 /\ request # None
         THEN answered' = Append(answered, request) /\ request' = None
         ELSE UNCHANGED <<answered, request>>
  BY <1>2 DEF Write
<1>4. /\ answered \in Seq(Event) /\ log_file \in Seq(Event \cup {Torn})
      /\ ledger.event_log \in Seq(Event) /\ (request # None => request \in Event)
      /\ backend \in {"file", "replicated"}
  BY <1>1, LiveTyped, StoreAssumption DEF LedgerInv, TypeInv, TypeOK
<1>5. /\ Range(log_file) \subseteq Range(ledger.event_log)
      /\ request # None => writes[Len(writes)].file = "ledger_db"
      /\ \A i \in DOMAIN writes : PendingWrite(i)
      /\ backend = "file" => log_file = <<>>
  BY <1>1 DEF LedgerInv, PendingInv
<1>6. Unbroken' <=> Unbroken
  BY <1>3 DEF Unbroken
<1>7. w \in FileWrite /\ PendingWrite(1) /\ w = writes[1]
  BY <1>1, <1>2, <1>5
<1>8. w.file = "log" => backend = "replicated" /\ w.content \in Event
  BY <1>7, WriteKinds DEF PendingWrite
<1> DEFINE E == Event \cup {Torn}
<1>9. /\ answered \in Seq(E) /\ ledger.event_log \in Seq(E) /\ log_file \in Seq(E)
      /\ request # None => request \in E
      /\ w.file = "log" => w.content \in E
  BY <1>4, <1>8
<1>10. CASE Migrating
  <2>1. /\ request = None /\ w.file = "log" /\ backend = "replicated"
        /\ Len(log_file) + Len(writes) = Len(ledger.event_log)
        /\ \A i \in DOMAIN log_file : log_file[i] = ledger.event_log[i]
        /\ \A i \in DOMAIN writes : writes[i] = LineWrite(ledger.event_log[Len(log_file) + i])
    BY <1>1, <1>2, <1>8, <1>10 DEF Migrating, LedgerInv, PendingInv
  <2>2. answered' = answered /\ request' = None
    BY <1>3, <2>1
  <2>3. PICK k \in Nat : k = Len(log_file) /\ DOMAIN log_file = 1 .. k
    BY <1>4
  <2>4. PICK n \in Nat : n = Len(writes) /\ DOMAIN writes = 1 .. n /\ n > 0
    BY <1>1
  <2>5. PICK log \in Seq(E) : log = ledger.event_log
    BY <1>9
  <2>6. Len(log) = k + n /\ DOMAIN log = 1 .. k + n
    BY <2>1, <2>3, <2>4, <2>5
  <2>7. w.content = log[k + 1]
    <3>1. 1 \in DOMAIN writes
      BY <1>1
    <3> QED BY <1>7, <2>1, <2>3, <2>5, <3>1 DEF LineWrite
  <2>8. PICK lines \in Seq(E) : lines = Append(log_file, w.content)
    <3>1. PICK c \in E : c = w.content
      BY <1>9, <2>1
    <3> HIDE DEF E
    <3>2. Append(log_file, c) \in Seq(E)
      BY <1>9
    <3> QED BY <3>1, <3>2
  <2>9. /\ Len(lines) = k + 1 /\ DOMAIN lines = 1 .. k + 1
        /\ \A i \in 1 .. k : lines[i] = log_file[i]
        /\ lines[k + 1] = w.content
    BY <1>9, <2>1, <2>3, <2>8
  <2>10. \A i \in 1 .. k + 1 : lines[i] = log[i] /\ i \in DOMAIN log
    <3>1. \A i \in 1 .. k + 1 : i \in 1 .. k \/ i = k + 1
      OBVIOUS
    <3>2. \A i \in 1 .. k + 1 : i \in DOMAIN log
      BY <2>4, <2>6
    <3> QED BY <2>1, <2>3, <2>5, <2>7, <2>9, <3>1, <3>2
  <2>11. log_file' = lines
    BY <1>3, <2>1, <2>8
  <2>12. Range(lines) \subseteq Range(log)
    BY <2>9, <2>10 DEF Range
  <2>13. \A i \in DOMAIN writes' : writes'[i] = LineWrite(log[(k + 1) + i])
    <3>1. ASSUME NEW i \in DOMAIN writes' PROVE writes'[i] = LineWrite(log[(k + 1) + i])
      <4>1. writes'[i] = writes[i + 1] /\ i + 1 \in DOMAIN writes /\ i \in Nat
        BY <1>1
      <4>2. k + (i + 1) = (k + 1) + i
        BY <4>1
      <4>3. writes[i + 1] = LineWrite(log[k + (i + 1)])
        BY <2>1, <2>3, <2>5, <4>1
      <4> QED BY <4>1, <4>2, <4>3
    <3> QED BY <3>1
  <2>14. writes' # <<>> => Migrating'
    <3>1. ASSUME writes' # <<>> PROVE Head(writes').file = "log"
      <4>1. Head(writes') = writes[2] /\ 2 \in DOMAIN writes
        BY <1>1, <3>1
      <4>2. writes[2] = LineWrite(ledger.event_log[Len(log_file) + 2])
        BY <2>1, <4>1
      <4> QED BY <4>1, <4>2 DEF LineWrite
    <3> QED BY <2>2, <3>1 DEF Migrating
  <2>15. PendingInv'
    <3>1. \A i \in DOMAIN writes' : PendingWrite(i)'
      <4>1. ASSUME NEW i \in DOMAIN writes' PROVE PendingWrite(i)'
        <5>1. writes'[i].file = "log"
          BY <2>13, <4>1 DEF LineWrite
        <5>2. writes' # <<>>
          <6>1. writes' = <<>> => DOMAIN writes' = {}
            OBVIOUS
          <6> QED BY <4>1, <6>1
        <5>3. Migrating'
          BY <2>14, <5>2
        <5> QED BY <1>3, <2>1, <5>1, <5>3 DEF PendingWrite
      <4> QED BY <4>1
    <3>2. Len(log_file') + Len(writes') = Len(ledger'.event_log)
      <4>1. Len(log_file') = k + 1 /\ Len(writes') = n - 1 /\ Len(ledger'.event_log) = k + n
        BY <1>1, <1>3, <2>4, <2>5, <2>6, <2>9, <2>11
      <4> QED BY <4>1
    <3>3. \A i \in DOMAIN log_file' : log_file'[i] = ledger'.event_log[i]
      BY <1>3, <2>5, <2>9, <2>10, <2>11
    <3>4. \A i \in DOMAIN writes' : writes'[i] = LineWrite(ledger'.event_log[Len(log_file') + i])
      <4>1. Len(log_file') = k + 1 /\ ledger'.event_log = log
        BY <1>3, <2>5, <2>9, <2>11
      <4> QED BY <2>13, <4>1
    <3>5. Range(log_file') \subseteq Range(ledger'.event_log)
      BY <1>3, <2>5, <2>11, <2>12
    <3> QED BY <1>1, <1>3, <2>1, <2>2, <3>1, <3>2, <3>3, <3>4, <3>5 DEF PendingInv
  <2>16. ASSUME Unbroken' PROVE DiskKeeps' /\ MemoryKeeps'
    <3>1. Kept(answered, log)
      BY <1>1, <1>6, <2>5, <2>16 DEF LedgerInv, KeepInv, MemoryKeeps
    <3>2. MemoryKeeps'
      BY <1>3, <2>2, <2>5, <3>1 DEF MemoryKeeps
    <3>3. writes' = <<>> => Kept(answered, lines)
      <4>1. ASSUME writes' = <<>> PROVE lines = log
        <5>1. Len(writes) = 1
          BY <1>1, <4>1
        <5>2. Len(log) = k + 1 /\ DOMAIN log = 1 .. k + 1
          BY <2>4, <2>6, <5>1
        <5>3. \A i \in 1 .. k + 1 : lines[i] = log[i]
          BY <2>10
        <5> QED BY <2>9, <5>2, <5>3
      <4> QED BY <3>1, <4>1
    <3>4. writes' = <<>> \/ Migrating'
      BY <2>14
    <3> QED BY <1>1, <1>3, <2>1, <2>2, <2>11, <3>2, <3>3, <3>4 DEF DiskKeeps
  <2> QED BY <2>15, <2>16 DEF KeepInv
<1>11. CASE ~ Migrating /\ w.file = "log"
  <2>1. /\ backend = "replicated" /\ request # None /\ w.content = request /\ request \in Event
    BY <1>4, <1>7, <1>8, <1>11 DEF PendingWrite
  <2>2. Len(writes) # 1
    <3>1. writes[Len(writes)].file = "ledger_db"
      BY <1>5, <2>1
    <3>2. w.file # "ledger_db"
      BY <1>11
    <3> QED BY <1>7, <3>1, <3>2
  <2>3. answered' = answered /\ request' = request /\ log_file' = Append(log_file, request)
    BY <1>3, <1>11, <2>1, <2>2
  <2>4. ~ Migrating'
    BY <2>1, <2>3 DEF Migrating
  <2>5. writes' # <<>> /\ writes'[Len(writes')].file = "ledger_db"
    BY <1>1, <1>5, <2>1, <2>2
  <2>6. \A i \in DOMAIN writes' : writes'[i].file # "log"
    <3>1. ASSUME NEW i \in DOMAIN writes' PROVE writes'[i].file # "log"
      <4>1. writes'[i] = writes[i + 1] /\ i + 1 \in DOMAIN writes /\ i + 1 # 1
        BY <1>1
      <4>2. PendingWrite(i + 1)
        BY <1>5, <4>1
      <4> QED BY <1>11, <4>1, <4>2 DEF PendingWrite
    <3> QED BY <3>1
  <2>7. \A i \in DOMAIN writes' : PendingWrite(i)'
    <3>1. ASSUME NEW i \in DOMAIN writes' PROVE PendingWrite(i)'
      <4>1. writes'[i] = writes[i + 1] /\ i + 1 \in DOMAIN writes
        BY <1>1
      <4>2. PendingWrite(i + 1)
        BY <1>5, <4>1
      <4> QED BY <1>3, <2>6, <4>1, <4>2 DEF PendingWrite
    <3> QED BY <3>1
  <2>8. Range(log_file') = Range(log_file) \cup {request}
    BY <1>9, <2>1, <2>3, RangeAppends
  <2>9. ASSUME Unbroken' PROVE DiskKeeps' /\ MemoryKeeps'
    <3>1. /\ Kept(answered, ledger.event_log)
          /\ Kept(Append(answered, request), ledger.event_log)
          /\ request \notin Range(log_file)
          /\ Kept(answered, log_file)
      BY <1>1, <1>2, <1>6, <1>11, <2>1, <2>9
         DEF LedgerInv, KeepInv, MemoryKeeps, DiskKeeps
    <3>2. request \notin Range(answered)
      BY <3>1 DEF Kept
    <3>3. Kept(answered, log_file') /\ Kept(Append(answered, request), log_file')
      <4>1. Kept(answered, Append(log_file, request))
        BY <1>9, <2>1, <3>1, <3>2, KeptLine
      <4>2. Kept(Append(answered, request), Append(log_file, request))
        BY <1>9, <2>1, <3>1, KeptBoth
      <4> QED BY <2>3, <4>1, <4>2
    <3>4. Head(writes').file # "log"
      <4>1. Head(writes') = writes'[1] /\ 1 \in DOMAIN writes'
        BY <1>1, <2>5
      <4> QED BY <2>6, <4>1
    <3>5. MemoryKeeps'
      BY <1>3, <2>1, <2>3, <3>1, <3>3, <3>4 DEF MemoryKeeps
    <3>6. DiskKeeps'
      BY <1>1, <1>3, <2>1, <2>3, <3>3 DEF DiskKeeps
    <3> QED BY <3>5, <3>6
  <2>10. request \in Range(ledger.event_log)
    BY <1>1, <2>1 DEF LedgerInv, PendingInv
  <2>11. PendingInv'
    <3>1. Range(log_file') \subseteq Range(ledger'.event_log)
      BY <1>3, <1>5, <2>8, <2>10
    <3>2. request \in Range(ledger'.event_log) /\ request' = request
      BY <1>3, <2>3, <2>10
    <3>3. backend = "replicated" /\ backend' = backend
      BY <1>3, <2>1
    <3> QED BY <1>1, <1>3, <2>4, <2>5, <2>7, <3>1, <3>2, <3>3 DEF PendingInv
  <2> QED BY <2>9, <2>11 DEF KeepInv
<1>12. CASE w.file # "log"
  <2>1. log_file' = log_file /\ ~ Migrating
    BY <1>2, <1>3, <1>12 DEF Migrating
  <2>2. \A i \in DOMAIN writes : writes[i].file # "log"
    <3>1. ASSUME NEW i \in DOMAIN writes PROVE writes[i].file # "log"
      <4>1. PendingWrite(i)
        BY <1>5
      <4>2. writes[1].file # "log"
        BY <1>7, <1>12
      <4> QED BY <2>1, <4>1, <4>2 DEF PendingWrite
    <3> QED BY <3>1
  <2>3. \A i \in DOMAIN writes' : writes'[i].file # "log"
    BY <1>1, <2>2
  <2>4. ~ Migrating'
    <3>1. writes' # <<>> => Head(writes') = writes[2] /\ 2 \in DOMAIN writes
      BY <1>1
    <3> QED BY <2>2, <3>1 DEF Migrating
  <2>5. \A i \in DOMAIN writes' : PendingWrite(i)'
    <3>1. ASSUME NEW i \in DOMAIN writes' PROVE PendingWrite(i)'
      <4>1. writes'[i] = writes[i + 1] /\ i + 1 \in DOMAIN writes
        BY <1>1
      <4>2. PendingWrite(i + 1)
        BY <1>5, <4>1
      <4> QED BY <1>3, <2>3, <4>1, <4>2 DEF PendingWrite
    <3> QED BY <3>1
  <2>6. request' # None =>
           /\ request' = request /\ answered' = answered /\ request \in Range(ledger.event_log)
           /\ writes' # <<>> /\ writes'[Len(writes')].file = "ledger_db"
    <3>1. ASSUME request' # None
          PROVE  request' = request /\ answered' = answered /\ Len(writes) # 1
      BY <1>3, <3>1
    <3>2. request # None => request \in Range(ledger.event_log)
      BY <1>1 DEF LedgerInv, PendingInv
    <3> QED BY <1>1, <1>5, <3>1, <3>2
  <2>7. PendingInv'
    BY <1>1, <1>3, <1>5, <2>1, <2>4, <2>5, <2>6 DEF PendingInv
  <2>8. w.file = "ledger_db" => SavedLog' = ledger.event_log
    <3>1. ASSUME w.file = "ledger_db" PROVE SavedLog' = ledger.event_log
      <4>1. w.content \in Ledger /\ ledger_db' = w.content
        BY <1>3, <1>7, <3>1, WriteKinds
      <4>2. w.content.event_log = ledger.event_log
        BY <1>7, <3>1 DEF PendingWrite
      <4> QED BY <4>1, <4>2, LedgerReads DEF SavedLog
    <3> QED BY <3>1
  <2>9. w.file # "ledger_db" => SavedLog' = SavedLog
    BY <1>3 DEF SavedLog
  <2>10. ASSUME Unbroken'
         PROVE  /\ DiskKeeps /\ MemoryKeeps
    BY <1>6, <2>10 DEF LedgerInv, KeepInv
  <2>11. CASE Len(writes) = 1 /\ request # None
    <3>1. answered' = Append(answered, request) /\ request' = None /\ request \in Event
      BY <1>3, <1>4, <2>11
    <3>2. w.file = "ledger_db"
      BY <1>5, <1>7, <2>11
    <3>3. ASSUME Unbroken' PROVE DiskKeeps' /\ MemoryKeeps'
      <4>1. /\ Kept(Append(answered, request), ledger.event_log)
            /\ backend = "replicated" => Kept(Append(answered, request), log_file)
        BY <1>1, <1>2, <1>12, <2>10, <2>11, <3>3 DEF MemoryKeeps
      <4>2. MemoryKeeps'
        BY <1>3, <3>1, <4>1 DEF MemoryKeeps
      <4>3. DiskKeeps'
        BY <1>1, <1>3, <1>4, <2>1, <2>8, <3>1, <3>2, <4>1 DEF DiskKeeps
      <4> QED BY <4>2, <4>3
    <3> QED BY <2>7, <3>3 DEF KeepInv
  <2>12. CASE ~ (Len(writes) = 1 /\ request # None)
    <3>1. answered' = answered /\ request' = request
      BY <1>3, <2>12
    <3>2. ASSUME Unbroken' PROVE DiskKeeps' /\ MemoryKeeps'
      <4>1. DiskKeeps /\ MemoryKeeps
        BY <2>10, <3>2
      <4>2. backend = "file" => Kept(answered, SavedLog')
        BY <1>1, <2>8, <2>9, <4>1 DEF DiskKeeps, MemoryKeeps
      <4>3. backend = "replicated" => Kept(answered, log_file)
        BY <1>1, <2>1, <4>1 DEF DiskKeeps
      <4>4. DiskKeeps'
        BY <1>1, <1>3, <1>4, <2>1, <3>1, <4>2, <4>3 DEF DiskKeeps
      <4>5. Head(writes).file # "log" /\ (request' # None => Head(writes').file # "log")
        BY <1>1, <1>2, <1>12, <2>2, <2>6
      <4>6. MemoryKeeps'
        <5>1. Kept(answered, ledger.event_log)
          BY <1>1, <4>1 DEF MemoryKeeps
        <5>2. request # None =>
                 /\ Kept(Append(answered, request), ledger.event_log)
                 /\ backend = "replicated" => Kept(Append(answered, request), log_file)
          BY <1>1, <4>1, <4>5 DEF MemoryKeeps
        <5> QED BY <1>3, <2>1, <3>1, <4>5, <5>1, <5>2 DEF MemoryKeeps
      <4> QED BY <4>4, <4>6
    <3> QED BY <2>7, <3>2 DEF KeepInv
  <2> QED BY <2>11, <2>12
<1> QED BY <1>10, <1>11, <1>12

LEMMA LedgerStep ==
    ASSUME LedgerInv, [Next]_vars
    PROVE  LedgerInv'
<1>0. TypeInv'
  BY TypeStep DEF LedgerInv
<1>1. CASE Boot BY <1>0, <1>1, BootKeeps DEF LedgerInv
<1>2. CASE Request
  BY <1>0, <1>2, RequestEvents, RequestKeeps DEF Request, LedgerInv
<1>3. CASE Remember BY <1>0, <1>3, RememberKeeps DEF LedgerInv
<1>4. CASE Amend BY <1>0, <1>4, AmendKeeps DEF LedgerInv
<1>5. CASE SaveOnly BY <1>0, <1>5, SaveOnlyKeeps DEF LedgerInv
<1>6. CASE Write BY <1>0, <1>6, WriteKeeps DEF LedgerInv
<1>7. CASE Crash BY <1>0, <1>7, CrashKeeps DEF LedgerInv
<1>8. CASE AdmitOrphans \/ DeleteSnapshot BY <1>0, <1>8, OperatorKeeps DEF LedgerInv
<1>9. CASE StandbyStep \/ UNCHANGED vars BY <1>0, <1>9, StandbyStepKeeps DEF LedgerInv
<1> QED BY <1>1, <1>2, <1>3, <1>4, <1>5, <1>6, <1>7, <1>8, <1>9 DEF Next, StandbyStep

\* Whatever event the node answered, every later boot has it in its log, once and in the order
\* of the answers: applyEvent, recordEvent and saveSnapshot, each interrupted anywhere.
THEOREM AnswersSurvive == Spec => []AnsweredEventsSurvive
<1>1. Init => LedgerInv
  BY InitKeeps
<1>2. LedgerInv /\ [Next]_vars => LedgerInv'
  BY LedgerStep
<1>3. LedgerInv => AnsweredEventsSurvive
  BY DEF LedgerInv, KeepInv, Unbroken, MemoryKeeps, AnsweredEventsSurvive
<1> QED BY <1>1, <1>2, <1>3, PTL DEF Spec

-----------------------------------------------------------------------------
(* What the events of a log tell about accounts. *)

LEMMA LogSplits ==
    ASSUME NEW log \in Seq(Event), log # <<>>
    PROVE  \E front \in Seq(Event), e \in Event :
              log = Append(front, e) /\ Len(front) + 1 = Len(log)
<1>1. PICK n : n = Len(log)
  OBVIOUS
<1>2. n \in Nat /\ n > 0 /\ \A i \in 1 .. n : log[i] \in Event
  BY <1>1
<1>3. n - 1 \in Nat /\ n \in 1 .. n /\ \A i \in 1 .. n : i = n \/ i \in 1 .. n - 1
  BY <1>2
<1>4. PICK front : front = [i \in 1 .. n - 1 |-> log[i]]
  OBVIOUS
<1>5. front \in Seq(Event) /\ Len(front) = n - 1 /\ \A i \in 1 .. n - 1 : front[i] = log[i]
  BY <1>2, <1>3, <1>4
<1>6. PICK e : e = log[n]
  OBVIOUS
<1>7. e \in Event
  BY <1>2, <1>3, <1>6
<1>8. PICK x : x = Append(front, e)
  OBVIOUS
<1>9. /\ x \in Seq(Event) /\ Len(x) = n /\ x[n] = log[n]
      /\ \A i \in 1 .. n - 1 : x[i] = log[i]
  BY <1>2, <1>3, <1>5, <1>6, <1>7, <1>8
<1>10. \A i \in 1 .. n : x[i] = log[i]
  BY <1>3, <1>9
<1>11. x = log
  BY <1>1, <1>9, <1>10
<1> QED BY <1>1, <1>2, <1>5, <1>7, <1>8, <1>11

LEMMA EventsOf ==
    ASSUME NEW log \in Seq(Event), NEW e \in Event
    PROVE  /\ Known(Append(log, e)) =
                 Known(log) \cup (IF e.type = "GENESIS" THEN {e.account} ELSE {})
           /\ Admitted(Append(log, e)) =
                 Admitted(log) \cup
                 (IF e.type = "ACCOUNT_PROVENANCE_ADMISSION" THEN {e.account} ELSE {})
<1> DEFINE n == Len(log)
<1>1. PICK longer : longer = Append(log, e)
  OBVIOUS
<1>2. /\ n \in Nat /\ DOMAIN log = 1 .. n /\ DOMAIN longer = 1 .. n + 1
      /\ \A i \in 1 .. n : longer[i] = log[i]
      /\ longer[n + 1] = e
      /\ 1 .. n + 1 = (1 .. n) \cup {n + 1}
  BY <1>1
<1>3. Known(longer) = Known(log) \cup (IF e.type = "GENESIS" THEN {e.account} ELSE {})
  BY <1>2 DEF Known
<1>4. Admitted(longer) = Admitted(log) \cup
         (IF e.type = "ACCOUNT_PROVENANCE_ADMISSION" THEN {e.account} ELSE {})
  BY <1>2 DEF Admitted
<1> QED BY <1>1, <1>3, <1>4

LEMMA EventsOfNone == Known(<<>>) = {} /\ Admitted(<<>>) = {} /\ Replay(<<>>) = NoAccounts
<1>1. Known(<<>>) = {} /\ Admitted(<<>>) = {}
  BY DEF Known, Admitted
<1>2. PICK none : none = <<>>
  OBVIOUS
<1>3. none \in Seq(Event) /\ Len(none) = 0
  BY <1>2
<1>4. PICK states : ReplayStates(none, states) /\ Replay(none) = states[Len(none)]
  BY <1>3, ReplayUnfolds
<1>5. Replay(none) = NoAccounts
  BY <1>3, <1>4 DEF ReplayStates
<1> QED BY <1>1, <1>2, <1>5

LEMMA WithIs ==
    ASSUME NEW accounts \in Accounts, NEW x, NEW record
    PROVE  /\ DOMAIN With(accounts, x, record) = DOMAIN accounts \cup {x}
           /\ With(accounts, x, record)[x] = record
           /\ \A a \in DOMAIN accounts : a # x => With(accounts, x, record)[a] = accounts[a]
  BY DEF With

\* What an event does, by its type.
LEMMA ApplyEventIs ==
    ASSUME NEW accounts \in Accounts, NEW e \in Event
    PROVE  /\ e.type = "GENESIS" =>
                 ApplyEvent(accounts, e)
                    = With(accounts, e.account, [balance |-> 1000, credential |-> TRUE])
           /\ e.type = "ACCOUNT_PROVENANCE_ADMISSION" =>
                 /\ e.account \notin DOMAIN accounts =>
                       ApplyEvent(accounts, e) = With(accounts, e.account, e.state)
                 /\ e.account \in DOMAIN accounts => ApplyEvent(accounts, e) = accounts
                 /\ ~ e.state.credential
           /\ e.type \notin {"GENESIS", "ACCOUNT_PROVENANCE_ADMISSION"} =>
                 ApplyEvent(accounts, e) = accounts
           /\ e.type \in {"SYSTEM_GENESIS", "GENESIS", "PASSKEY_ADDED",
                          "ACCOUNT_PROVENANCE_ADMISSION"}
<1>1. e.type \in {"SYSTEM_GENESIS", "GENESIS", "PASSKEY_ADDED", "ACCOUNT_PROVENANCE_ADMISSION"}
  BY DEF Event
<1>2. e.type = "ACCOUNT_PROVENANCE_ADMISSION" => ~ e.state.credential
  BY DEF Event
<1>3. e.type = "GENESIS" =>
         ApplyEvent(accounts, e)
            = With(accounts, e.account, [balance |-> 1000, credential |-> TRUE])
  BY Zenon DEF ApplyEvent
<1>4. e.type = "ACCOUNT_PROVENANCE_ADMISSION" =>
         /\ e.account \notin DOMAIN accounts =>
               ApplyEvent(accounts, e) = With(accounts, e.account, e.state)
         /\ e.account \in DOMAIN accounts => ApplyEvent(accounts, e) = accounts
  BY DEF ApplyEvent
<1>5. e.type \notin {"GENESIS", "ACCOUNT_PROVENANCE_ADMISSION"} =>
         ApplyEvent(accounts, e) = accounts
  BY DEF ApplyEvent
<1> QED BY <1>1, <1>2, <1>3, <1>4, <1>5

\* The accounts are those that a log registers or admits; the registered have a credential.
Tells(log, accounts) ==
    /\ DOMAIN accounts = Known(log) \cup Admitted(log)
    /\ \A a \in DOMAIN accounts : accounts[a].credential <=> a \in Known(log)

LEMMA TellsNext ==
    ASSUME NEW log \in Seq(Event), NEW e \in Event, NEW accounts \in Accounts,
           Tells(log, accounts)
    PROVE  Tells(Append(log, e), ApplyEvent(accounts, e))
<1>1. PICK more : more = Append(log, e)
  OBVIOUS
<1>2. PICK next : next = ApplyEvent(accounts, e)
  OBVIOUS
<1>3. /\ Known(more) = Known(log) \cup (IF e.type = "GENESIS" THEN {e.account} ELSE {})
      /\ Admitted(more) = Admitted(log) \cup
            (IF e.type = "ACCOUNT_PROVENANCE_ADMISSION" THEN {e.account} ELSE {})
  BY <1>1, EventsOf
<1>4. /\ DOMAIN accounts = Known(log) \cup Admitted(log)
      /\ \A a \in DOMAIN accounts : accounts[a].credential <=> a \in Known(log)
  BY DEF Tells
<1>5. CASE e.type = "GENESIS"
  <2> DEFINE record == [balance |-> 1000, credential |-> TRUE]
  <2>1. PICK x : x = e.account
    OBVIOUS
  <2>2. next = With(accounts, x, record)
    BY <1>2, <1>5, <2>1, ApplyEventIs
  <2>3. /\ DOMAIN next = DOMAIN accounts \cup {x} /\ next[x] = record
        /\ \A a \in DOMAIN accounts : a # x => next[a] = accounts[a]
    BY <2>2 DEF With
  <2>4. record.credential
    OBVIOUS
  <2>5. Known(more) = Known(log) \cup {x} /\ Admitted(more) = Admitted(log)
    BY <1>3, <1>5, <2>1
  <2>6. DOMAIN next = Known(more) \cup Admitted(more)
    BY <1>4, <2>3, <2>5
  <2>7. \A a \in DOMAIN next : next[a].credential <=> a \in Known(more)
    BY <1>4, <2>3, <2>4, <2>5
  <2> QED BY <1>1, <1>2, <2>6, <2>7 DEF Tells
<1>6. CASE e.type = "ACCOUNT_PROVENANCE_ADMISSION"
  <2>1. PICK x : x = e.account
    OBVIOUS
  <2>2. Known(more) = Known(log) /\ Admitted(more) = Admitted(log) \cup {x}
    BY <1>3, <1>6, <2>1
  <2>3. CASE x \notin DOMAIN accounts
    <3>1. next = With(accounts, x, e.state) /\ ~ e.state.credential
      BY <1>2, <1>6, <2>1, <2>3, ApplyEventIs
    <3>2. /\ DOMAIN next = DOMAIN accounts \cup {x} /\ next[x] = e.state
          /\ \A a \in DOMAIN accounts : a # x => next[a] = accounts[a]
      BY <3>1 DEF With
    <3>3. \A a \in DOMAIN next : next[a].credential <=> a \in Known(more)
      BY <1>4, <2>2, <2>3, <3>1, <3>2
    <3> QED BY <1>1, <1>2, <1>4, <2>2, <3>2, <3>3 DEF Tells
  <2>4. CASE x \in DOMAIN accounts
    <3>1. next = accounts
      BY <1>2, <1>6, <2>1, <2>4, ApplyEventIs
    <3> QED BY <1>1, <1>2, <1>4, <2>2, <2>4, <3>1 DEF Tells
  <2> QED BY <2>3, <2>4
<1>7. CASE e.type \notin {"GENESIS", "ACCOUNT_PROVENANCE_ADMISSION"}
  <2>1. next = accounts
    BY <1>2, <1>7, ApplyEventIs
  <2>2. Known(more) = Known(log) /\ Admitted(more) = Admitted(log)
    BY <1>3, <1>7
  <2> QED BY <1>1, <1>2, <1>4, <2>1, <2>2 DEF Tells
<1> QED BY <1>5, <1>6, <1>7

LEMMA ReplayTells ==
    ASSUME NEW log \in Seq(Event)
    PROVE  Tells(log, Replay(log))
<1> DEFINE T == {n \in Nat : \A l \in Seq(Event) : Len(l) = n => Tells(l, Replay(l))}
<1>1. 0 \in T
  <2>1. ASSUME NEW l \in Seq(Event), Len(l) = 0 PROVE Tells(l, Replay(l))
    <3>1. l = <<>>
      BY <2>1
    <3>2. DOMAIN NoAccounts = {}
      BY DEF NoAccounts
    <3> QED BY <3>1, <3>2, EventsOfNone DEF Tells
  <2> QED BY <2>1
<1>2. ASSUME NEW n \in Nat, n \in T PROVE n + 1 \in T
  <2>1. ASSUME NEW l \in Seq(Event), Len(l) = n + 1 PROVE Tells(l, Replay(l))
    <3>1. l # <<>>
      BY <2>1
    <3>2. PICK front \in Seq(Event), e \in Event :
             l = Append(front, e) /\ Len(front) + 1 = Len(l)
      BY <3>1, LogSplits
    <3>3. Len(front) = n
      BY <2>1, <3>2
    <3>4. Tells(front, Replay(front))
      BY <1>2, <3>3
    <3>5. Replay(front) \in Accounts /\ Replay(l) = ApplyEvent(Replay(front), e)
      BY <3>2, ReplayType, ReplayAppends
    <3> QED BY <3>2, <3>4, <3>5, TellsNext
  <2> QED BY <2>1
<1>3. Nat \subseteq T
  <2> HIDE DEF T
  <2> QED BY <1>1, <1>2, InductionOnSet
<1>4. Len(log) \in Nat
  OBVIOUS
<1> QED BY <1>3, <1>4

LEMMA EventsOfBoth ==
    ASSUME NEW log \in Seq(Event), NEW more \in Seq(Event)
    PROVE  /\ Known(log \o more) = Known(log) \cup Known(more)
           /\ Admitted(log \o more) = Admitted(log) \cup Admitted(more)
           /\ Range(log \o more) = Range(log) \cup Range(more)
<1>1. PICK all : all = log \o more
  OBVIOUS
<1>2. PICK n : n = Len(log)
  OBVIOUS
<1>3. PICK m : m = Len(more)
  OBVIOUS
<1>4. /\ n \in Nat /\ m \in Nat /\ DOMAIN log = 1 .. n /\ DOMAIN more = 1 .. m
      /\ DOMAIN all = 1 .. n + m
      /\ \A i \in 1 .. n : all[i] = log[i]
      /\ \A i \in 1 .. m : all[n + i] = more[i]
  BY <1>1, <1>2, <1>3
<1>5. /\ \A i \in DOMAIN log : i \in DOMAIN all /\ all[i] = log[i]
      /\ \A i \in DOMAIN more : \E j \in DOMAIN all : all[j] = more[i]
  <2>1. \A i \in 1 .. m : n + i \in 1 .. n + m
    BY <1>4
  <2>2. \A i \in 1 .. n : i \in 1 .. n + m
    BY <1>4
  <2> QED BY <1>4, <2>1, <2>2
<1>6. \A j \in DOMAIN all : \/ j \in DOMAIN log /\ all[j] = log[j]
                            \/ \E i \in DOMAIN more : all[j] = more[i]
  <2>1. ASSUME NEW j \in 1 .. n + m, j \notin 1 .. n
        PROVE  \E i \in DOMAIN more : all[j] = more[i]
    <3>1. PICK i : i = j - n
      OBVIOUS
    <3>2. i \in 1 .. m /\ n + i = j
      BY <1>4, <2>1, <3>1
    <3> QED BY <1>4, <3>2
  <2> QED BY <1>4, <2>1
<1>7. Known(all) = Known(log) \cup Known(more)
  BY <1>5, <1>6 DEF Known
<1>8. Admitted(all) = Admitted(log) \cup Admitted(more)
  BY <1>5, <1>6 DEF Admitted
<1>9. Range(all) = Range(log) \cup Range(more)
  BY <1>5, <1>6 DEF Range
<1> QED BY <1>1, <1>7, <1>8, <1>9

LEMMA ReplayDomain ==
    ASSUME NEW log \in Seq(Event)
    PROVE  /\ DOMAIN Replay(log) = Known(log) \cup Admitted(log)
           /\ \A a \in DOMAIN Replay(log) :
                 Replay(log)[a] \in Account /\ (Replay(log)[a].credential <=> a \in Known(log))
  BY ReplayTells, ReplayType, AccountsWithin DEF Tells

\* The administrator's genesis tells nothing.
LEMMA SilentReplay ==
    ASSUME NEW log \in Seq(Event)
    PROVE  Replay(<<SystemGenesis>> \o log) = Replay(log)
<1> DEFINE g == SystemGenesis
           T == {n \in Nat : \A l \in Seq(Event) : Len(l) = n => Replay(<<g>> \o l) = Replay(l)}
<1>1. g \in Event /\ g.type = "SYSTEM_GENESIS"
  BY SystemGenesisType DEF SystemGenesis
<1> HIDE DEF g
<1>2. 0 \in T
  <2>1. PICK none : none = <<>>
    OBVIOUS
  <2>2. none \in Seq(Event) /\ <<g>> = Append(none, g)
    BY <1>1, <2>1
  <2>3. Replay(none) = NoAccounts /\ NoAccounts \in Accounts
    BY <2>1, EventsOfNone, NoAccountsType
  <2>4. Replay(<<g>>) = ApplyEvent(NoAccounts, g)
    BY <1>1, <2>2, <2>3, ReplayAppends
  <2>5. ApplyEvent(NoAccounts, g) = NoAccounts
    BY <1>1, <2>3, ApplyEventIs
  <2>6. ASSUME NEW l \in Seq(Event), Len(l) = 0 PROVE Replay(<<g>> \o l) = Replay(l)
    <3>1. l = none /\ <<g>> \o l = <<g>>
      BY <1>1, <2>1, <2>6
    <3> QED BY <2>3, <2>4, <2>5, <3>1
  <2> QED BY <2>6
<1>3. ASSUME NEW n \in Nat, n \in T PROVE n + 1 \in T
  <2>1. ASSUME NEW l \in Seq(Event), Len(l) = n + 1 PROVE Replay(<<g>> \o l) = Replay(l)
    <3>1. l # <<>>
      BY <2>1
    <3>2. PICK front \in Seq(Event), e \in Event :
             l = Append(front, e) /\ Len(front) + 1 = Len(l)
      BY <3>1, LogSplits
    <3>3. Len(front) = n
      BY <2>1, <3>2
    <3>4. PICK longer : longer = <<g>> \o front
      OBVIOUS
    <3>5. longer \in Seq(Event) /\ <<g>> \o Append(front, e) = Append(longer, e)
      BY <1>1, <3>4
    <3>6. Replay(longer) = Replay(front)
      BY <1>3, <3>3, <3>4
    <3>7. Replay(Append(longer, e)) = ApplyEvent(Replay(longer), e)
      BY <3>5, ReplayAppends
    <3>8. Replay(Append(front, e)) = ApplyEvent(Replay(front), e)
      BY ReplayAppends
    <3> QED BY <3>2, <3>5, <3>6, <3>7, <3>8
  <2> QED BY <2>1
<1>4. Nat \subseteq T
  <2> HIDE DEF T
  <2> QED BY <1>2, <1>3, InductionOnSet
<1>5. Len(log) \in Nat
  OBVIOUS
<1> QED BY <1>4, <1>5 DEF g

LEMMA SystemGenesisSilent ==
    ASSUME NEW log \in Seq(Event)
    PROVE  /\ <<SystemGenesis>> \o log \in Seq(Event)
           /\ Replay(<<SystemGenesis>> \o log) = Replay(log)
           /\ Known(<<SystemGenesis>> \o log) = Known(log)
           /\ Replayable(<<SystemGenesis>> \o log) => Replayable(log)
<1>1. PICK g : g = SystemGenesis
  OBVIOUS
<1>2. g \in Event /\ g.type = "SYSTEM_GENESIS"
  BY <1>1, SystemGenesisType DEF SystemGenesis
<1>3. PICK all : all = <<g>> \o log
  OBVIOUS
<1>4. PICK one : one = <<g>>
  OBVIOUS
<1>5. PICK n : n = Len(log)
  OBVIOUS
<1>6. one \in Seq(Event) /\ DOMAIN one = {1} /\ one[1] = g /\ all = one \o log
  BY <1>2, <1>3, <1>4
<1>7. /\ n \in Nat /\ all \in Seq(Event) /\ Len(all) = n + 1
      /\ \A i \in 1 .. n : all[i + 1] = log[i]
      /\ DOMAIN all = 1 .. n + 1 /\ DOMAIN log = 1 .. n /\ all[1] = g
  BY <1>2, <1>3, <1>5
<1>8. Known(all) = Known(log)
  <2>1. Known(one) = {}
    BY <1>2, <1>6 DEF Known
  <2>2. Known(all) = Known(one) \cup Known(log)
    BY <1>6, EventsOfBoth
  <2> QED BY <2>1, <2>2
<1>9. ASSUME Replayable(all) PROVE Replayable(log)
  <2>1. ASSUME NEW i \in 1 .. n PROVE Applies(Replay(SubSeq(log, 1, i - 1)), log[i])
    <3>1. PICK less : less = SubSeq(log, 1, i - 1)
      OBVIOUS
    <3>2. PICK more : more = SubSeq(all, 1, (i + 1) - 1)
      OBVIOUS
    <3>3. /\ less \in Seq(Event) /\ Len(less) = i - 1
          /\ \A j \in 1 .. i - 1 : less[j] = log[j]
      BY <1>5, <1>7, <3>1
    <3>4. more \in Seq(Event) /\ Len(more) = i /\ \A j \in 1 .. i : more[j] = all[j]
      BY <1>7, <3>2
    <3>5. PICK also : also = <<g>> \o less
      OBVIOUS
    <3>6. /\ also \in Seq(Event) /\ Len(also) = i /\ also[1] = g
          /\ \A j \in 1 .. i - 1 : also[j + 1] = less[j]
      BY <1>2, <3>3, <3>5
    <3>7. ASSUME NEW j \in 1 .. i PROVE also[j] = more[j]
      <4>1. CASE j = 1
        BY <1>7, <3>4, <3>6, <4>1
      <4>2. CASE j # 1
        <5>1. PICK k : k = j - 1
          OBVIOUS
        <5>2. k \in 1 .. i - 1 /\ k + 1 = j /\ k \in 1 .. n
          BY <1>7, <4>2, <5>1
        <5>3. also[j] = log[k]
          BY <3>3, <3>6, <5>2
        <5>4. more[j] = log[k]
          BY <1>7, <3>4, <5>2
        <5> QED BY <5>3, <5>4
      <4> QED BY <4>1, <4>2
    <3>8. also = more
      BY <3>4, <3>6, <3>7
    <3>9. Replay(more) = Replay(less)
      BY <1>1, <3>3, <3>5, <3>8, SilentReplay
    <3>10. i + 1 \in DOMAIN all /\ all[i + 1] = log[i]
      BY <1>7
    <3>11. Applies(Replay(SubSeq(all, 1, (i + 1) - 1)), all[i + 1])
      BY <1>9, <3>10, Zenon DEF Replayable
    <3> QED BY <3>1, <3>2, <3>9, <3>10, <3>11
  <2> QED BY <1>7, <2>1 DEF Replayable
<1>10. Replay(all) = Replay(log)
  BY <1>1, <1>3, SilentReplay
<1> QED BY <1>1, <1>3, <1>7, <1>8, <1>9, <1>10

LEMMA ReplayableMore ==
    ASSUME NEW log \in Seq(Event), NEW e \in Event, Replayable(log), Applies(Replay(log), e)
    PROVE  Replayable(Append(log, e))
<1>1. PICK all : all = Append(log, e)
  OBVIOUS
<1>2. PICK n : n = Len(log)
  OBVIOUS
<1>3. /\ n \in Nat /\ all \in Seq(Event) /\ Len(all) = n + 1 /\ all[n + 1] = e
      /\ \A i \in 1 .. n : all[i] = log[i]
      /\ DOMAIN all = 1 .. n + 1 /\ DOMAIN log = 1 .. n
  BY <1>1, <1>2
<1>4. ASSUME NEW i \in 1 .. n + 1 PROVE SubSeq(all, 1, i - 1) = SubSeq(log, 1, i - 1)
  <2>1. PICK a : a = SubSeq(all, 1, i - 1)
    OBVIOUS
  <2>2. PICK b : b = SubSeq(log, 1, i - 1)
    OBVIOUS
  <2>3. /\ a \in Seq(Event) /\ Len(a) = i - 1 /\ \A j \in 1 .. i - 1 : a[j] = all[j]
    BY <1>3, <2>1
  <2>4. /\ b \in Seq(Event) /\ Len(b) = i - 1 /\ \A j \in 1 .. i - 1 : b[j] = log[j]
    BY <1>2, <1>3, <2>2
  <2>5. \A j \in 1 .. i - 1 : a[j] = b[j]
    BY <1>3, <2>3, <2>4
  <2>6. a = b
    BY <2>3, <2>4, <2>5
  <2> QED BY <2>1, <2>2, <2>6
<1>5. SubSeq(log, 1, (n + 1) - 1) = log
  <2>1. (n + 1) - 1 = n
    BY <1>3
  <2>2. SubSeq(log, 1, n) = log
    BY <1>2
  <2> QED BY <2>1, <2>2
<1>6. ASSUME NEW i \in 1 .. n + 1 PROVE Applies(Replay(SubSeq(all, 1, i - 1)), all[i])
  <2>1. CASE i = n + 1
    <3>1. SubSeq(all, 1, i - 1) = log
      BY <1>4, <1>5, <2>1
    <3> QED BY <1>3, <2>1, <3>1
  <2>2. CASE i # n + 1
    <3>1. i \in DOMAIN log /\ all[i] = log[i]
      BY <1>3, <2>2
    <3>2. Applies(Replay(SubSeq(log, 1, i - 1)), log[i])
      BY <3>1, Zenon DEF Replayable
    <3>3. SubSeq(all, 1, i - 1) = SubSeq(log, 1, i - 1)
      BY <1>4
    <3> QED BY <3>1, <3>2, <3>3
  <2> QED BY <2>1, <2>2
<1> QED BY <1>1, <1>3, <1>6, Zenon DEF Replayable

Creds(accounts) == {a \in DOMAIN accounts : accounts[a].credential}

LEMMA SetToSeqCovers ==
    ASSUME NEW S, IsFiniteSet(S)
    PROVE  SetToSeq(S) \in Seq(S) /\ Range(SetToSeq(S)) = S
<1>1. Cardinality(S) \in Nat /\ ExistsBijection(1 .. Cardinality(S), S)
  BY FS_CardinalityType
<1>2. PICK g \in Bijection(1 .. Cardinality(S), S) : TRUE
  BY <1>1 DEF ExistsBijection
<1>3. /\ g \in [1 .. Cardinality(S) -> S] /\ IsInjective(g)
  BY <1>2 DEF Bijection, Injection
<1>4. SetToSeq(S) \in [1 .. Cardinality(S) -> S] /\ IsInjective(SetToSeq(S))
  BY <1>3, Zenon DEF SetToSeq
<1>5. PICK f : f = SetToSeq(S)
  OBVIOUS
<1>6. PICK n : n = Cardinality(S)
  OBVIOUS
<1>7. f \in [1 .. n -> S] /\ IsInjective(f) /\ n \in Nat
  BY <1>1, <1>4, <1>5, <1>6
<1>8. f \in Injection(1 .. n, S)
  BY <1>7, Zenon DEF Injection
<1>9. Cardinality(1 .. n) = n
  BY <1>7, FS_Interval
<1>10. f \in Surjection(1 .. n, S)
  BY <1>6, <1>8, <1>9, FS_Injection
<1>11. \A x \in S : \E i \in DOMAIN f : f[i] = x
  BY <1>7, <1>10 DEF Surjection
<1>12. Range(f) = S
  BY <1>7, <1>11 DEF Range
<1> QED BY <1>5, <1>7, <1>12

LEMMA RootIs ==
    ASSUME NEW accounts, NEW law
    PROVE  /\ StateRoot(accounts, law).balances = [a \in DOMAIN accounts |-> accounts[a].balance]
           /\ StateRoot(accounts, law).law = law
  BY DEF StateRoot

\* The backfill of a boot registers the accounts of the file that have a credential.
LEMMA HistoryTells ==
    ASSUME NEW b, b.accounts \in Accounts, b.event_log \in Seq(Event)
    PROVE  /\ History(b) \in Seq(Event)
           /\ Known(History(b)) = Known(b.event_log) \cup Creds(b.accounts)
           /\ Admitted(History(b)) = Admitted(b.event_log)
<1>1. PICK log : log = BaseLog(b)
  OBVIOUS
<1>2. PICK S : S = {a \in DOMAIN b.accounts : b.accounts[a].credential /\ a \notin Known(log)}
  OBVIOUS
<1>3. PICK T : T = {Backfilled(a) : a \in S}
  OBVIOUS
<1>4. History(b) = log \o SetToSeq(T)
  BY <1>1, <1>2, <1>3, Zenon DEF History, BaseLog, Backfilled
<1>5. /\ log \in Seq(Event) /\ Known(log) = Known(b.event_log)
      /\ Admitted(log) = Admitted(b.event_log)
  <2>1. CASE b.event_log # <<>>
    BY <1>1, <2>1 DEF BaseLog
  <2>2. CASE b.event_log = <<>>
    <3>1. PICK one : one = <<SystemGenesis>>
      OBVIOUS
    <3>2. one \in Seq(Event) /\ DOMAIN one = {1} /\ one[1].type = "SYSTEM_GENESIS"
      BY <3>1, SystemGenesisType DEF SystemGenesis
    <3>3. Known(one) = {} /\ Admitted(one) = {}
      BY <3>2 DEF Known, Admitted
    <3>4. log = one
      BY <1>1, <2>2, <3>1 DEF BaseLog
    <3> QED BY <2>2, <3>2, <3>3, <3>4, EventsOfNone
  <2> QED BY <2>1, <2>2
<1>6. T \subseteq Event
  BY ONLY b.accounts \in Accounts, <1>2, <1>3, <1>5, BackfillLists
<1>7. IsFiniteSet(T)
  <2>1. S \subseteq Names
    BY <1>2, AccountsWithin
  <2>2. IsFiniteSet(S)
    BY <2>1, NamesFinite, FS_Subset
  <2>3. PICK f : f = [a \in S |-> Backfilled(a)]
    OBVIOUS
  <2>4. f \in [S -> T] /\ \A t \in T : \E a \in S : f[a] = t
    BY <1>3, <2>3
  <2>5. f \in Surjection(S, T)
    BY <2>4, Zenon DEF Surjection
  <2> QED BY <2>2, <2>5, FS_Surjection
<1>8. PICK more : more = SetToSeq(T)
  OBVIOUS
<1>9. more \in Seq(Event) /\ Range(more) = T
  <2>1. more \in Seq(T) /\ Range(more) = T
    BY <1>7, <1>8, SetToSeqCovers
  <2> QED BY <1>6, <2>1
<1>10. Known(more) = S /\ Admitted(more) = {}
  <2>1. \A i \in DOMAIN more : \E a \in S : more[i] = Backfilled(a)
    BY <1>3, <1>9 DEF Range
  <2>2. \A a \in S : \E i \in DOMAIN more : more[i] = Backfilled(a)
    BY <1>3, <1>9 DEF Range
  <2>3. \A a : Backfilled(a).type = "GENESIS" /\ Backfilled(a).account = a
    BY DEF Backfilled
  <2>4. Known(more) = S
    BY <2>1, <2>2, <2>3 DEF Known
  <2>5. Admitted(more) = {}
    BY <2>1, <2>3 DEF Admitted
  <2> QED BY <2>4, <2>5
<1>11. History(b) = log \o more
  BY <1>4, <1>8
<1>12. /\ History(b) \in Seq(Event)
       /\ Known(History(b)) = Known(log) \cup S /\ Admitted(History(b)) = Admitted(log)
  <2>1. log \o more \in Seq(Event)
    BY <1>5, <1>9
  <2>2. Known(log \o more) = Known(log) \cup Known(more)
    BY <1>5, <1>9, EventsOfBoth
  <2>3. Admitted(log \o more) = Admitted(log) \cup Admitted(more)
    BY <1>5, <1>9, EventsOfBoth
  <2> QED BY <1>10, <1>11, <2>1, <2>2, <2>3
<1>13. Known(log) \cup S = Known(log) \cup Creds(b.accounts)
  BY <1>2 DEF Creds
<1> QED BY <1>5, <1>12, <1>13

LEMMA HistoryBare ==
    ASSUME NEW b, b.event_log \in Seq(Event), b.event_log # <<>>,
           Creds(b.accounts) \subseteq Known(b.event_log)
    PROVE  History(b) = b.event_log
<1>1. BaseLog(b) = b.event_log
  BY DEF BaseLog
<1>2. PICK S : S = {a \in DOMAIN b.accounts :
                      b.accounts[a].credential /\ a \notin Known(BaseLog(b))}
  OBVIOUS
<1>3. S = {}
  BY <1>1, <1>2 DEF Creds
<1>4. History(b) = BaseLog(b) \o SetToSeq({Backfilled(a) : a \in S})
  BY <1>2, Zenon DEF History, BaseLog, Backfilled
<1>5. {Backfilled(a) : a \in S} = {}
  BY <1>3
<1>6. PICK more : more = SetToSeq({})
  OBVIOUS
<1>7. more = <<>>
  <2>1. IsFiniteSet({})
    BY FS_EmptySet
  <2>2. more \in Seq({})
    BY <1>6, <2>1, SetToSeqLists
  <2> QED BY <2>2
<1>8. History(b) = b.event_log \o more
  BY <1>1, <1>4, <1>5, <1>6
<1> QED BY <1>7, <1>8

LEMMA BareBoots ==
    ASSUME NEW b, b.event_log \in Seq(Event), b.event_log # <<>>,
           Creds(b.accounts) \subseteq Known(b.event_log), Replayable(b.event_log),
           NEW c \in Nat, b.state_root \in {None, StateRoot(Replay(b.event_log), BootLaw(c))}
    PROVE  Boots(b, c) /\ History(b) = b.event_log
<1>1. History(b) = b.event_log
  BY HistoryBare
<1>2. c # Torn
  BY LedgersAssumption
<1>3. Torn \notin Range(b.event_log)
  BY RangeIn, EventsAreValues
<1> QED BY <1>1, <1>2, <1>3 DEF Boots, BootedAccounts

LEMMA FreshBoots ==
    ASSUME NEW b, b.event_log = <<>>, b.accounts = NoAccounts, b.state_root = None, NEW c \in Nat
    PROVE  Boots(b, c) /\ History(b) = <<SystemGenesis>>
<1>1. PICK log : log = <<SystemGenesis>>
  OBVIOUS
<1>2. log \in Seq(Event) /\ log # <<>> /\ log[1] = SystemGenesis /\ DOMAIN log = {1}
  BY <1>1, SystemGenesisType
<1>3. BaseLog(b) = log
  BY <1>1 DEF BaseLog
<1>4. PICK S : S = {a \in DOMAIN b.accounts :
                      b.accounts[a].credential /\ a \notin Known(BaseLog(b))}
  OBVIOUS
<1>5. S = {}
  BY <1>4 DEF NoAccounts
<1>6. History(b) = BaseLog(b) \o SetToSeq({Backfilled(a) : a \in S})
  BY <1>4, Zenon DEF History, BaseLog, Backfilled
<1>7. {Backfilled(a) : a \in S} = {}
  BY <1>5
<1>8. PICK more : more = SetToSeq({})
  OBVIOUS
<1>9. more = <<>>
  <2>1. IsFiniteSet({})
    BY FS_EmptySet
  <2>2. more \in Seq({})
    BY <1>8, <2>1, SetToSeqLists
  <2> QED BY <2>2
<1>10. History(b) = log \o more
  BY <1>3, <1>6, <1>7, <1>8
<1>11. History(b) = log
  BY <1>2, <1>9, <1>10
<1>12. Replayable(log)
  <2>1. \A x : Applies(x, SystemGenesis)
    BY DEF Applies, SystemGenesis
  <2> QED BY <1>2, <2>1, Zenon DEF Replayable
<1>13. c # Torn /\ Range(b.event_log) = {}
  BY LedgersAssumption DEF Range
<1> QED BY <1>1, <1>11, <1>12, <1>13 DEF Boots

\* A boot depends on the log, the accounts and the root only.
LEMMA SameBoot ==
    ASSUME NEW b, NEW d, NEW c,
           b.event_log = d.event_log, b.accounts = d.accounts, b.state_root = d.state_root
    PROVE  History(b) = History(d) /\ (Boots(b, c) <=> Boots(d, c))
<1>1. History(b) = History(d)
  BY Zenon DEF History
<1> QED BY <1>1 DEF Boots, BootedAccounts

-----------------------------------------------------------------------------
(* Why a boot refuses, and what a standby boots into. *)

Present(file) == file \notin {None, Torn}

Quiet == mishaps \cap {"untold root", "amendment"} = {}

Calm == backend = "replicated" /\ mishaps = {}

\* Accounts that have what the log tells, and others only without a credential.
Beyond(accounts, log) ==
    LET told == Replay(log)
    IN  /\ DOMAIN told \subseteq DOMAIN accounts
        /\ \A a \in DOMAIN accounts :
              IF a \in DOMAIN told THEN accounts[a] = told[a] ELSE ~ accounts[a].credential

RootCovers(root, log) ==
    LET told == Replay(log)
    IN  \A a \in DOMAIN told : a \in DOMAIN root.balances /\ root.balances[a] = told[a].balance

\* The lines of the log file, with the one that is written next.
Written ==
    IF writes # <<>> /\ Head(writes).file = "log" THEN Append(log_file, request) ELSE log_file

\* A log file that was begun by events has no line for SYSTEM_GENESIS.
SameEvents(log, lines) == log = lines \/ log = <<SystemGenesis>> \o lines

PendingContent(w, l) ==
    w.file \in {"snapshot", "ledger_db"} =>
        /\ w.content.accounts = l.accounts
        /\ w.content.state_root # None /\ RootCovers(w.content.state_root, l.event_log)

LiveFacts ==
    /\ ledger.event_log # <<>>
    /\ Beyond(ledger.accounts, ledger.event_log)
    /\ RootCovers(ledger.state_root, ledger.event_log)
    /\ \A i \in DOMAIN writes : PendingContent(writes[i], ledger)
    /\ writes # <<>> /\ ~ Migrating => writes[Len(writes)].file = "ledger_db"
    /\ backend = "replicated" /\ ~ Migrating => SameEvents(ledger.event_log, Written)

\* A node none of whose roots was untold or amended.
QuietFacts ==
    /\ constitution \in Nat /\ ledger.law = BootLaw(constitution)
    /\ Replayable(ledger.event_log)
    /\ ledger.state_root = StateRoot(Replay(ledger.event_log), ledger.law)
    /\ \A i \in DOMAIN writes :
          /\ writes[i].file # "constitution"
          /\ writes[i].file \in {"snapshot", "ledger_db"} =>
                writes[i].content.state_root = ledger.state_root

DiskBoots == Boots(Bootstrap(log_file, snapshot, ledger_db), constitution)

SnapshotAgrees(root) == Present(snapshot) => snapshot.state_root = root

\* The files of a replicated node that stopped at rest: a snapshot beside an older ledger
\* that the next boot migrates must fit it.
DownFacts ==
    /\ DiskBoots
    /\ log_file = <<>> /\ SavedLog # <<>> =>
          SnapshotAgrees(StateRoot(Replay(History(ledger_db)), BootLaw(constitution)))

\* The same of a live one, unless its snapshot is yet to be written.
Settled ==
    /\ \A i \in DOMAIN writes : writes[i].file # "snapshot"
    /\ writes # <<>> \/ log_file # <<>> \/ SavedLog # <<>>

RestFacts ==
    /\ Settled => SnapshotAgrees(ledger.state_root)
    /\ writes = <<>> /\ log_file = <<>> /\ SavedLog # <<>> =>
          /\ Boots(ledger_db, constitution)
          /\ Replay(History(ledger_db)) = Replay(ledger.event_log)

\* The root a ledger was saved under covers what its boot replays.
Covered(db) == db.state_root.balances = StateRoot(Replay(History(db)), BootLaw(0)).balances

\* A snapshot was right of some past of the log file.
Past(s, lines) ==
    Present(s) => \E k \in 0 .. Len(lines) :
                     LET log == SubSeq(lines, 1, k)
                     IN  /\ Torn \notin Range(log)
                         /\ Beyond(s.accounts, log) /\ RootCovers(s.state_root, log)

CopiesFacts ==
    /\ standby.mode = "copying" =>
          backend = "replicated" /\ \E k \in 0 .. Len(log_file) :
                                       standby.log = SubSeq(log_file, 1, k)
    /\ backend = "replicated" => Past(snapshot, log_file) /\ Past(standby.snapshot, log_file)

CauseInv ==
    /\ mode = "live" => LiveFacts
    /\ mode = "live" /\ Quiet => QuietFacts
    /\ backend = "file" /\ Quiet => DiskBoots
    /\ Calm /\ mode # "live" => DownFacts
    /\ Calm /\ mode = "live" => RestFacts
    /\ Present(ledger_db) => /\ ledger_db.state_root # None
                             /\ SavedLog = <<>> => Covered(ledger_db)
    /\ RefusalsAreExplained
    /\ CopiesFacts

LEMMA SaveSnapshotContents ==
    ASSUME NEW l
    PROVE  /\ \A i \in DOMAIN SaveSnapshot(l) :
                 /\ SaveSnapshot(l)[i].file \in {"snapshot", "ledger_db"}
                 /\ SaveSnapshot(l)[i].content.accounts = l.accounts
                 /\ SaveSnapshot(l)[i].content.state_root = l.state_root
           /\ SaveSnapshot(l) # <<>>
           /\ backend = "replicated" => SaveSnapshot(l)[1].file = "snapshot"
<1>1. PICK full : full = [file |-> "ledger_db", content |-> l]
  OBVIOUS
<1>2. PICK c : c = [accounts |-> l.accounts, state_root |-> l.state_root]
  OBVIOUS
<1>3. PICK brief : brief = [file |-> "snapshot", content |-> c]
  OBVIOUS
<1>4. SaveSnapshot(l) = IF backend = "replicated" THEN <<brief, full>> ELSE <<full>>
  BY <1>1, <1>2, <1>3 DEF SaveSnapshot
<1>5. /\ full.file = "ledger_db" /\ full.content = l
      /\ brief.file = "snapshot" /\ brief.content = c
      /\ c.accounts = l.accounts /\ c.state_root = l.state_root
  BY <1>1, <1>2, <1>3
<1>6. CASE backend = "replicated"
  <2>1. SaveSnapshot(l) = <<brief, full>>
    BY <1>4, <1>6
  <2>2. PICK s : s = SaveSnapshot(l)
    OBVIOUS
  <2>3. DOMAIN s = {1, 2} /\ s[1] = brief /\ s[2] = full /\ s # <<>>
    BY <2>1, <2>2
  <2> QED BY <1>5, <2>2, <2>3
<1>7. CASE backend # "replicated"
  <2>1. SaveSnapshot(l) = <<full>>
    BY <1>4, <1>7
  <2>2. PICK s : s = SaveSnapshot(l)
    OBVIOUS
  <2>3. DOMAIN s = {1} /\ s[1] = full /\ s # <<>>
    BY <2>1, <2>2
  <2> QED BY <1>5, <1>7, <2>2, <2>3
<1> QED BY <1>6, <1>7

\* A save from rest.
LEMMA SaveCauses ==
    ASSUME LedgerInv, CauseInv, Serving, NEW l \in Ledger, l.state_root \in Root,
           NEW before \in Seq(FileWrite), Save(l, before),
           l.event_log # <<>>,
           Beyond(l.accounts, l.event_log), RootCovers(l.state_root, l.event_log),
           \A i \in DOMAIN before : PendingContent(before[i], l),
           ~ Migrating', backend = "replicated" => SameEvents(l.event_log, Written'),
           Quiet' => /\ Replayable(l.event_log) /\ l.state_root.law = l.law
                     /\ \A i \in DOMAIN before : before[i].file = "log"
    PROVE  CauseInv'
<1>1. /\ ledger' = l
      /\ UNCHANGED <<backend, log_file, snapshot, ledger_db, constitution, mode, standby,
                     boots, answered>>
  BY SaveUnchanged
<1>2. /\ writes' = before \o SaveSnapshot(l)
      /\ mishaps' = mishaps \cup Untold(l)
                     \cup (IF l.law = ledger.law THEN {} ELSE {"amendment"})
  BY DEF Save
<1>3. mode = "live" /\ mode' = "live"
  BY <1>1 DEF Serving
<1>4. PICK s : s = SaveSnapshot(l)
  OBVIOUS
<1>5. s \in Seq(FileWrite) /\ s # <<>>
  BY <1>4, SaveSnapshotType, SaveSnapshotContents
<1>6. /\ \A i \in DOMAIN s : /\ s[i].file \in {"snapshot", "ledger_db"}
                             /\ s[i].content.accounts = l.accounts
                             /\ s[i].content.state_root = l.state_root
      /\ backend = "replicated" => s[1].file = "snapshot"
  BY <1>4, SaveSnapshotContents
<1>7. /\ \A i \in DOMAIN writes' : \/ i \in DOMAIN before /\ writes'[i] = before[i]
                                   \/ \E j \in DOMAIN s : writes'[i] = s[j]
      /\ writes' # <<>>
      /\ Head(writes') = IF before = <<>> THEN s[1] ELSE before[1]
      /\ before # <<>> => 1 \in DOMAIN before
  <2>1. writes' = before \o s
    BY <1>2, <1>4
  <2> DEFINE n == Len(before)
             m == Len(s)
  <2>2. /\ n \in Nat /\ m \in Nat /\ m > 0 /\ DOMAIN before = 1 .. n /\ DOMAIN s = 1 .. m
        /\ DOMAIN writes' = 1 .. n + m
        /\ \A i \in 1 .. n : writes'[i] = before[i]
        /\ \A i \in 1 .. m : writes'[n + i] = s[i]
        /\ before = <<>> <=> n = 0
        /\ Head(writes') = writes'[1]
    BY <1>5, <2>1
  <2>3. ASSUME NEW i \in 1 .. n + m, i \notin 1 .. n
        PROVE  \E j \in DOMAIN s : writes'[i] = s[j]
    <3>1. PICK j : j = i - n
      OBVIOUS
    <3>2. j \in 1 .. m /\ n + j = i
      BY <2>2, <2>3, <3>1
    <3> QED BY <2>2, <3>2
  <2>4. writes' # <<>>
    BY <1>5, <2>1
  <2>5. before # <<>> => 1 \in DOMAIN before /\ Head(writes') = before[1]
    BY <2>2
  <2>6. before = <<>> => Head(writes') = s[1]
    BY <2>1, <1>5
  <2> QED BY <2>2, <2>3, <2>4, <2>5, <2>6
<1>8. LiveFacts'
  <2>1. \A i \in DOMAIN s : PendingContent(s[i], l)
    BY <1>6, LedgersAssumption DEF PendingContent
  <2>2. \A i \in DOMAIN writes' : PendingContent(writes'[i], l)
    BY <1>7, <2>1
  <2>3. writes'[Len(writes')].file = "ledger_db"
    BY SaveWrites
  <2> QED BY <1>1, <2>2, <2>3 DEF LiveFacts
<1>9. Quiet' => Quiet
  BY <1>2 DEF Quiet
<1>10. ASSUME Quiet' PROVE QuietFacts'
  <2>1. QuietFacts
    BY <1>3, <1>9, <1>10 DEF CauseInv
  <2>2. l.law = ledger.law /\ Untold(l) = {}
    <3>1. Untold(l) \subseteq {"untold root"}
      BY DEF Untold
    <3> QED BY <1>2, <1>10, <3>1 DEF Quiet
  <2>3. l.state_root.balances = StateRoot(Replay(l.event_log), l.law).balances
    BY <2>2 DEF Untold
  <2>4. l.state_root = StateRoot(Replay(l.event_log), l.law)
    <3>1. PICK r : r = l.state_root
      OBVIOUS
    <3>2. r \in Root /\ r.law = l.law
      BY <1>10, <3>1
    <3>3. r = [balances |-> r.balances, law |-> r.law]
      BY <3>2 DEF Root
    <3>4. r.balances = [a \in DOMAIN Replay(l.event_log) |-> Replay(l.event_log)[a].balance]
      BY <2>3, <3>1, RootIs
    <3> QED BY <3>1, <3>2, <3>3, <3>4 DEF StateRoot
  <2>5. \A i \in DOMAIN writes' :
           /\ writes'[i].file # "constitution"
           /\ writes'[i].file \in {"snapshot", "ledger_db"} =>
                 writes'[i].content.state_root = l.state_root
    BY <1>6, <1>7, <1>10
  <2> QED BY <1>1, <1>10, <2>1, <2>2, <2>4, <2>5 DEF QuietFacts
<1>11. backend' = "file" /\ Quiet' => DiskBoots'
  BY <1>1, <1>9 DEF CauseInv, DiskBoots, Bootstrap
<1>12. ASSUME Calm' PROVE RestFacts'
  <2>1. backend = "replicated"
    BY <1>1, <1>12 DEF Calm
  <2>2. \E i \in DOMAIN writes' : writes'[i].file = "snapshot"
    <3> DEFINE n == Len(before)
    <3>1. n + 1 \in DOMAIN writes' /\ writes'[n + 1] = s[1]
      BY <1>2, <1>4, <1>5
    <3> QED BY <1>6, <2>1, <3>1
  <2> QED BY <1>7, <2>2 DEF RestFacts, Settled
<1>13. RefusalsAreExplained'
  BY <1>3 DEF RefusalsAreExplained
<1> QED BY <1>1, <1>3, <1>8, <1>10, <1>11, <1>12, <1>13 DEF CauseInv, CopiesFacts, SavedLog

LEMMA RootOfAccounts ==
    ASSUME NEW accounts, NEW log, NEW law, Beyond(accounts, log)
    PROVE  RootCovers(StateRoot(accounts, law), log)
<1>1. PICK told : told = Replay(log)
  OBVIOUS
<1>2. /\ DOMAIN told \subseteq DOMAIN accounts
      /\ \A a \in DOMAIN told : accounts[a] = told[a]
  BY <1>1 DEF Beyond
<1>3. PICK r : r = StateRoot(accounts, law)
  OBVIOUS
<1>4. r.balances = [a \in DOMAIN accounts |-> accounts[a].balance]
  BY <1>3, RootIs
<1>5. \A a \in DOMAIN told : a \in DOMAIN r.balances /\ r.balances[a] = told[a].balance
  BY <1>2, <1>4
<1> QED BY <1>1, <1>3, <1>5 DEF RootCovers

LEMMA BeyondNext ==
    ASSUME NEW accounts \in Accounts, NEW log \in Seq(Event), NEW e \in Event,
           e.type \in {"GENESIS", "PASSKEY_ADDED"}, Beyond(accounts, log)
    PROVE  Beyond(ApplyEvent(accounts, e), Append(log, e))
<1>1. PICK told : told = Replay(log)
  OBVIOUS
<1>2. told \in Accounts /\ Replay(Append(log, e)) = ApplyEvent(told, e)
  BY <1>1, ReplayType, ReplayAppends
<1>3. /\ DOMAIN told \subseteq DOMAIN accounts
      /\ \A a \in DOMAIN accounts :
            IF a \in DOMAIN told THEN accounts[a] = told[a] ELSE ~ accounts[a].credential
  BY <1>1 DEF Beyond
<1>4. CASE e.type = "GENESIS"
  <2>1. PICK record : record = [balance |-> 1000, credential |-> TRUE]
    OBVIOUS
  <2>2. PICK x : x = e.account
    OBVIOUS
  <2>3. PICK next : next = With(accounts, x, record)
    OBVIOUS
  <2>4. PICK then : then = With(told, x, record)
    OBVIOUS
  <2>5. ApplyEvent(accounts, e) = next /\ ApplyEvent(told, e) = then
    BY <1>2, <1>4, <2>1, <2>2, <2>3, <2>4, ApplyEventIs
  <2>6. /\ DOMAIN next = DOMAIN accounts \cup {x} /\ next[x] = record
        /\ \A a \in DOMAIN accounts : a # x => next[a] = accounts[a]
    BY <2>3 DEF With
  <2>7. /\ DOMAIN then = DOMAIN told \cup {x} /\ then[x] = record
        /\ \A a \in DOMAIN told : a # x => then[a] = told[a]
    BY <2>4 DEF With
  <2>8. /\ DOMAIN then \subseteq DOMAIN next
        /\ \A a \in DOMAIN next :
              IF a \in DOMAIN then THEN next[a] = then[a] ELSE ~ next[a].credential
    BY <1>3, <2>6, <2>7
  <2> QED BY <1>2, <2>5, <2>8 DEF Beyond
<1>5. CASE e.type = "PASSKEY_ADDED"
  <2>1. ApplyEvent(accounts, e) = accounts /\ ApplyEvent(told, e) = told
    BY <1>2, <1>5, ApplyEventIs
  <2> QED BY <1>2, <1>3, <2>1 DEF Beyond
<1> QED BY <1>4, <1>5

LEMMA RestCauses ==
    ASSUME LedgerInv, CauseInv, Serving
    PROVE  /\ mode = "live" /\ writes = <<>> /\ request = None
           /\ ledger \in Ledger /\ ledger.state_root \in Root
           /\ ledger.event_log \in Seq(Event) /\ ledger.accounts \in Accounts
           /\ ledger.law \in Law /\ ledger.event_log # <<>>
           /\ Beyond(ledger.accounts, ledger.event_log)
           /\ RootCovers(ledger.state_root, ledger.event_log)
           /\ backend = "replicated" => SameEvents(ledger.event_log, log_file)
           /\ log_file \in Seq(Event \cup {Torn})
           /\ Quiet => QuietFacts
<1>1. mode = "live" /\ writes = <<>> /\ request = None
  BY AtRest
<1>2. TypeInv /\ log_file \in Seq(Event \cup {Torn})
  BY DEF LedgerInv, TypeInv, TypeOK
<1>3. /\ ledger \in Ledger /\ ledger.state_root \in Root
      /\ ledger.event_log \in Seq(Event) /\ ledger.accounts \in Accounts
      /\ ledger.law \in Law
  BY <1>1, <1>2, LiveTyped
<1>4. LiveFacts /\ (Quiet => QuietFacts)
  BY <1>1 DEF CauseInv
<1>5. ~ Migrating /\ Written = log_file
  BY <1>1 DEF Migrating, Written
<1> QED BY <1>1, <1>2, <1>3, <1>4, <1>5 DEF LiveFacts

\* A save without an event and without an amendment of the constitution.
LEMMA PlainSaveCauses ==
    ASSUME LedgerInv, CauseInv, Serving, NEW l \in Ledger, l.state_root \in Root,
           Save(l, <<>>), request' = request, l.event_log = ledger.event_log,
           Beyond(l.accounts, l.event_log), RootCovers(l.state_root, l.event_log),
           Quiet' => l.state_root.law = l.law
    PROVE  CauseInv'
<1>1. /\ request = None /\ ledger.event_log # <<>>
      /\ backend = "replicated" => SameEvents(ledger.event_log, log_file)
      /\ Quiet => QuietFacts
  BY RestCauses
<1>2. <<>> \in Seq(FileWrite)
  OBVIOUS
<1>3. writes' # <<>> /\ Head(writes').file # "log"
  BY <1>2, SaveWrites
<1>4. ~ Migrating' /\ Written' = log_file'
  BY <1>3 DEF Migrating, Written
<1>5. log_file' = log_file /\ backend' = backend
  BY SaveUnchanged
<1>6. Quiet' => Replayable(l.event_log)
  <2>1. Quiet' => Quiet
    BY DEF Quiet, Save
  <2> QED BY <1>1, <2>1 DEF QuietFacts
<1>7. \A i \in DOMAIN <<>> : FALSE
  OBVIOUS
<1>8. PICK before : before = <<>>
  OBVIOUS
<1>9. before \in Seq(FileWrite) /\ Save(l, before) /\ \A i \in DOMAIN before : FALSE
  BY <1>2, <1>7, <1>8
<1> QED BY ONLY LedgerInv, CauseInv, Serving, l \in Ledger, l.state_root \in Root,
              Beyond(l.accounts, l.event_log), RootCovers(l.state_root, l.event_log),
              Quiet' => l.state_root.law = l.law, l.event_log = ledger.event_log,
              <1>1, <1>4, <1>5, <1>6, <1>9, SaveCauses

LEMMA SaveOnlyCauses ==
    ASSUME LedgerInv, CauseInv, SaveOnly
    PROVE  CauseInv'
<1>1. Serving /\ Save(ledger, <<>>) /\ request' = request
  BY DEF SaveOnly
<1>2. /\ ledger \in Ledger /\ ledger.state_root \in Root
      /\ Beyond(ledger.accounts, ledger.event_log)
      /\ RootCovers(ledger.state_root, ledger.event_log)
      /\ ledger.accounts \in Accounts /\ ledger.event_log \in Seq(Event)
      /\ Quiet => QuietFacts
  BY <1>1, RestCauses
<1>3. Quiet' => Quiet
  BY <1>1 DEF Quiet, Save
<1>4. Quiet' => ledger.state_root.law = ledger.law
  BY <1>2, <1>3 DEF QuietFacts, StateRoot
<1> QED BY <1>1, <1>2, <1>4, PlainSaveCauses

LEMMA RememberCauses ==
    ASSUME LedgerInv, CauseInv, Remember
    PROVE  CauseInv'
<1>1. Serving /\ request' = request
  BY DEF Remember
<1>2. /\ ledger.event_log \in Seq(Event) /\ ledger.accounts \in Accounts /\ ledger.law \in Law
      /\ Beyond(ledger.accounts, ledger.event_log)
  BY <1>1, RestCauses
<1>3. PICK a \in CapsuleOwners \ DOMAIN ledger.accounts :
         Save(Rooted(ledger.event_log,
                     With(ledger.accounts, a, [balance |-> 0, credential |-> FALSE]),
                     ledger.law), <<>>)
  BY DEF Remember
<1>4. PICK owner : owner = [balance |-> 0, credential |-> FALSE]
  OBVIOUS
<1>5. PICK accounts : accounts = With(ledger.accounts, a, owner)
  OBVIOUS
<1>6. accounts \in Accounts
  <2>1. a \in Names /\ owner \in Account
    BY <1>4 DEF Names, Account
  <2> QED BY <1>2, <1>5, <2>1, WithType
<1>7. PICK l : l = Rooted(ledger.event_log, accounts, ledger.law)
  OBVIOUS
<1>8. /\ l \in Ledger /\ l.state_root \in Root /\ l.event_log = ledger.event_log
      /\ l.accounts = accounts /\ l.law = ledger.law
  BY <1>2, <1>6, <1>7, RootedType
<1>9. l.state_root = StateRoot(accounts, ledger.law)
  BY <1>7 DEF Rooted
<1>10. Beyond(accounts, ledger.event_log)
  <2>1. /\ DOMAIN accounts = DOMAIN ledger.accounts \cup {a} /\ accounts[a] = owner
        /\ \A x \in DOMAIN ledger.accounts : accounts[x] = ledger.accounts[x]
    BY <1>5 DEF With
  <2>2. owner.credential = FALSE
    BY <1>4
  <2> QED BY <1>2, <2>1, <2>2 DEF Beyond
<1>11. RootCovers(l.state_root, l.event_log) /\ l.state_root.law = l.law
  <2>1. RootCovers(l.state_root, l.event_log)
    BY <1>8, <1>9, <1>10, RootOfAccounts
  <2>2. l.state_root.law = l.law
    BY <1>8, <1>9 DEF StateRoot
  <2> QED BY <2>1, <2>2
<1>12. Save(l, <<>>)
  BY <1>3, <1>4, <1>5, <1>7
<1> QED BY <1>1, <1>8, <1>10, <1>11, <1>12, PlainSaveCauses

LEMMA AmendCauses ==
    ASSUME LedgerInv, CauseInv, Amend
    PROVE  CauseInv'
<1>1. Serving /\ request' = request
  BY DEF Amend
<1>2. /\ ledger \in Ledger /\ ledger.state_root \in Root
      /\ ledger.event_log \in Seq(Event) /\ ledger.accounts \in Accounts
      /\ ledger.law \in Law /\ ledger.event_log # <<>> /\ request = None
      /\ Beyond(ledger.accounts, ledger.event_log)
      /\ RootCovers(ledger.state_root, ledger.event_log)
      /\ backend = "replicated" => SameEvents(ledger.event_log, log_file)
  BY <1>1, RestCauses
<1>3. PICK law : law = [root |-> ledger.law.root + 1, epoch |-> ledger.law.epoch + 1]
  OBVIOUS
<1>4. PICK enacted : enacted = [ledger EXCEPT !.law = law]
  OBVIOUS
<1>5. PICK amended : amended = [file |-> "constitution", content |-> law.root]
  OBVIOUS
<1>6. PICK rooted : rooted = Rooted(ledger.event_log, ledger.accounts, law)
  OBVIOUS
<1>7. \/ Save(enacted, <<amended>>)
      \/ Save(rooted, <<amended>> \o SaveSnapshot(enacted))
  BY <1>3, <1>4, <1>5, <1>6, Zenon DEF Amend
<1>8. law \in Law /\ law # ledger.law /\ law.root \in Nat
  <2>1. /\ ledger.law.root \in Nat /\ ledger.law.epoch \in Nat
    BY <1>2 DEF Law
  <2>2. law.epoch # ledger.law.epoch
    BY <1>3, <2>1
  <2> QED BY <1>3, <2>1, <2>2 DEF Law
<1>9. /\ enacted \in Ledger /\ enacted.state_root = ledger.state_root /\ enacted.law = law
      /\ enacted.event_log = ledger.event_log /\ enacted.accounts = ledger.accounts
  BY <1>2, <1>4, <1>8 DEF Ledger
<1>10. /\ rooted \in Ledger /\ rooted.state_root \in Root /\ rooted.law = law
       /\ rooted.event_log = ledger.event_log /\ rooted.accounts = ledger.accounts
  BY <1>2, <1>6, <1>8, RootedType
<1>11. RootCovers(rooted.state_root, ledger.event_log)
  <2>1. rooted.state_root = StateRoot(ledger.accounts, law)
    BY <1>6 DEF Rooted
  <2> QED BY <1>2, <2>1, RootOfAccounts
<1>12. amended \in FileWrite /\ amended.file = "constitution"
  BY <1>5, <1>8 DEF FileWrite
<1>13. PICK more : more = SaveSnapshot(enacted)
  OBVIOUS
<1>14. /\ more \in Seq(FileWrite)
       /\ \A i \in DOMAIN more : /\ more[i].content.accounts = ledger.accounts
                                 /\ more[i].content.state_root = ledger.state_root
  BY <1>2, <1>9, <1>13, SaveSnapshotType, SaveSnapshotContents
<1>15. ASSUME NEW l \in {enacted, rooted}, NEW before \in Seq(FileWrite), before # <<>>,
              Head(before) = amended, Save(l, before),
              \A i \in DOMAIN before : PendingContent(before[i], l)
       PROVE  CauseInv'
  <2>1. /\ l \in Ledger /\ l.state_root \in Root /\ l.law = law
        /\ l.event_log = ledger.event_log /\ l.accounts = ledger.accounts
        /\ RootCovers(l.state_root, ledger.event_log)
    BY <1>2, <1>9, <1>10, <1>11, <1>15
  <2>2. ~ Quiet'
    BY <1>8, <1>15, <2>1 DEF Save, Quiet
  <2>3. writes' # <<>> /\ Head(writes') = amended
    BY <1>15, <2>1, SaveWrites
  <2>4. ~ Migrating' /\ Written' = log_file'
    BY <1>12, <2>3 DEF Migrating, Written
  <2>5. log_file' = log_file /\ backend' = backend
    BY <1>15, SaveUnchanged
  <2> QED BY <1>1, <1>2, <1>15, <2>1, <2>2, <2>4, <2>5, SaveCauses
<1>16. \A l \in {enacted, rooted} : PendingContent(amended, l)
  BY <1>12 DEF PendingContent
<1>17. CASE Save(enacted, <<amended>>)
  <2>1. PICK before : before = <<amended>>
    OBVIOUS
  <2>2. /\ before \in Seq(FileWrite) /\ before # <<>> /\ Head(before) = amended
        /\ \A i \in DOMAIN before : before[i] = amended
    BY <1>12, <2>1
  <2> QED BY <1>15, <1>16, <1>17, <2>1, <2>2
<1>18. CASE Save(rooted, <<amended>> \o SaveSnapshot(enacted))
  <2>1. PICK before : before = <<amended>> \o more
    OBVIOUS
  <2>2. /\ before \in Seq(FileWrite) /\ before # <<>> /\ Head(before) = amended
        /\ \A i \in DOMAIN before : before[i] = amended \/ \E j \in DOMAIN more : before[i] = more[j]
    <3> DEFINE m == Len(more)
    <3>1. /\ m \in Nat /\ DOMAIN more = 1 .. m /\ DOMAIN before = 1 .. m + 1
          /\ before[1] = amended /\ \A i \in 1 .. m : before[i + 1] = more[i]
          /\ before \in Seq(FileWrite) /\ before # <<>> /\ Head(before) = before[1]
      BY <1>12, <1>14, <2>1
    <3>2. \A i \in 1 .. m + 1 : i = 1 \/ (i - 1 \in 1 .. m /\ (i - 1) + 1 = i)
      BY <3>1
    <3> QED BY <3>1, <3>2
  <2>3. \A j \in DOMAIN more : PendingContent(more[j], rooted)
    <3>1. ledger.state_root # None
      BY <1>2, LedgersAssumption
    <3> QED BY <1>2, <1>10, <1>14, <3>1 DEF PendingContent
  <2>4. \A i \in DOMAIN before : PendingContent(before[i], rooted)
    BY <1>16, <2>2, <2>3
  <2> QED BY <1>13, <1>15, <1>18, <2>1, <2>2, <2>4
<1> QED BY <1>7, <1>17, <1>18

\* A passkey that was accepted applies to the replayed accounts too, unless the root is
\* untold.
LEMMA RequestCauses ==
    ASSUME LedgerInv, CauseInv, NEW e \in Event, e.type \in {"GENESIS", "PASSKEY_ADDED"},
           ApplyRequest(e)
    PROVE  CauseInv'
<1>1. Serving /\ request' = e /\ Applies(ledger.accounts, e)
  BY DEF ApplyRequest
<1>2. /\ ledger.event_log \in Seq(Event) /\ ledger.accounts \in Accounts /\ ledger.law \in Law
      /\ ledger.event_log # <<>> /\ log_file \in Seq(Event \cup {Torn})
      /\ Beyond(ledger.accounts, ledger.event_log)
      /\ backend = "replicated" => SameEvents(ledger.event_log, log_file)
      /\ Quiet => QuietFacts
      /\ backend \in {"file", "replicated"}
  BY <1>1, RestCauses, AtRest
<1>3. PICK log : log = Append(ledger.event_log, e)
  OBVIOUS
<1>4. PICK accounts : accounts = ApplyEvent(ledger.accounts, e)
  OBVIOUS
<1>5. PICK l : l = Rooted(log, accounts, ledger.law)
  OBVIOUS
<1>6. PICK before : before = RecordEvent(e)
  OBVIOUS
<1>7. Save(l, before)
  BY <1>3, <1>4, <1>5, <1>6, Zenon DEF ApplyRequest
<1>8. /\ log \in Seq(Event) /\ log # <<>>
      /\ l \in Ledger /\ l.state_root \in Root /\ l.event_log = log /\ l.accounts = accounts
      /\ l.law = ledger.law
  <2>1. log \in Seq(Event) /\ log # <<>>
    BY <1>2, <1>3
  <2>2. accounts \in Accounts
    BY <1>2, <1>4, ApplyEventType
  <2> QED BY <1>2, <1>5, <2>1, <2>2, RootedType
<1>9. l.state_root = StateRoot(accounts, ledger.law)
  BY <1>5 DEF Rooted
<1>10. before \in Seq(FileWrite)
  BY <1>6, RecordEventType
<1>11. \A i \in DOMAIN before : before[i].file = "log"
  <2>1. LineWrite(e).file = "log"
    BY DEF LineWrite
  <2>2. \A i \in DOMAIN before : before[i] = LineWrite(e)
    BY <1>6 DEF RecordEvent
  <2> QED BY <2>1, <2>2
<1>12. Beyond(accounts, log) /\ RootCovers(l.state_root, log)
  <2>1. Beyond(accounts, log)
    BY <1>2, <1>3, <1>4, BeyondNext
  <2> QED BY <1>9, <2>1, RootOfAccounts
<1>13. log_file' = log_file /\ backend' = backend
  BY <1>7, SaveUnchanged
<1>14. ~ Migrating'
  BY <1>1, EventsAreValues DEF Migrating
<1>15. ASSUME backend = "replicated" PROVE SameEvents(log, Written')
  <2>1. PICK w : w = LineWrite(e)
    OBVIOUS
  <2>2. w.file = "log" /\ before = <<w>>
    BY <1>6, <1>15, <2>1 DEF RecordEvent, LineWrite
  <2>3. before # <<>> /\ Head(before) = w
    BY <2>2
  <2>4. writes' # <<>> /\ Head(writes') = w
    BY <1>7, <1>8, <1>10, <2>3, SaveWrites
  <2>5. Written' = Append(log_file, e)
    BY <1>1, <1>13, <2>2, <2>4 DEF Written
  <2>6. PICK g : g = SystemGenesis
    OBVIOUS
  <2>7. ledger.event_log = log_file \/ ledger.event_log = <<g>> \o log_file
    BY <1>2, <1>15, <2>6 DEF SameEvents
  <2>8. PICK S : S = Event \cup {Torn}
    OBVIOUS
  <2>9. log_file \in Seq(S) /\ e \in S /\ g \in S
    BY <1>2, <2>6, <2>8, SystemGenesisType
  <2>10. Append(<<g>> \o log_file, e) = <<g>> \o Append(log_file, e)
    BY <2>9
  <2> QED BY <1>3, <2>5, <2>6, <2>7, <2>10 DEF SameEvents
<1>16. ASSUME Quiet' PROVE Replayable(log)
  <2>1. Quiet /\ Untold(l) = {}
    <3>1. mishaps' = mishaps \cup Untold(l) \cup
                     (IF l.law = ledger.law THEN {} ELSE {"amendment"})
      BY <1>7 DEF Save
    <3>2. Untold(l) \subseteq {"untold root"}
      BY DEF Untold
    <3> QED BY <1>16, <3>1, <3>2 DEF Quiet
  <2>2. Replayable(ledger.event_log)
    BY <1>2, <2>1 DEF QuietFacts
  <2>3. Applies(Replay(ledger.event_log), e)
    <3>1. PICK told : told = Replay(ledger.event_log)
      OBVIOUS
    <3>2. told \in Accounts /\ Replay(log) = ApplyEvent(told, e)
      BY <1>2, <1>3, <3>1, ReplayType, ReplayAppends
    <3>3. CASE e.type = "PASSKEY_ADDED"
      <4>1. accounts = ledger.accounts /\ Replay(log) = told
        BY <1>2, <1>4, <3>2, <3>3, ApplyEventIs
      <4>2. l.state_root.balances = StateRoot(told, ledger.law).balances
        <5>1. l.state_root.balances = StateRoot(Replay(l.event_log), l.law).balances
          BY <2>1 DEF Untold
        <5> QED BY <1>8, <4>1, <5>1
      <4>3. PICK balances : balances = l.state_root.balances
        OBVIOUS
      <4>4. balances = [a \in DOMAIN accounts |-> accounts[a].balance]
        BY <1>9, <4>3, RootIs
      <4>5. balances = [a \in DOMAIN told |-> told[a].balance]
        BY <4>2, <4>3, RootIs
      <4>6. DOMAIN accounts = DOMAIN told
        BY <4>4, <4>5
      <4> QED BY <1>1, <3>1, <4>1, <4>6 DEF Applies
    <3>4. CASE e.type # "PASSKEY_ADDED"
      BY <3>4 DEF Applies
    <3> QED BY <3>3, <3>4
  <2> QED BY <1>2, <1>3, <2>2, <2>3, ReplayableMore
<1>17. l.state_root.law = l.law
  BY <1>8, <1>9 DEF StateRoot
<1>18. \A i \in DOMAIN before : PendingContent(before[i], l)
  BY <1>11 DEF PendingContent
<1> QED BY ONLY LedgerInv, CauseInv, <1>1, <1>7, <1>8, <1>10, <1>11, <1>12, <1>13, <1>14,
              <1>15, <1>16, <1>17, <1>18, SaveCauses

\* What loadBootstrap returns, by the backend and the files there are.
LEMMA BootstrapLegacy ==
    ASSUME NEW log, NEW saved, NEW db, NEW b, b = Bootstrap(log, saved, db),
           NEW legacy, legacy = Readable(db, NoLedger),
           backend = "file" \/ (backend = "replicated" /\ log = <<>> /\ legacy.event_log # <<>>)
    PROVE  /\ b.event_log = legacy.event_log /\ b.accounts = legacy.accounts
           /\ b.state_root = legacy.state_root
           /\ backend = "replicated" => b.migrated
<1>1. CASE backend = "file"
  <2>1. b = [event_log |-> legacy.event_log, accounts |-> legacy.accounts,
             state_root |-> legacy.state_root, migrated |-> FALSE]
    BY <1>1, Zenon DEF Bootstrap
  <2> QED BY <1>1, <2>1
<1>2. CASE backend = "replicated" /\ ~ (log # <<>>) /\ legacy.event_log # <<>>
  <2>1. b = IF legacy.event_log # <<>>
            THEN [event_log |-> legacy.event_log, accounts |-> legacy.accounts,
                  state_root |-> legacy.state_root, migrated |-> TRUE]
            ELSE [event_log |-> <<>>, accounts |-> NoAccounts, state_root |-> None,
                  migrated |-> FALSE]
    BY <1>2 DEF Bootstrap
  <2>2. b = [event_log |-> legacy.event_log, accounts |-> legacy.accounts,
             state_root |-> legacy.state_root, migrated |-> TRUE]
    BY <1>2, <2>1
  <2> QED BY <2>2
<1> QED BY <1>1, <1>2, Zenon

LEMMA BootstrapLines ==
    ASSUME NEW log, NEW saved, NEW db, NEW b, b = Bootstrap(log, saved, db),
           backend = "replicated", log # <<>>
    PROVE  /\ b.event_log = log /\ ~ b.migrated
           /\ Present(saved) => b.accounts = saved.accounts /\ b.state_root = saved.state_root
           /\ ~ Present(saved) => b.accounts = NoAccounts /\ b.state_root = None
<1>1. PICK none : none = [accounts |-> NoAccounts, state_root |-> None]
  OBVIOUS
<1>2. PICK latest : latest = Readable(saved, none)
  OBVIOUS
<1>3. b = [event_log |-> log, accounts |-> latest.accounts,
           state_root |-> latest.state_root, migrated |-> FALSE]
  BY <1>1, <1>2 DEF Bootstrap
<1>4. latest = IF Present(saved) THEN saved ELSE none
  BY <1>2, Zenon DEF Readable, Present
<1>5. none.accounts = NoAccounts /\ none.state_root = None
  BY <1>1
<1>6. /\ b.event_log = log /\ b.accounts = latest.accounts
      /\ b.state_root = latest.state_root /\ ~ b.migrated
  BY <1>3
<1>7. CASE Present(saved)
  BY <1>4, <1>6, <1>7, Zenon
<1>8. CASE ~ Present(saved)
  BY <1>4, <1>5, <1>6, <1>8, Zenon
<1> QED BY <1>6, <1>7, <1>8, Zenon

LEMMA BootstrapFresh ==
    ASSUME NEW log, NEW saved, NEW db, NEW b, b = Bootstrap(log, saved, db),
           NEW legacy, legacy = Readable(db, NoLedger),
           backend = "replicated", log = <<>>, legacy.event_log = <<>>
    PROVE  /\ b.event_log = <<>> /\ b.accounts = NoAccounts /\ b.state_root = None
           /\ ~ b.migrated
<1>1. b = IF legacy.event_log # <<>>
          THEN [event_log |-> legacy.event_log, accounts |-> legacy.accounts,
                state_root |-> legacy.state_root, migrated |-> TRUE]
          ELSE [event_log |-> <<>>, accounts |-> NoAccounts, state_root |-> None,
                migrated |-> FALSE]
  BY DEF Bootstrap
<1>2. b = [event_log |-> <<>>, accounts |-> NoAccounts, state_root |-> None,
           migrated |-> FALSE]
  BY <1>1
<1> QED BY <1>2

\* The log file only grows: what was a beginning of it stays one.
LEMMA BeginningKept ==
    ASSUME NEW E, NEW lines \in Seq(E), NEW x \in E, NEW k \in 0 .. Len(lines)
    PROVE  k \in 0 .. Len(Append(lines, x)) /\ SubSeq(Append(lines, x), 1, k) = SubSeq(lines, 1, k)
<1>1. PICK a : a = SubSeq(Append(lines, x), 1, k)
  OBVIOUS
<1>2. PICK b : b = SubSeq(lines, 1, k)
  OBVIOUS
<1>3. Len(a) = k /\ Len(b) = k /\ a \in Seq(E) /\ b \in Seq(E)
  BY <1>1, <1>2
<1>4. \A i \in 1 .. k : a[i] = b[i]
  BY <1>1, <1>2
<1>5. a = b
  BY <1>3, <1>4
<1> QED BY <1>1, <1>2, <1>5

LEMMA PastKept ==
    ASSUME NEW E, NEW lines \in Seq(E), NEW x \in E, NEW s, Past(s, lines)
    PROVE  Past(s, Append(lines, x))
<1>1. ASSUME NEW k \in 0 .. Len(lines)
      PROVE  /\ k \in 0 .. Len(Append(lines, x))
             /\ SubSeq(Append(lines, x), 1, k) = SubSeq(lines, 1, k)
  BY BeginningKept
<1>2. PICK longer : longer = Append(lines, x)
  OBVIOUS
<1>3. \A k \in 0 .. Len(lines) : /\ k \in 0 .. Len(longer)
                                 /\ SubSeq(longer, 1, k) = SubSeq(lines, 1, k)
  BY <1>1, <1>2
<1>4. Past(s, longer)
  BY <1>3, Zenon DEF Past
<1> QED BY <1>2, <1>4

\* A step that writes at most one line and, in snapshot, only what the log tells.
LEMMA CopiesKept ==
    ASSUME CopiesFacts, NEW E, log_file \in Seq(E), NEW x \in E,
           log_file' = log_file \/ log_file' = Append(log_file, x),
           backend' = backend, standby' = standby,
           snapshot' = snapshot \/ (backend = "replicated" => Past(snapshot', log_file'))
    PROVE  CopiesFacts'
<1>1. ASSUME NEW s, Past(s, log_file) PROVE Past(s, log_file')
  BY <1>1, PastKept
<1>2. ASSUME NEW k \in 0 .. Len(log_file)
      PROVE  k \in 0 .. Len(log_file') /\ SubSeq(log_file', 1, k) = SubSeq(log_file, 1, k)
  BY BeginningKept
<1>3. standby.mode = "copying" =>
         backend = "replicated" /\ \E k \in 0 .. Len(log_file') :
                                      standby.log = SubSeq(log_file', 1, k)
  <2>1. ASSUME standby.mode = "copying"
        PROVE  \E k \in 0 .. Len(log_file') : standby.log = SubSeq(log_file', 1, k)
    <3>1. PICK k \in 0 .. Len(log_file) : standby.log = SubSeq(log_file, 1, k)
      BY <2>1 DEF CopiesFacts
    <3> QED BY <1>2, <3>1
  <2> QED BY <2>1 DEF CopiesFacts
<1>4. backend = "replicated" => Past(snapshot', log_file') /\ Past(standby.snapshot, log_file')
  BY <1>1 DEF CopiesFacts
<1> QED BY <1>3, <1>4 DEF CopiesFacts

\* The log file of a replicated node, and the log in memory.
LEMMA LinesTold ==
    ASSUME NEW log \in Seq(Event), NEW lines \in Seq(Event \cup {Torn}), SameEvents(log, lines)
    PROVE  /\ lines \in Seq(Event)
           /\ Replay(lines) = Replay(log) /\ Known(lines) = Known(log)
           /\ Replayable(log) => Replayable(lines)
<1>1. CASE log = lines
  BY <1>1
<1>2. CASE log = <<SystemGenesis>> \o lines
  <2>1. PICK g : g = SystemGenesis
    OBVIOUS
  <2>2. g \in Event \cup {Torn}
    BY <2>1, SystemGenesisType
  <2>3. PICK n : n = Len(lines)
    OBVIOUS
  <2>4. n \in Nat /\ Len(log) = n + 1 /\ \A i \in 1 .. n : lines[i] = log[i + 1]
    BY <1>2, <2>1, <2>2, <2>3
  <2>5. \A i \in 1 .. n : i + 1 \in 1 .. Len(log)
    BY <2>4
  <2>6. \A i \in 1 .. n : lines[i] \in Event
    BY <2>4, <2>5
  <2>7. lines \in Seq(Event)
    BY <2>3, <2>6
  <2>8. /\ Replay(log) = Replay(lines) /\ Known(log) = Known(lines)
        /\ Replayable(log) => Replayable(lines)
    BY <1>2, <2>7, SystemGenesisSilent
  <2> QED BY <2>7, <2>8
<1> QED BY <1>1, <1>2 DEF SameEvents

\* Only accounts that the log registered have a credential in a snapshot.
LEMMA PastCreds ==
    ASSUME NEW s, s.accounts \in Accounts, NEW lines \in Seq(Event), Past(s, lines), Present(s)
    PROVE  Creds(s.accounts) \subseteq Known(lines)
<1>1. PICK k \in 0 .. Len(lines) : Beyond(s.accounts, SubSeq(lines, 1, k))
  BY Zenon DEF Past
<1>2. PICK log : log = SubSeq(lines, 1, k)
  OBVIOUS
<1>3. log \in Seq(Event) /\ Len(log) = k /\ \A i \in 1 .. k : log[i] = lines[i]
  BY <1>2
<1>4. Known(log) \subseteq Known(lines)
  <2>1. DOMAIN log \subseteq DOMAIN lines /\ \A i \in DOMAIN log : log[i] = lines[i]
    BY <1>3
  <2> QED BY <2>1 DEF Known
<1>5. PICK told : told = Replay(log)
  OBVIOUS
<1>6. \A a \in DOMAIN told : told[a].credential => a \in Known(log)
  BY <1>3, <1>5, ReplayDomain
<1>7. \A a \in DOMAIN s.accounts :
         IF a \in DOMAIN told THEN s.accounts[a] = told[a] ELSE ~ s.accounts[a].credential
  BY <1>1, <1>2, <1>5 DEF Beyond
<1>8. ASSUME NEW a \in Creds(s.accounts) PROVE a \in Known(lines)
  <2>1. a \in DOMAIN s.accounts /\ s.accounts[a].credential
    BY <1>8 DEF Creds
  <2>2. a \in DOMAIN told /\ s.accounts[a] = told[a]
    BY <1>7, <2>1
  <2> QED BY <1>4, <1>6, <2>1, <2>2
<1> QED BY <1>8

\* The replicated backend backfills nothing beside a log file.
LEMMA LinesHistory ==
    ASSUME backend = "replicated", NEW lines \in Seq(Event), lines # <<>>,
           NEW saved, Saved(saved, Snapshot), Past(saved, lines), NEW db,
           NEW b, b = Bootstrap(lines, saved, db)
    PROVE  Creds(b.accounts) \subseteq Known(lines) /\ History(b) = lines
<1>1. /\ b.event_log = lines
      /\ Present(saved) => b.accounts = saved.accounts
      /\ ~ Present(saved) => b.accounts = NoAccounts
  BY BootstrapLines
<1>2. CASE Present(saved)
  <2>1. saved \in Snapshot
    BY <1>2 DEF Present, Saved
  <2>2. saved.accounts \in Accounts
    BY <2>1 DEF Snapshot
  <2>3. Creds(saved.accounts) \subseteq Known(lines)
    BY <1>2, <2>2, PastCreds
  <2> QED BY <1>1, <1>2, <2>3, HistoryBare
<1>3. CASE ~ Present(saved)
  <2>1. Creds(NoAccounts) = {}
    BY DEF Creds, NoAccounts
  <2> QED BY <1>1, <1>3, <2>1, HistoryBare
<1> QED BY <1>2, <1>3

\* It boots from a log file and a snapshot whose root is the root of its replay.
LEMMA LinesBoot ==
    ASSUME backend = "replicated", NEW lines \in Seq(Event), lines # <<>>, Replayable(lines),
           NEW c \in Nat, NEW saved, Saved(saved, Snapshot), Past(saved, lines),
           Present(saved) => saved.state_root = StateRoot(Replay(lines), BootLaw(c)), NEW db
    PROVE  Boots(Bootstrap(lines, saved, db), c)
<1>1. PICK b : b = Bootstrap(lines, saved, db)
  OBVIOUS
<1>2. /\ b.event_log = lines
      /\ Present(saved) => b.state_root = saved.state_root
      /\ ~ Present(saved) => b.state_root = None
  BY <1>1, BootstrapLines
<1>3. Creds(b.accounts) \subseteq Known(b.event_log)
  BY <1>1, <1>2, LinesHistory
<1>4. b.state_root \in {None, StateRoot(Replay(lines), BootLaw(c))}
  BY <1>2
<1>5. Boots(b, c)
  BY <1>2, <1>3, <1>4, BareBoots
<1> QED BY <1>1, <1>5

LEMMA CrashCauses ==
    ASSUME LedgerInv, CauseInv, Crash
    PROVE  CauseInv'
<1>1. /\ mode = "live" /\ mode' = "down" /\ writes' = <<>>
      /\ UNCHANGED <<backend, standby>>
      /\ backend \in {"file", "replicated"}
      /\ log_file \in Seq(Event \cup {Torn}) /\ writes \in Seq(FileWrite)
      /\ Saved(snapshot, Snapshot) /\ Saved(ledger_db, Ledger)
  BY StoreAssumption DEF Crash, LedgerInv, TypeInv, TypeOK, Saved
<1>2. PICK torn \in IF writes = <<>> THEN {FALSE} ELSE BOOLEAN :
         LET file == IF torn THEN Head(writes).file ELSE "none"
         IN  /\ log_file' = IF file = "log" THEN Append(log_file, Torn) ELSE log_file
             /\ snapshot' = IF file = "snapshot" THEN Torn ELSE snapshot
             /\ ledger_db' = IF file = "ledger_db" THEN Torn ELSE ledger_db
             /\ constitution' = IF file = "constitution" THEN Torn ELSE constitution
             /\ mishaps' = mishaps \cup Interruption(torn)
  BY DEF Crash
<1>3. /\ log_file' = log_file \/ log_file' = Append(log_file, Torn)
      /\ snapshot' = snapshot \/ snapshot' = Torn
      /\ ledger_db' = ledger_db \/ ledger_db' = Torn
      /\ constitution' = constitution
         \/ (writes # <<>> /\ Head(writes).file = "constitution" /\ torn)
      /\ writes = <<>> => /\ log_file' = log_file /\ snapshot' = snapshot
                          /\ ledger_db' = ledger_db /\ constitution' = constitution
      /\ mishaps' = mishaps \cup Interruption(torn)
  BY <1>2
<1>4. /\ LiveFacts
      /\ Quiet => QuietFacts
      /\ Present(ledger_db) => /\ ledger_db.state_root # None
                               /\ SavedLog = <<>> => Covered(ledger_db)
  BY <1>1 DEF CauseInv
<1>5. ledger \in Ledger /\ ledger.event_log \in Seq(Event) /\ ledger.law \in Law
  BY <1>1, LiveTyped DEF LedgerInv
<1>6. Quiet' => Quiet /\ QuietFacts /\ constitution' = constitution
  <2>1. Quiet' => Quiet
    BY <1>3 DEF Quiet
  <2>2. ASSUME QuietFacts, writes # <<>> PROVE Head(writes).file # "constitution"
    <3>1. 1 \in DOMAIN writes /\ Head(writes) = writes[1]
      BY <1>1, <2>2
    <3> QED BY <2>2, <3>1 DEF QuietFacts
  <2> QED BY <1>3, <1>4, <2>1, <2>2
<1>7. ASSUME backend' = "file", Quiet' PROVE DiskBoots'
  <2>1. DiskBoots /\ backend = "file" /\ constitution' = constitution /\ constitution \in Nat
    BY <1>1, <1>6, <1>7 DEF CauseInv, QuietFacts
  <2>2. PICK b : b = Bootstrap(log_file, snapshot, ledger_db)
    OBVIOUS
  <2>3. PICK d : d = Bootstrap(log_file, snapshot, ledger_db)'
    OBVIOUS
  <2>4. d = Bootstrap(log_file', snapshot', ledger_db')
    BY <1>1, <2>3 DEF Bootstrap
  <2>5. PICK legacy : legacy = Readable(ledger_db, NoLedger)
    OBVIOUS
  <2>6. PICK then : then = Readable(ledger_db', NoLedger)
    OBVIOUS
  <2>7. /\ b.event_log = legacy.event_log /\ b.accounts = legacy.accounts
        /\ b.state_root = legacy.state_root
    BY <2>1, <2>2, <2>5, BootstrapLegacy
  <2>8. /\ d.event_log = then.event_log /\ d.accounts = then.accounts
        /\ d.state_root = then.state_root
    BY <2>1, <2>4, <2>6, BootstrapLegacy
  <2>9. CASE ledger_db' = ledger_db
    <3>1. Boots(b, constitution)
      BY <2>1, <2>2 DEF DiskBoots
    <3>2. then = legacy
      BY <2>5, <2>6, <2>9
    <3>3. Boots(d, constitution)
      BY <2>7, <2>8, <3>1, <3>2, SameBoot
    <3> QED BY <2>1, <2>3, <3>3 DEF DiskBoots
  <2>10. CASE ledger_db' = Torn
    <3>1. then = NoLedger
      BY <2>6, <2>10, Zenon DEF Readable
    <3>2. Boots(d, constitution)
      BY <2>1, <2>8, <3>1, NoLedgerType, FreshBoots
    <3> QED BY <2>1, <2>3, <3>2 DEF DiskBoots
  <2> QED BY <1>3, <2>9, <2>10
<1>8. ASSUME Calm' PROVE DownFacts'
  <2>1. mishaps = {} /\ Interruption(torn) = {} /\ backend = "replicated"
    BY <1>1, <1>3, <1>8 DEF Calm
  <2>2. writes = <<>>
    BY <2>1, Zenon DEF Interruption
  <2>3. UNCHANGED <<log_file, snapshot, ledger_db, constitution>>
    BY <1>3, <2>2
  <2>4. Calm /\ Quiet
    BY <2>1 DEF Calm, Quiet
  <2>5. RestFacts /\ QuietFacts
    BY <1>1, <1>4, <2>4 DEF CauseInv
  <2>6. DownFacts' <=> DownFacts
    BY <1>1, <2>3 DEF DownFacts, DiskBoots, SavedLog, SnapshotAgrees, Bootstrap
  <2>7. PICK law : law = BootLaw(constitution)
    OBVIOUS
  <2>8. /\ ledger.law = law /\ constitution \in Nat /\ Replayable(ledger.event_log)
        /\ ledger.state_root = StateRoot(Replay(ledger.event_log), law)
    BY <2>5, <2>7 DEF QuietFacts
  <2>9. CASE log_file # <<>>
    <3>1. SnapshotAgrees(ledger.state_root)
      BY <2>2, <2>5, <2>9 DEF RestFacts, Settled
    <3>2. SameEvents(ledger.event_log, log_file)
      BY <1>4, <2>1, <2>2 DEF LiveFacts, Migrating, Written
    <3>3. /\ log_file \in Seq(Event) /\ Replay(log_file) = Replay(ledger.event_log)
          /\ Replayable(log_file)
      BY <1>1, <1>5, <2>8, <3>2, LinesTold
    <3>4. Past(snapshot, log_file)
      BY <2>1 DEF CauseInv, CopiesFacts
    <3>5. Present(snapshot) =>
             snapshot.state_root = StateRoot(Replay(log_file), BootLaw(constitution))
      BY <2>7, <2>8, <3>1, <3>3 DEF SnapshotAgrees
    <3>6. DiskBoots
      BY <1>1, <2>1, <2>8, <2>9, <3>3, <3>4, <3>5, LinesBoot DEF DiskBoots
    <3> QED BY <2>6, <2>9, <3>6 DEF DownFacts
  <2>10. CASE log_file = <<>>
    <3>1. PICK b : b = Bootstrap(log_file, snapshot, ledger_db)
      OBVIOUS
    <3>2. PICK legacy : legacy = Readable(ledger_db, NoLedger)
      OBVIOUS
    <3>3. legacy.event_log = SavedLog
      BY <3>2 DEF SavedLog
    <3>4. CASE SavedLog # <<>>
      <4>1. /\ Boots(ledger_db, constitution)
            /\ Replay(History(ledger_db)) = Replay(ledger.event_log)
        BY <2>2, <2>5, <2>10, <3>4 DEF RestFacts
      <4>2. SnapshotAgrees(ledger.state_root)
        BY <2>2, <2>5, <3>4 DEF RestFacts, Settled
      <4>3. legacy = ledger_db
        <5>1. legacy # NoLedger
          BY <3>3, <3>4, NoLedgerType
        <5> QED BY <3>2, <5>1, Zenon DEF Readable
      <4>4. /\ b.event_log = ledger_db.event_log /\ b.accounts = ledger_db.accounts
            /\ b.state_root = ledger_db.state_root
        <5>1. legacy.event_log # <<>>
          BY <3>3, <3>4
        <5>2. /\ b.event_log = legacy.event_log /\ b.accounts = legacy.accounts
              /\ b.state_root = legacy.state_root
          BY <2>1, <2>10, <3>1, <3>2, <5>1, BootstrapLegacy
        <5> QED BY <4>3, <5>2
      <4>5. DiskBoots
        BY <3>1, <4>1, <4>4, SameBoot DEF DiskBoots
      <4>6. StateRoot(Replay(History(ledger_db)), BootLaw(constitution)) = ledger.state_root
        BY <2>7, <2>8, <4>1
      <4> QED BY <2>6, <4>2, <4>5, <4>6 DEF DownFacts
    <3>5. CASE SavedLog = <<>>
      <4>1. b.event_log = <<>> /\ b.accounts = NoAccounts /\ b.state_root = None
        BY <2>1, <2>10, <3>1, <3>2, <3>3, <3>5, BootstrapFresh
      <4>2. DiskBoots
        BY <2>8, <3>1, <4>1, FreshBoots DEF DiskBoots
      <4> QED BY <2>6, <3>5, <4>2 DEF DownFacts
    <3> QED BY <3>4, <3>5
  <2> QED BY <2>9, <2>10
<1>9. ~ Present(Torn)
  BY DEF Present
<1>10. Present(ledger_db') => /\ ledger_db'.state_root # None
                              /\ SavedLog' = <<>> => Covered(ledger_db')
  BY <1>3, <1>4, <1>9 DEF SavedLog
<1>11. CopiesFacts'
  <2>1. CopiesFacts
    BY DEF CauseInv
  <2>2. snapshot' = snapshot \/ Past(snapshot', log_file')
    BY <1>3, <1>9 DEF Past
  <2>3. PICK E : E = Event \cup {Torn}
    OBVIOUS
  <2>4. log_file \in Seq(E) /\ Torn \in E
    BY <1>1, <2>3
  <2> QED BY <1>1, <1>3, <2>1, <2>2, <2>4, CopiesKept
<1>12. RefusalsAreExplained'
  BY <1>1 DEF RefusalsAreExplained
<1> QED BY <1>1, <1>7, <1>8, <1>10, <1>11, <1>12 DEF CauseInv

LEMMA BeyondCreds ==
    ASSUME NEW accounts, NEW log \in Seq(Event), Beyond(accounts, log)
    PROVE  Creds(accounts) \subseteq Known(log)
<1>1. PICK told : told = Replay(log)
  OBVIOUS
<1>2. \A a \in DOMAIN told : told[a].credential => a \in Known(log)
  BY <1>1, ReplayDomain
<1>3. \A a \in DOMAIN accounts :
         IF a \in DOMAIN told THEN accounts[a] = told[a] ELSE ~ accounts[a].credential
  BY <1>1 DEF Beyond
<1> QED BY <1>2, <1>3 DEF Creds

\* The file backend boots from ledger_db.json alone.
LEMMA FileBoot ==
    ASSUME backend = "file", NEW log, NEW saved, NEW db, NEW c
    PROVE  Boots(Bootstrap(log, saved, db), c) <=> Boots(Readable(db, NoLedger), c)
<1>1. PICK b : b = Bootstrap(log, saved, db)
  OBVIOUS
<1>2. PICK legacy : legacy = Readable(db, NoLedger)
  OBVIOUS
<1>3. /\ b.event_log = legacy.event_log /\ b.accounts = legacy.accounts
      /\ b.state_root = legacy.state_root
  BY <1>1, <1>2, BootstrapLegacy
<1>4. Boots(b, c) <=> Boots(legacy, c)
  BY <1>3, SameBoot
<1> QED BY <1>1, <1>2, <1>4

\* The line a request appends is the next of the log file until it is written.
LEMMA WriteLines ==
    ASSUME LedgerInv, CauseInv, Write, backend = "replicated", ~ Migrating'
    PROVE  SameEvents(ledger.event_log, Written')
<1>1. /\ writes \in Seq(FileWrite) /\ writes # <<>> /\ mode = "live"
      /\ Head(writes) = writes[1] /\ 1 \in DOMAIN writes
      /\ writes' # <<>> => Head(writes') = writes[2] /\ 2 \in DOMAIN writes
      /\ writes' = <<>> <=> Len(writes) = 1
  BY WriteTakes
<1>2. /\ log_file' = IF Head(writes).file = "log" THEN Append(log_file, Head(writes).content)
                     ELSE log_file
      /\ request' = IF Len(writes) = 1 /\ request # None THEN None ELSE request
      /\ log_file \in Seq(Event \cup {Torn})
  BY DEF Write, LedgerInv, TypeInv, TypeOK
<1>3. \A i \in DOMAIN writes : PendingWrite(i)
  BY <1>1 DEF LedgerInv, PendingInv
<1>4. CASE Migrating
  <2>1. /\ Len(log_file) + Len(writes) = Len(ledger.event_log)
        /\ \A i \in DOMAIN log_file : log_file[i] = ledger.event_log[i]
        /\ \A i \in DOMAIN writes :
              /\ writes[i].file = "log"
              /\ writes[i].content = ledger.event_log[Len(log_file) + i]
    BY <1>1, <1>4 DEF LedgerInv, PendingInv, LineWrite
  <2>2. writes' = <<>>
    BY <1>1, <1>2, <1>4, <2>1 DEF Migrating
  <2>3. PICK S : S = Event \cup {Torn}
    OBVIOUS
  <2>4. PICK log : log = ledger.event_log
    OBVIOUS
  <2>5. log \in Seq(S)
    <3>1. log \in Seq(Event)
      BY <1>1, <2>4, LiveTyped DEF LedgerInv
    <3> QED BY <2>3, <3>1
  <2>6. PICK n : n = Len(log_file)
    OBVIOUS
  <2>7. PICK x : x = writes[1].content
    OBVIOUS
  <2>8. n \in Nat /\ Len(log) = n + 1 /\ x = log[n + 1] /\ \A i \in 1 .. n : log_file[i] = log[i]
    <3>1. Len(writes) = 1 /\ n \in Nat /\ DOMAIN log_file = 1 .. n
      BY <1>1, <1>2, <2>2, <2>6
    <3>2. Len(log) = n + 1 /\ \A i \in 1 .. n : log_file[i] = log[i]
      BY <2>1, <2>4, <2>6, <3>1
    <3>3. x = log[n + 1]
      BY <1>1, <2>1, <2>4, <2>6, <2>7
    <3> QED BY <3>1, <3>2, <3>3
  <2>9. log_file' = Append(log_file, x)
    BY <1>1, <1>2, <2>1, <2>7
  <2>10. Append(log_file, x) = log
    <3>1. log_file \in Seq(S) /\ x \in S
      BY <1>2, <2>3, <2>5, <2>8
    <3>2. PICK all : all = Append(log_file, x)
      OBVIOUS
    <3>3. /\ all \in Seq(S) /\ Len(all) = n + 1 /\ all[n + 1] = x
          /\ \A i \in 1 .. n : all[i] = log_file[i]
      BY <2>6, <3>1, <3>2
    <3>4. \A i \in 1 .. n + 1 : all[i] = log[i]
      BY <2>8, <3>3
    <3>5. all = log
      BY <2>5, <2>8, <3>3, <3>4
    <3> QED BY <3>2, <3>5
  <2> QED BY <2>2, <2>4, <2>9, <2>10 DEF SameEvents, Written
<1>5. CASE ~ Migrating
  <2>1. SameEvents(ledger.event_log, Written)
    BY <1>1, <1>5 DEF CauseInv, LiveFacts
  <2>2. writes' # <<>> => Head(writes').file # "log"
    BY <1>1, <1>3, <1>5 DEF PendingWrite
  <2>3. Written' = log_file'
    BY <2>2 DEF Written
  <2>4. Head(writes).file = "log" => Head(writes).content = request
    BY <1>1, <1>3, <1>5 DEF PendingWrite
  <2>5. Written = log_file'
    BY <1>1, <1>2, <2>4 DEF Written
  <2> QED BY <2>1, <2>3, <2>5
<1> QED BY <1>4, <1>5

LEMMA WriteCauses ==
    ASSUME LedgerInv, CauseInv, Write
    PROVE  CauseInv'
<1>1. /\ writes \in Seq(FileWrite) /\ writes # <<>> /\ mode = "live"
      /\ Head(writes) = writes[1] /\ 1 \in DOMAIN writes /\ Head(writes) \in FileWrite
      /\ \A i \in DOMAIN writes' : writes'[i] = writes[i + 1] /\ i + 1 \in DOMAIN writes
      /\ writes' # <<>> => writes'[Len(writes')] = writes[Len(writes)]
      /\ writes' = <<>> <=> Len(writes) = 1
      /\ writes' \in Seq(FileWrite) /\ Len(writes') = Len(writes) - 1 /\ Len(writes) \in Nat
  BY WriteTakes
<1>2. PICK w : w = Head(writes)
  OBVIOUS
<1>3. /\ log_file' = IF w.file = "log" THEN Append(log_file, w.content) ELSE log_file
      /\ snapshot' = IF w.file = "snapshot" THEN w.content ELSE snapshot
      /\ ledger_db' = IF w.file = "ledger_db" THEN w.content ELSE ledger_db
      /\ constitution' = IF w.file = "constitution" THEN w.content ELSE constitution
      /\ UNCHANGED <<backend, mode, ledger, standby, mishaps>>
      /\ request' = None \/ request' = request
  BY <1>2 DEF Write
<1>4. /\ log_file \in Seq(Event \cup {Torn}) /\ backend \in {"file", "replicated"}
      /\ ledger \in Ledger /\ ledger.event_log \in Seq(Event) /\ ledger.accounts \in Accounts
      /\ w.file = "log" => w.content \in Event
      /\ w.file = "snapshot" => w.content \in Snapshot
      /\ w.file = "ledger_db" => w.content \in Ledger
  BY <1>1, <1>2, StoreAssumption, LiveTyped, WriteKinds DEF LedgerInv, TypeInv, TypeOK
<1>5. \A i \in DOMAIN writes : PendingWrite(i) /\ PendingContent(writes[i], ledger)
  BY <1>1 DEF LedgerInv, PendingInv, CauseInv, LiveFacts
<1>6. /\ ledger.event_log # <<>> /\ Beyond(ledger.accounts, ledger.event_log)
      /\ RootCovers(ledger.state_root, ledger.event_log)
      /\ ~ Migrating => writes[Len(writes)].file = "ledger_db"
      /\ backend = "replicated" /\ ~ Migrating => SameEvents(ledger.event_log, Written)
  BY <1>1 DEF CauseInv, LiveFacts
<1>7. Quiet => QuietFacts
  BY <1>1 DEF CauseInv
<1>8. Migrating /\ writes' # <<>> => Migrating'
  <2>1. ASSUME Migrating, writes' # <<>> PROVE Migrating'
    <3>1. \A i \in DOMAIN writes : writes[i].file = "log"
      BY <1>1, <2>1 DEF LedgerInv, PendingInv, LineWrite
    <3>2. request' = None
      BY <1>3, <2>1 DEF Migrating
    <3>3. Head(writes') = writes'[1] /\ 1 \in DOMAIN writes'
      BY <1>1, <2>1
    <3> QED BY <1>1, <2>1, <3>1, <3>2, <3>3 DEF Migrating
  <2> QED BY <2>1
<1>9. LiveFacts'
  <2>1. \A i \in DOMAIN writes' : PendingContent(writes'[i], ledger)
    BY <1>1, <1>5
  <2>2. writes' # <<>> /\ ~ Migrating' => writes'[Len(writes')].file = "ledger_db"
    BY <1>1, <1>6, <1>8
  <2>3. backend = "replicated" /\ ~ Migrating' => SameEvents(ledger.event_log, Written')
    BY WriteLines
  <2> QED BY <1>3, <1>6, <2>1, <2>2, <2>3 DEF LiveFacts
<1>10. ASSUME Quiet' PROVE Quiet /\ QuietFacts /\ QuietFacts' /\ constitution' = constitution
  <2>1. Quiet /\ QuietFacts
    BY <1>3, <1>7, <1>10 DEF Quiet
  <2>2. constitution' = constitution
    BY <1>1, <1>2, <1>3, <2>1 DEF QuietFacts
  <2>3. QuietFacts'
    BY <1>1, <1>3, <2>1, <2>2 DEF QuietFacts
  <2> QED BY <2>1, <2>2, <2>3
<1>11. ASSUME w.file = "ledger_db"
       PROVE  /\ w.content.event_log = ledger.event_log /\ w.content.accounts = ledger.accounts
              /\ w.content.state_root # None /\ ledger_db' = w.content
              /\ w.content \notin {None, Torn}
              /\ Quiet' => /\ Boots(w.content, constitution)
                           /\ History(w.content) = ledger.event_log
  <2>1. /\ w.content.event_log = ledger.event_log /\ w.content.accounts = ledger.accounts
        /\ w.content.state_root # None
    BY <1>1, <1>2, <1>5, <1>11 DEF PendingWrite, PendingContent
  <2>2. w.content \notin {None, Torn}
    BY <1>4, <1>11, LedgersAssumption
  <2>3. ASSUME Quiet' PROVE Boots(w.content, constitution) /\ History(w.content) = ledger.event_log
    <3>1. /\ w.content.state_root = ledger.state_root
          /\ constitution \in Nat /\ ledger.law = BootLaw(constitution)
          /\ Replayable(ledger.event_log)
          /\ ledger.state_root = StateRoot(Replay(ledger.event_log), ledger.law)
      BY <1>1, <1>2, <1>10, <1>11, <2>3 DEF QuietFacts
    <3>2. Creds(ledger.accounts) \subseteq Known(ledger.event_log)
      BY <1>4, <1>6, BeyondCreds
    <3>3. PICK b : b = w.content
      OBVIOUS
    <3>4. /\ b.event_log \in Seq(Event) /\ b.event_log # <<>>
          /\ Creds(b.accounts) \subseteq Known(b.event_log) /\ Replayable(b.event_log)
          /\ b.state_root \in {None, StateRoot(Replay(b.event_log), BootLaw(constitution))}
      BY <1>4, <1>6, <2>1, <3>1, <3>2, <3>3
    <3>5. Boots(b, constitution) /\ History(b) = b.event_log
      BY <3>1, <3>4, BareBoots
    <3> QED BY <2>1, <3>3, <3>5
  <2> QED BY <1>3, <1>11, <2>1, <2>2, <2>3
<1>12. ASSUME backend' = "file", Quiet' PROVE DiskBoots'
  <2>1. backend = "file" /\ DiskBoots /\ constitution' = constitution
    BY <1>3, <1>10, <1>12 DEF CauseInv
  <2>2. DiskBoots' <=> Boots(Bootstrap(log_file', snapshot', ledger_db'), constitution)
    BY <1>3, <2>1 DEF DiskBoots, Bootstrap
  <2>3. DiskBoots' <=> Boots(Readable(ledger_db', NoLedger), constitution)
    BY <2>1, <2>2, FileBoot
  <2>4. DiskBoots <=> Boots(Readable(ledger_db, NoLedger), constitution)
    BY <2>1, FileBoot DEF DiskBoots
  <2>5. CASE w.file = "ledger_db"
    <3>1. Readable(ledger_db', NoLedger) = w.content
      BY <1>11, <2>5, Zenon DEF Readable
    <3> QED BY <1>11, <1>12, <2>3, <2>5, <3>1
  <2>6. CASE w.file # "ledger_db"
    BY <1>3, <2>1, <2>3, <2>4, <2>6
  <2> QED BY <2>5, <2>6
<1>13. ASSUME Calm' PROVE RestFacts'
  <2>1. Calm /\ Quiet' /\ backend = "replicated"
    BY <1>3, <1>13 DEF Calm, Quiet
  <2>2. RestFacts /\ QuietFacts /\ constitution' = constitution
    BY <1>1, <1>10, <2>1 DEF CauseInv
  <2>3. ASSUME Settled' PROVE SnapshotAgrees(ledger.state_root)'
    <3>1. CASE w.file = "snapshot"
      <4>1. w.content.state_root = ledger.state_root
        BY <1>1, <1>2, <2>2, <3>1 DEF QuietFacts
      <4> QED BY <1>3, <3>1, <4>1 DEF SnapshotAgrees
    <3>2. CASE w.file # "snapshot"
      <4>1. \A i \in DOMAIN writes : i = 1 \/ (i - 1 \in DOMAIN writes' /\ writes'[i - 1] = writes[i])
        <5>1. DOMAIN writes = 1 .. Len(writes) /\ DOMAIN writes' = 1 .. Len(writes) - 1
          BY <1>1
        <5>2. ASSUME NEW i \in DOMAIN writes, i # 1
              PROVE  i - 1 \in DOMAIN writes' /\ writes'[i - 1] = writes[i]
          <6>1. i - 1 \in 1 .. Len(writes) - 1 /\ (i - 1) + 1 = i
            BY <1>1, <5>1, <5>2
          <6> QED BY <1>1, <5>1, <6>1
        <5> QED BY <5>2
      <4>2. Settled
        BY <1>1, <1>2, <2>3, <3>2, <4>1 DEF Settled
      <4> QED BY <1>3, <2>2, <3>2, <4>2 DEF RestFacts, SnapshotAgrees
    <3> QED BY <3>1, <3>2
  <2>4. ASSUME writes' = <<>>, log_file' = <<>>
        PROVE  /\ Boots(ledger_db', constitution)
               /\ Replay(History(ledger_db')) = Replay(ledger.event_log)
    <3>1. ~ Migrating
      <4>1. w.file # "log"
        BY <1>3, <1>4, <2>4
      <4> QED BY <1>2, <4>1 DEF Migrating
    <3>2. w.file = "ledger_db"
      BY <1>1, <1>2, <1>6, <2>4, <3>1
    <3> QED BY <1>11, <2>1, <3>2
  <2> QED BY <1>3, <2>2, <2>3, <2>4 DEF RestFacts
<1>14. Present(ledger_db') => /\ ledger_db'.state_root # None
                              /\ SavedLog' = <<>> => Covered(ledger_db')
  <2>1. CASE w.file = "ledger_db"
    <3>1. Readable(ledger_db', NoLedger) = w.content
      BY <1>11, <2>1, Zenon DEF Readable
    <3>2. SavedLog' # <<>>
      BY <1>6, <1>11, <2>1, <3>1 DEF SavedLog
    <3> QED BY <1>11, <2>1, <3>2
  <2>2. CASE w.file # "ledger_db"
    <3>1. ledger_db' = ledger_db
      BY <1>3, <2>2
    <3> QED BY <3>1 DEF CauseInv, SavedLog
  <2> QED BY <2>1, <2>2
<1>15. CopiesFacts'
  <2>1. CopiesFacts
    BY DEF CauseInv
  <2>2. PICK E : E = Event \cup {Torn}
    OBVIOUS
  <2>3. PICK x : x = IF w.file = "log" THEN w.content ELSE Torn
    OBVIOUS
  <2>4. log_file \in Seq(E) /\ x \in E /\ (log_file' = log_file \/ log_file' = Append(log_file, x))
    BY <1>3, <1>4, <2>2, <2>3
  <2>5. snapshot' = snapshot \/ (backend = "replicated" => Past(snapshot', log_file'))
    <3>1. ASSUME w.file = "snapshot", backend = "replicated" PROVE Past(w.content, log_file)
      <4>1. /\ w.content.accounts = ledger.accounts
            /\ RootCovers(w.content.state_root, ledger.event_log)
        BY <1>1, <1>2, <1>5, <3>1 DEF PendingContent
      <4>2. SameEvents(ledger.event_log, log_file)
        BY <1>2, <1>6, <3>1 DEF Migrating, Written
      <4>3. log_file \in Seq(Event) /\ Replay(log_file) = Replay(ledger.event_log)
        BY <1>4, <4>2, LinesTold
      <4>4. Beyond(w.content.accounts, log_file) /\ RootCovers(w.content.state_root, log_file)
        BY <1>6, <4>1, <4>3 DEF Beyond, RootCovers
      <4>5. /\ Len(log_file) \in 0 .. Len(log_file)
            /\ SubSeq(log_file, 1, Len(log_file)) = log_file
        BY <4>3
      <4>6. Torn \notin Range(log_file)
        BY <4>3, RangeIn, EventsAreValues
      <4> QED BY <4>4, <4>5, <4>6, Zenon DEF Past
    <3> QED BY <1>3, <3>1
  <2> QED BY <1>3, <2>1, <2>4, <2>5, CopiesKept
<1>16. RefusalsAreExplained'
  BY <1>1, <1>3 DEF RefusalsAreExplained
<1> QED BY <1>1, <1>3, <1>9, <1>10, <1>12, <1>13, <1>14, <1>15, <1>16 DEF CauseInv

\* Every account that the root of a boot covers has its event.
LEMMA NoOrphans ==
    ASSUME NEW db \in Ledger, NEW law, db.state_root # None,
           db.state_root \in {None, StateRoot(db.accounts, db.law)},
           db.state_root.balances = StateRoot(Replay(History(db)), law).balances,
           NEW a \in DOMAIN db.accounts, a \notin Known(db.event_log), ~ db.accounts[a].credential
    PROVE  a \in Admitted(db.event_log)
<1>1. db.accounts \in Accounts /\ db.event_log \in Seq(Event)
  BY DEF Ledger
<1>2. PICK told : told = Replay(History(db))
  OBVIOUS
<1>3. PICK balances : balances = db.state_root.balances
  OBVIOUS
<1>4. balances = [x \in DOMAIN db.accounts |-> db.accounts[x].balance]
  <2>1. db.state_root = StateRoot(db.accounts, db.law)
    OBVIOUS
  <2> QED BY <1>3, <2>1, RootIs
<1>5. balances = [x \in DOMAIN told |-> told[x].balance]
  BY <1>2, <1>3, RootIs
<1>6. DOMAIN db.accounts = DOMAIN told
  BY <1>4, <1>5
<1>7. /\ History(db) \in Seq(Event)
      /\ Known(History(db)) = Known(db.event_log) \cup Creds(db.accounts)
      /\ Admitted(History(db)) = Admitted(db.event_log)
  BY <1>1, HistoryTells
<1>8. DOMAIN told = Known(History(db)) \cup Admitted(History(db))
  BY <1>2, <1>7, ReplayDomain
<1>9. a \notin Creds(db.accounts)
  BY DEF Creds
<1> QED BY <1>6, <1>7, <1>8, <1>9

\* Without a log file the snapshot is not read.
LEMMA SnapshotUnread ==
    ASSUME backend = "replicated", NEW s, NEW t, NEW db
    PROVE  Bootstrap(<<>>, s, db) = Bootstrap(<<>>, t, db)
  BY Zenon DEF Bootstrap

\* The repair finds an account to admit only where no boot would have come up.
LEMMA AdmitCauses ==
    ASSUME LedgerInv, CauseInv, AdmitOrphans
    PROVE  CauseInv'
<1>1. /\ mode # "live" /\ mode' = "down" /\ Present(ledger_db)
      /\ UNCHANGED <<backend, log_file, snapshot, constitution, standby, mishaps>>
  BY DEF AdmitOrphans, Present, history
<1>2. PICK db : db = ledger_db
  OBVIOUS
<1>3. /\ db \in Ledger /\ db.event_log \in Seq(Event)
      /\ backend \in {"file", "replicated"} /\ log_file \in Seq(Event \cup {Torn})
  BY <1>1, <1>2, LedgerReads, StoreAssumption DEF LedgerInv, TypeInv, TypeOK, Present
<1>4. /\ db.state_root \in {None, StateRoot(db.accounts, db.law)}
      /\ \E a \in DOMAIN db.accounts \ Known(db.event_log) :
            ~ db.accounts[a].credential /\ a \notin Admitted(db.event_log)
  BY <1>2 DEF AdmitOrphans
<1>5. db.state_root # None
  BY <1>1, <1>2 DEF CauseInv
<1>6. \A law : db.state_root.balances # StateRoot(Replay(History(db)), law).balances
  BY <1>3, <1>4, <1>5, NoOrphans
<1>7. \A c : ~ Boots(db, c)
  <2>1. ASSUME NEW c, Boots(db, c) PROVE FALSE
    <3>1. db.state_root = StateRoot(BootedAccounts(db), BootLaw(c))
      BY <1>5, <2>1 DEF Boots
    <3> QED BY <1>6, <3>1 DEF BootedAccounts
  <2> QED BY <2>1
<1>8. Readable(ledger_db, NoLedger) = db /\ SavedLog = db.event_log
  BY <1>1, <1>2, Zenon DEF Readable, Present, SavedLog
<1>9. SavedLog # <<>>
  BY <1>1, <1>2, <1>6 DEF CauseInv, Covered
<1>10. backend = "file" => ~ DiskBoots
  BY <1>7, <1>8, FileBoot DEF DiskBoots
<1>11. ASSUME backend = "replicated", log_file = <<>> PROVE ~ DiskBoots
  <2>1. PICK b : b = Bootstrap(log_file, snapshot, ledger_db)
    OBVIOUS
  <2>2. /\ b.event_log = db.event_log /\ b.accounts = db.accounts
        /\ b.state_root = db.state_root
    BY <1>8, <1>9, <1>11, <2>1, BootstrapLegacy
  <2>3. ~ Boots(b, constitution)
    BY <1>7, <2>2, SameBoot
  <2> QED BY <2>1, <2>3 DEF DiskBoots
<1>12. (backend = "file" /\ Quiet => DiskBoots)'
  BY <1>1, <1>10 DEF CauseInv, Quiet
<1>13. ASSUME Calm' PROVE DownFacts'
  <2>1. Calm /\ DownFacts /\ backend = "replicated"
    BY <1>1, <1>13 DEF Calm, CauseInv
  <2>2. log_file # <<>>
    BY <1>11, <2>1 DEF DownFacts
  <2>3. Bootstrap(log_file, snapshot, ledger_db') = Bootstrap(log_file, snapshot, ledger_db)
    BY <2>1, <2>2, Zenon DEF Bootstrap
  <2>4. DiskBoots' <=> Boots(Bootstrap(log_file, snapshot, ledger_db'), constitution)
    BY <1>1 DEF DiskBoots, Bootstrap
  <2>5. DiskBoots'
    BY <2>1, <2>3, <2>4 DEF DownFacts, DiskBoots
  <2> QED BY <1>1, <2>2, <2>5 DEF DownFacts
<1>14. ledger_db'.state_root # None /\ SavedLog' # <<>>
  <2>1. PICK more \in Seq(Event) : ledger_db'.event_log = ledger_db.event_log \o more
    BY RepairExtends DEF LedgerInv
  <2>2. ledger_db' \in Ledger
    BY RepairExtends DEF LedgerInv
  <2>3. SavedLog' = ledger_db'.event_log
    BY <2>2, LedgerReads DEF SavedLog
  <2>4. ledger_db'.event_log # <<>>
    BY <1>2, <1>3, <1>8, <1>9, <2>1
  <2>5. ledger_db'.state_root = db.state_root
    <3>1. PICK log : ledger_db' = [db EXCEPT !.event_log = log]
      BY <1>2 DEF AdmitOrphans
    <3> QED BY <1>3, <3>1 DEF Ledger
  <2> QED BY <1>5, <2>3, <2>4, <2>5
<1>15. CopiesFacts'
  BY <1>1 DEF CauseInv, CopiesFacts
<1>16. RefusalsAreExplained'
  BY <1>1 DEF RefusalsAreExplained
<1> QED BY <1>1, <1>12, <1>13, <1>14, <1>15, <1>16 DEF CauseInv

\* "If any check fails, the snapshot must be rejected": without it the log is enough.
LEMMA DeleteCauses ==
    ASSUME LedgerInv, CauseInv, DeleteSnapshot
    PROVE  CauseInv'
<1>1. /\ mode # "live" /\ mode' = "down" /\ snapshot' = None
      /\ UNCHANGED <<backend, log_file, ledger_db, constitution, standby, mishaps>>
  BY DEF DeleteSnapshot, history
<1>2. /\ backend \in {"file", "replicated"} /\ log_file \in Seq(Event \cup {Torn})
      /\ Saved(snapshot, Snapshot) /\ TypeInv /\ constitution \in Nat \cup {Torn}
  BY StoreAssumption DEF LedgerInv, TypeInv, TypeOK, Saved
<1>3. ~ Present(snapshot')
  BY <1>1 DEF Present
<1>4. DiskBoots' <=> Boots(Bootstrap(log_file, snapshot', ledger_db), constitution)
  BY <1>1 DEF DiskBoots, Bootstrap
<1>5. (backend = "file" /\ Quiet => DiskBoots)'
  <2>1. backend = "file" => (DiskBoots' <=> DiskBoots)
    BY <1>4, FileBoot DEF DiskBoots
  <2> QED BY <1>1, <2>1 DEF CauseInv, Quiet
<1>6. ASSUME Calm' PROVE DownFacts'
  <2>1. DownFacts /\ backend = "replicated"
    BY <1>1, <1>6 DEF Calm, CauseInv
  <2>2. DiskBoots'
    <3>1. CASE log_file = <<>>
      BY <1>4, <2>1, <3>1, SnapshotUnread DEF DownFacts, DiskBoots
    <3>2. CASE log_file # <<>>
      <4>1. PICK b : b = Bootstrap(log_file, snapshot, ledger_db)
        OBVIOUS
      <4>2. Boots(b, constitution) /\ b \in BootstrapType
        BY <1>2, <2>1, <4>1, DiskTyped DEF DownFacts, DiskBoots
      <4>3. constitution \in Nat /\ Torn \notin Range(b.event_log) /\ Replayable(History(b))
        BY <1>2, <4>2 DEF Boots
      <4>4. b.event_log = log_file
        BY <2>1, <3>2, <4>1, BootstrapLines
      <4>5. log_file \in Seq(Event)
        BY <4>2, <4>3, <4>4, HistoryExtends
      <4>6. Past(snapshot, log_file)
        BY <2>1 DEF CauseInv, CopiesFacts
      <4>7. History(b) = log_file
        BY <1>2, <2>1, <3>2, <4>1, <4>5, <4>6, LinesHistory
      <4>8. Past(snapshot', log_file) /\ Saved(snapshot', Snapshot)
        BY <1>1, <1>3 DEF Past, Saved
      <4>9. Boots(Bootstrap(log_file, snapshot', ledger_db), constitution)
        BY <1>3, <2>1, <3>2, <4>3, <4>5, <4>7, <4>8, LinesBoot
      <4> QED BY <1>4, <4>9
    <3> QED BY <3>1, <3>2
  <2> QED BY <1>3, <2>2 DEF DownFacts, SnapshotAgrees
<1>7. SavedLog' = SavedLog
  BY <1>1 DEF SavedLog
<1>8. CopiesFacts'
  BY <1>1, <1>3 DEF CauseInv, CopiesFacts, Past
<1>9. RefusalsAreExplained'
  BY <1>1 DEF RefusalsAreExplained
<1> QED BY <1>1, <1>5, <1>6, <1>7, <1>8, <1>9 DEF CauseInv

\* A replayed log gives the accounts a boot begins with, and the administrator.
LEMMA BootTells ==
    ASSUME NEW log \in Seq(Event), NEW law
    PROVE  /\ Beyond(WithAdmin(Replay(log)), log)
           /\ RootCovers(StateRoot(Replay(log), law), log)
<1>1. PICK told : told = Replay(log)
  OBVIOUS
<1>2. PICK accounts : accounts = WithAdmin(told)
  OBVIOUS
<1> DEFINE record == [balance |-> 5000, credential |-> FALSE]
<1>3. Beyond(accounts, log)
  <2>1. CASE Admin \in DOMAIN told
    BY <1>1, <1>2, <2>1 DEF WithAdmin, Beyond
  <2>2. CASE Admin \notin DOMAIN told
    <3>1. accounts = With(told, Admin, record)
      BY <1>2, <2>2 DEF WithAdmin
    <3>2. /\ DOMAIN accounts = DOMAIN told \cup {Admin} /\ accounts[Admin] = record
          /\ \A a \in DOMAIN told : accounts[a] = told[a]
      BY <2>2, <3>1 DEF With
    <3>3. record.credential = FALSE
      OBVIOUS
    <3> QED BY <1>1, <2>2, <3>2, <3>3 DEF Beyond
  <2> QED BY <2>1, <2>2
<1>4. Beyond(told, log)
  BY <1>1 DEF Beyond
<1>5. RootCovers(StateRoot(told, law), log)
  BY <1>4, RootOfAccounts
<1> QED BY <1>1, <1>2, <1>3, <1>5

LEMMA BootCauses ==
    ASSUME LedgerInv, CauseInv, Boot
    PROVE  CauseInv'
<1>1. /\ mode = "down" /\ writes = <<>> /\ request = None
      /\ backend \in {"file", "replicated"} /\ log_file \in Seq(Event \cup {Torn})
      /\ Saved(snapshot, Snapshot) /\ constitution \in Nat \cup {Torn}
      /\ UNCHANGED <<backend, log_file, snapshot, ledger_db, constitution, request, standby>>
  BY StoreAssumption
     DEF Boot, LedgerInv, TypeInv, TypeOK, PendingInv, Saved, disk
<1>2. PICK b : b = Bootstrap(log_file, snapshot, ledger_db)
  OBVIOUS
<1>3. PICK log : log = History(b)
  OBVIOUS
<1>4. IF Boots(b, constitution)
      THEN /\ mode' = "live"
           /\ ledger' = [event_log  |-> log,
                         accounts   |-> WithAdmin(BootedAccounts(b)),
                         state_root |-> StateRoot(BootedAccounts(b), BootLaw(constitution)),
                         law        |-> BootLaw(constitution)]
           /\ writes' = IF b.migrated THEN [i \in DOMAIN log |-> LineWrite(log[i])] ELSE <<>>
           /\ mishaps' = IF b.migrated THEN mishaps
                         ELSE mishaps \ {"untold root", "amendment", "interrupted save"}
      ELSE mode' = "refused" /\ UNCHANGED <<ledger, writes, mishaps>>
  BY <1>2, <1>3, Zenon DEF Boot
<1>5. (DiskBoots' <=> DiskBoots) /\ (DiskBoots <=> Boots(b, constitution))
  BY <1>1, <1>2 DEF DiskBoots, Bootstrap
<1>6. /\ SavedLog' = SavedLog
      /\ Present(ledger_db') => /\ ledger_db'.state_root # None
                                /\ SavedLog' = <<>> => Covered(ledger_db')
      /\ CopiesFacts'
  BY <1>1 DEF CauseInv, SavedLog, CopiesFacts
<1>7. CASE ~ Boots(b, constitution)
  <2>1. mode' = "refused" /\ mishaps' = mishaps /\ ~ DiskBoots
    BY <1>4, <1>5, <1>7
  <2>2. backend = "file" => ~ Quiet
    BY <2>1 DEF CauseInv
  <2>3. ~ Calm
    BY <1>1, <2>1 DEF CauseInv, DownFacts
  <2>4. RefusalsAreExplained'
    BY <1>1, <2>1, <2>2, <2>3 DEF RefusalsAreExplained, Quiet, Calm
  <2> QED BY <1>1, <1>6, <2>1, <2>2, <2>3, <2>4 DEF CauseInv, Quiet, Calm
<1>8. CASE Boots(b, constitution)
  <2>1. b \in BootstrapType
    BY <1>2, DiskTyped DEF LedgerInv
  <2>2. /\ Torn \notin Range(b.event_log) /\ constitution \in Nat
        /\ log \in Seq(Event) /\ log # <<>> /\ b.event_log \in Seq(Event)
        /\ Replayable(log)
        /\ b.state_root \in {None, StateRoot(Replay(log), BootLaw(constitution))}
    BY <1>1, <1>3, <1>8, <2>1, BootsTyped, HistoryExtends DEF Boots, BootedAccounts
  <2>3. PICK law : law = BootLaw(constitution)
    OBVIOUS
  <2>4. /\ mode' = "live"
        /\ ledger'.event_log = log /\ ledger'.accounts = WithAdmin(Replay(log))
        /\ ledger'.state_root = StateRoot(Replay(log), law) /\ ledger'.law = law
    <3>1. PICK told : told = BootedAccounts(b)
      OBVIOUS
    <3>2. told = Replay(log)
      BY <1>3, <3>1 DEF BootedAccounts
    <3>3. PICK accounts : accounts = WithAdmin(told)
      OBVIOUS
    <3>4. PICK root : root = StateRoot(told, law)
      OBVIOUS
    <3>5. /\ mode' = "live"
          /\ ledger' = [event_log |-> log, accounts |-> accounts, state_root |-> root,
                        law |-> law]
      BY <1>4, <1>8, <2>3, <3>1, <3>3, <3>4, Zenon
    <3>6. /\ ledger'.event_log = log /\ ledger'.accounts = accounts
          /\ ledger'.state_root = root /\ ledger'.law = law
      BY <3>5
    <3> QED BY <3>2, <3>3, <3>4, <3>5, <3>6
  <2>5. /\ writes' = IF b.migrated THEN [i \in DOMAIN log |-> LineWrite(log[i])] ELSE <<>>
        /\ b.migrated => mishaps' = mishaps
    BY <1>4, <1>8
  <2>6. /\ \A i \in DOMAIN writes' : writes'[i].file = "log"
        /\ writes' = <<>> => ~ b.migrated
        /\ writes' # <<>> => b.migrated /\ Migrating'
    <3>1. CASE b.migrated
      <4>1. PICK lines : lines = [i \in DOMAIN log |-> LineWrite(log[i])]
        OBVIOUS
      <4>2. writes' = lines
        BY <2>5, <3>1, <4>1
      <4>3. DOMAIN log = 1 .. Len(log) /\ Len(log) \in Nat /\ Len(log) > 0
        BY <2>2
      <4>4. /\ DOMAIN lines = 1 .. Len(log) /\ 1 \in DOMAIN lines /\ lines # <<>>
            /\ \A i \in DOMAIN lines : lines[i].file = "log"
        BY <4>1, <4>3 DEF LineWrite
      <4>5. Head(lines) = lines[1]
        OBVIOUS
      <4> QED BY <1>1, <3>1, <4>2, <4>4, <4>5 DEF Migrating
    <3>2. CASE ~ b.migrated
      <4>1. writes' = <<>>
        BY <2>5, <3>2
      <4> QED BY <3>2, <4>1
    <3> QED BY <3>1, <3>2
  <2>7. PICK legacy : legacy = Readable(ledger_db, NoLedger)
    OBVIOUS
  <2>8. legacy.event_log = SavedLog
    BY <2>7 DEF SavedLog
  <2>9. ASSUME backend = "replicated", log_file # <<>>
        PROVE  /\ ~ b.migrated /\ log = log_file
               /\ Present(snapshot) => snapshot.state_root = StateRoot(Replay(log), law)
    <3>1. /\ ~ b.migrated /\ b.event_log = log_file
          /\ Present(snapshot) => b.state_root = snapshot.state_root
      BY <1>2, <2>9, BootstrapLines
    <3>2. Past(snapshot, log_file)
      BY <2>9 DEF CauseInv, CopiesFacts
    <3>3. log = log_file
      BY <1>1, <1>2, <1>3, <2>2, <2>9, <3>1, <3>2, LinesHistory
    <3>4. Present(snapshot) => snapshot.state_root # None
      <4>1. Present(snapshot) => snapshot \in Snapshot
        BY <1>1 DEF Present, Saved
      <4> QED BY <4>1, LedgersAssumption DEF Snapshot
    <3> QED BY <2>2, <2>3, <3>1, <3>3, <3>4
  <2>10. ASSUME backend = "replicated", log_file = <<>>, SavedLog # <<>>
         PROVE  b.migrated /\ log = History(ledger_db)
    <3>1. legacy.event_log # <<>>
      BY <2>8, <2>10
    <3>2. /\ b.event_log = legacy.event_log /\ b.accounts = legacy.accounts
          /\ b.state_root = legacy.state_root /\ b.migrated
      BY <1>2, <2>7, <2>10, <3>1, BootstrapLegacy
    <3>3. legacy = ledger_db
      <4>1. legacy # NoLedger
        BY <3>1, NoLedgerType
      <4> QED BY <2>7, <4>1, Zenon DEF Readable
    <3>4. History(b) = History(legacy)
      BY <3>2, SameBoot
    <3> QED BY <1>3, <3>2, <3>3, <3>4
  <2>11. ASSUME backend = "replicated", log_file = <<>>, SavedLog = <<>>
         PROVE  ~ b.migrated /\ log = <<SystemGenesis>>
    <3>1. legacy.event_log = <<>>
      BY <2>8, <2>11
    <3>2. /\ b.event_log = <<>> /\ b.accounts = NoAccounts /\ b.state_root = None
          /\ ~ b.migrated
      BY <1>2, <2>7, <2>11, <3>1, BootstrapFresh
    <3>3. History(b) = <<SystemGenesis>>
      BY <2>2, <3>2, FreshBoots
    <3> QED BY <1>3, <3>2, <3>3
  <2>12. LiveFacts'
    <3>1. Beyond(WithAdmin(Replay(log)), log) /\ RootCovers(StateRoot(Replay(log), law), log)
      BY <2>2, BootTells
    <3>2. \A i \in DOMAIN writes' : PendingContent(writes'[i], ledger')
      BY <2>6 DEF PendingContent
    <3>3. ASSUME backend = "replicated", ~ Migrating' PROVE SameEvents(log, Written')
      <4>1. writes' = <<>> /\ ~ b.migrated
        BY <2>6, <3>3
      <4>2. Written' = log_file
        BY <1>1, <4>1 DEF Written
      <4>3. PICK g : g = SystemGenesis
        OBVIOUS
      <4>4. <<g>> = <<g>> \o <<>>
        OBVIOUS
      <4>5. log = log_file \/ (log_file = <<>> /\ log = <<g>>)
        BY <2>9, <2>10, <2>11, <3>3, <4>1, <4>3
      <4> QED BY <4>2, <4>3, <4>4, <4>5 DEF SameEvents
    <3> QED BY <1>1, <2>2, <2>4, <2>6, <3>1, <3>2, <3>3 DEF LiveFacts
  <2>13. QuietFacts'
    BY <1>1, <2>2, <2>3, <2>4, <2>6 DEF QuietFacts
  <2>14. ASSUME Calm' PROVE RestFacts'
    <3>1. backend = "replicated"
      BY <1>1, <2>14 DEF Calm
    <3>2. CASE log_file # <<>>
      <4>1. SnapshotAgrees(ledger.state_root)'
        BY <1>1, <2>4, <2>9, <3>1, <3>2 DEF SnapshotAgrees
      <4> QED BY <1>1, <3>2, <4>1 DEF RestFacts
    <3>3. CASE log_file = <<>> /\ SavedLog # <<>>
      <4>1. b.migrated /\ log = History(ledger_db)
        BY <2>10, <3>1, <3>3
      <4>2. Calm
        BY <1>1, <2>5, <2>14, <4>1 DEF Calm
      <4>3. SnapshotAgrees(StateRoot(Replay(log), law))
        BY <1>1, <2>3, <3>3, <4>1, <4>2 DEF CauseInv, DownFacts
      <4>4. SnapshotAgrees(ledger.state_root)'
        BY <1>1, <2>4, <4>3 DEF SnapshotAgrees
      <4>5. writes' # <<>>
        BY <2>6, <4>1
      <4> QED BY <4>4, <4>5 DEF RestFacts
    <3>4. CASE log_file = <<>> /\ SavedLog = <<>>
      <4>1. writes' = <<>>
        BY <2>6, <2>11, <3>1, <3>4
      <4> QED BY <1>1, <1>6, <3>4, <4>1 DEF RestFacts, Settled
    <3> QED BY <3>2, <3>3, <3>4
  <2>15. RefusalsAreExplained'
    BY <2>4 DEF RefusalsAreExplained
  <2> QED BY <1>5, <1>6, <1>8, <2>4, <2>12, <2>13, <2>14, <2>15 DEF CauseInv
<1> QED BY <1>7, <1>8

LEMMA CausesUnchanged ==
    ASSUME CauseInv, CopiesFacts',
           UNCHANGED <<backend, log_file, snapshot, ledger_db, constitution, mode, ledger, writes,
                       request, mishaps>>
    PROVE  CauseInv'
<1>1. /\ Quiet' <=> Quiet
      /\ Calm' <=> Calm
      /\ DiskBoots' <=> DiskBoots
      /\ SavedLog' = SavedLog
      /\ Written' = Written
      /\ Migrating' <=> Migrating
  BY DEF Quiet, Calm, DiskBoots, Bootstrap, SavedLog, Written, Migrating
<1>2. mode = "live" => LiveFacts'
  BY <1>1 DEF CauseInv, LiveFacts
<1>3. mode = "live" /\ Quiet => QuietFacts'
  BY <1>1 DEF CauseInv, QuietFacts
<1>4. Calm /\ mode # "live" => DownFacts'
  BY <1>1 DEF CauseInv, DownFacts, SnapshotAgrees
<1>5. Calm /\ mode = "live" => RestFacts'
  BY <1>1 DEF CauseInv, RestFacts, Settled, SnapshotAgrees
<1> QED BY <1>1, <1>2, <1>3, <1>4, <1>5 DEF CauseInv, RefusalsAreExplained

LEMMA StandbyCauses ==
    ASSUME LedgerInv, CauseInv, StandbyStep
    PROVE  CauseInv'
<1>1. UNCHANGED <<backend, log_file, snapshot, ledger_db, constitution, mode, ledger, writes,
                  request, mishaps>>
  BY StandbyKeeps
<1>2. standby \in StandbyType /\ log_file \in Seq(Event \cup {Torn}) /\ CopiesFacts
  BY DEF LedgerInv, TypeInv, TypeOK, CauseInv
<1>3. CopiesFacts'
  <2>1. CASE StandbyCopiesLog
    <3>1. /\ backend = "replicated"
          /\ standby' = [standby EXCEPT !.mode = "copying", !.log = log_file]
      BY <2>1 DEF StandbyCopiesLog
    <3>2. standby'.log = log_file /\ standby'.snapshot = standby.snapshot
      BY <1>2, <3>1 DEF StandbyType
    <3>3. Len(log_file) \in 0 .. Len(log_file) /\ SubSeq(log_file, 1, Len(log_file)) = log_file
      BY <1>2
    <3> QED BY <1>1, <1>2, <3>1, <3>2, <3>3 DEF CopiesFacts
  <2>2. CASE StandbyBoots
    <3>1. PICK copied : copied = IF snapshot = None THEN standby.snapshot ELSE snapshot
      OBVIOUS
    <3>2. PICK b : b = Bootstrap(standby.log, copied, None)
      OBVIOUS
    <3>3. standby' = [standby EXCEPT
             !.log      = <<>>,
             !.snapshot = copied,
             !.mode     = IF Boots(b, 0) THEN "live" ELSE "down",
             !.accounts = IF Boots(b, 0) THEN WithAdmin(BootedAccounts(b)) ELSE NoAccounts]
      BY <2>2, <3>1, <3>2, Zenon DEF StandbyBoots
    <3>4. standby'.snapshot = copied /\ standby'.mode # "copying"
      BY <1>2, <3>3 DEF StandbyType
    <3>5. backend = "replicated" => Past(copied, log_file)
      BY <1>2, <3>1 DEF CopiesFacts
    <3> QED BY <1>1, <1>2, <3>4, <3>5 DEF CopiesFacts
  <2>3. CASE StandbyRequest \/ StandbyStops
    <3>1. standby'.snapshot = standby.snapshot /\ standby'.mode # "copying"
      BY <1>2, <2>3 DEF StandbyRequest, StandbyStops, StandbyType
    <3> QED BY <1>1, <1>2, <3>1 DEF CopiesFacts
  <2> QED BY <2>1, <2>2, <2>3 DEF StandbyStep
<1> QED BY <1>1, <1>3, CausesUnchanged

LEMMA InitCauses ==
    ASSUME Init
    PROVE  CauseInv
<1>1. /\ backend \in {"file", "replicated"} /\ log_file = <<>> /\ snapshot = None
      /\ ledger_db \in InitialLedgers /\ constitution = 0 /\ mode = "down" /\ mishaps = {}
      /\ standby.mode = "down" /\ standby.snapshot = None
  BY StoreAssumption DEF Init
<1>2. ~ Present(None)
  BY DEF Present
<1>3. PICK legacy : legacy = Readable(ledger_db, NoLedger)
  OBVIOUS
<1>4. ASSUME Present(ledger_db)
      PROVE  /\ legacy = ledger_db /\ ledger_db.state_root # None /\ Boots(ledger_db, 0)
             /\ Covered(ledger_db)
  <2>1. PICK db : db = ledger_db
    OBVIOUS
  <2>2. db \in InitialLedgers \ {None} /\ db \in Ledger
    BY <1>1, <1>4, <2>1, LedgersAssumption DEF Present
  <2>3. /\ Replayable(History(db))
        /\ db.state_root = StateRoot(BootedAccounts(db), BootLaw(0))
    BY <2>2, FirstBootAssumption
  <2>4. db.event_log \in Seq(Event) /\ db.accounts \in Accounts
    BY <2>2 DEF Ledger
  <2>5. Torn \notin Range(db.event_log)
    BY <2>4, RangeIn, EventsAreValues
  <2>6. Boots(db, 0)
    <3>1. 0 # Torn
      BY LedgersAssumption
    <3> QED BY <2>3, <2>5, <3>1 DEF Boots
  <2>7. db.state_root # None
    <3>1. History(db) \in Seq(Event)
      BY <2>4, HistoryTells
    <3>2. BootedAccounts(db) \in Accounts
      BY <3>1, ReplayType DEF BootedAccounts
    <3>3. db.state_root \in Root
      BY <2>3, <3>2, BootLawType, StateRootType
    <3> QED BY <3>3, LedgersAssumption
  <2>8. Covered(db)
    BY <2>3 DEF Covered, BootedAccounts
  <2>9. legacy = ledger_db
    BY <1>3, <1>4, Zenon DEF Readable, Present
  <2> QED BY <2>1, <2>6, <2>7, <2>8, <2>9
<1>5. ~ Present(ledger_db) => legacy = NoLedger
  BY <1>3, Zenon DEF Readable, Present
<1>6. Boots(legacy, 0)
  <2>1. CASE Present(ledger_db)
    BY <1>4, <2>1
  <2>2. CASE ~ Present(ledger_db)
    <3>1. Boots(NoLedger, 0)
      BY NoLedgerType, FreshBoots
    <3> QED BY <1>5, <2>2, <3>1
  <2> QED BY <2>1, <2>2
<1>7. DiskBoots
  <2>1. PICK b : b = Bootstrap(log_file, snapshot, ledger_db)
    OBVIOUS
  <2>2. CASE backend = "file" \/ legacy.event_log # <<>>
    <3>1. /\ b.event_log = legacy.event_log /\ b.accounts = legacy.accounts
          /\ b.state_root = legacy.state_root
      BY <1>1, <1>3, <2>1, <2>2, BootstrapLegacy
    <3>2. Boots(b, 0)
      BY <1>6, <3>1, SameBoot
    <3> QED BY <1>1, <2>1, <3>2 DEF DiskBoots
  <2>3. CASE backend = "replicated" /\ legacy.event_log = <<>>
    <3>1. b.event_log = <<>> /\ b.accounts = NoAccounts /\ b.state_root = None
      BY <1>1, <1>3, <2>1, <2>3, BootstrapFresh
    <3>2. Boots(b, 0)
      BY <3>1, FreshBoots
    <3> QED BY <1>1, <2>1, <3>2 DEF DiskBoots
  <2> QED BY <1>1, <2>2, <2>3
<1>8. DownFacts
  BY <1>1, <1>2, <1>7 DEF DownFacts, SnapshotAgrees
<1>9. CopiesFacts
  BY <1>1, <1>2 DEF CopiesFacts, Past
<1>10. RefusalsAreExplained
  BY <1>1 DEF RefusalsAreExplained
<1> QED BY <1>1, <1>4, <1>7, <1>8, <1>9, <1>10 DEF CauseInv

LEMMA CauseStep ==
    ASSUME LedgerInv, CauseInv, [Next]_vars
    PROVE  CauseInv'
<1>1. CASE Boot
  BY <1>1, BootCauses
<1>2. CASE Request
  <2>1. PICK e \in Event : e.type \in {"GENESIS", "PASSKEY_ADDED"} /\ ApplyRequest(e)
    BY <1>2, RequestEvents DEF Request
  <2> QED BY <2>1, RequestCauses
<1>3. CASE Remember \/ Amend \/ SaveOnly
  BY <1>3, RememberCauses, AmendCauses, SaveOnlyCauses
<1>4. CASE Write
  BY <1>4, WriteCauses
<1>5. CASE Crash
  BY <1>5, CrashCauses
<1>6. CASE AdmitOrphans \/ DeleteSnapshot
  BY <1>6, AdmitCauses, DeleteCauses
<1>7. CASE StandbyStep
  BY <1>7, StandbyCauses
<1>8. CASE UNCHANGED vars
  <2>1. UNCHANGED <<backend, log_file, snapshot, ledger_db, constitution, mode, ledger, writes,
                    request, mishaps, standby>>
    BY <1>8 DEF vars, disk, node, history
  <2>2. CopiesFacts'
    BY <2>1 DEF CauseInv, CopiesFacts
  <2> QED BY <2>1, <2>2, CausesUnchanged
<1> QED BY <1>1, <1>2, <1>3, <1>4, <1>5, <1>6, <1>7, <1>8 DEF Next, StandbyStep

LEMMA CausesAlways == Spec => [](LedgerInv /\ CauseInv)
<1>1. Init => LedgerInv /\ CauseInv
  BY InitKeeps, InitCauses
<1>2. LedgerInv /\ CauseInv /\ [Next]_vars => (LedgerInv /\ CauseInv)'
  BY LedgerStep, CauseStep
<1> QED BY <1>1, <1>2, PTL DEF Spec

\* A boot refuses only after a root was saved that covers what the log does not tell, after
\* an amendment, or, with the replicated backend, after a crash between the writes of one
\* event: start compares the saved root with the one it replays from every set of files that
\* applyEvent, a crash, the repair and the deletion of the snapshot leave behind.
THEOREM RefusalsHaveCauses == Spec => []RefusalsAreExplained
<1>1. CauseInv => RefusalsAreExplained
  BY DEF CauseInv
<1> QED BY <1>1, CausesAlways, PTL

\* A standby that copied a log and then a snapshot taken of a longer one replays the log and
\* backfills what only the snapshot has: when the roots agree, that is the longer log's state.
LEMMA BackfilledPast ==
    ASSUME NEW b, b.accounts \in Accounts, b.event_log \in Seq(Event),
           NEW past \in Seq(Event), NEW c,
           Known(b.event_log) \subseteq Known(past),
           Admitted(b.event_log) \subseteq Admitted(past),
           Beyond(b.accounts, past), RootCovers(b.state_root, past),
           b.state_root = StateRoot(Replay(History(b)), BootLaw(c))
    PROVE  Replay(History(b)) = Replay(past)
<1>1. PICK log : log = History(b)
  OBVIOUS
<1>2. /\ log \in Seq(Event) /\ Known(log) = Known(b.event_log) \cup Creds(b.accounts)
      /\ Admitted(log) = Admitted(b.event_log)
  BY <1>1, HistoryTells
<1>3. PICK now : now = Replay(log)
  OBVIOUS
<1>4. PICK told : told = Replay(past)
  OBVIOUS
<1>5. /\ DOMAIN now = Known(log) \cup Admitted(log)
      /\ \A a \in DOMAIN now : now[a] \in Account /\ (now[a].credential <=> a \in Known(log))
      /\ now \in Accounts
  BY <1>2, <1>3, ReplayDomain, ReplayType
<1>6. /\ DOMAIN told = Known(past) \cup Admitted(past)
      /\ \A a \in DOMAIN told : told[a] \in Account /\ (told[a].credential <=> a \in Known(past))
      /\ told \in Accounts
  BY <1>4, ReplayDomain, ReplayType
<1>7. PICK balances : balances = b.state_root.balances
  OBVIOUS
<1>8. balances = [a \in DOMAIN now |-> now[a].balance]
  <2>1. b.state_root = StateRoot(now, BootLaw(c))
    BY <1>1, <1>3
  <2> QED BY <1>7, <2>1, RootIs
<1>9. \A a \in DOMAIN told : a \in DOMAIN balances /\ balances[a] = told[a].balance
  BY <1>4, <1>7 DEF RootCovers
<1>10. Creds(b.accounts) \subseteq Known(past)
  BY BeyondCreds
<1>11. DOMAIN now = DOMAIN told
  <2>1. DOMAIN told \subseteq DOMAIN now
    BY <1>8, <1>9
  <2>2. DOMAIN now \subseteq DOMAIN told
    BY <1>2, <1>5, <1>6, <1>10
  <2> QED BY <2>1, <2>2
<1>12. Known(past) \subseteq Known(log)
  <2>1. /\ DOMAIN told \subseteq DOMAIN b.accounts
        /\ \A a \in DOMAIN b.accounts :
              IF a \in DOMAIN told THEN b.accounts[a] = told[a] ELSE ~ b.accounts[a].credential
    BY <1>4 DEF Beyond
  <2>2. ASSUME NEW a \in Known(past) PROVE a \in Creds(b.accounts)
    <3>1. a \in DOMAIN told /\ told[a].credential
      BY <1>6, <2>2
    <3> QED BY <2>1, <3>1 DEF Creds
  <2> QED BY <1>2, <2>2
<1>13. Known(log) \subseteq Known(past)
  BY <1>2, <1>10
<1>14. ASSUME NEW a \in DOMAIN now PROVE now[a] = told[a]
  <2>1. now[a] \in Account /\ told[a] \in Account
    BY <1>5, <1>6, <1>11
  <2>2. now[a].balance = told[a].balance
    BY <1>8, <1>9, <1>11
  <2>3. now[a].credential <=> told[a].credential
    BY <1>5, <1>6, <1>11, <1>12, <1>13
  <2>4. now[a].credential \in BOOLEAN /\ told[a].credential \in BOOLEAN
    BY <2>1 DEF Account
  <2>5. now[a].credential = told[a].credential
    BY <2>3, <2>4
  <2>6. /\ now[a] = [balance |-> now[a].balance, credential |-> now[a].credential]
        /\ told[a] = [balance |-> told[a].balance, credential |-> told[a].credential]
    BY <2>1 DEF Account
  <2> QED BY <2>2, <2>5, <2>6
<1>15. now = told
  <2>1. now = [a \in DOMAIN now |-> now[a]] /\ told = [a \in DOMAIN told |-> told[a]]
    BY <1>5, <1>6 DEF Accounts
  <2> QED BY <1>11, <1>14, <2>1
<1> QED BY <1>1, <1>3, <1>4, <1>15

LEMMA BeginningTells ==
    ASSUME NEW E, NEW lines \in Seq(E), NEW k \in 0 .. Len(lines), NEW n \in 0 .. Len(lines),
           k <= n
    PROVE  /\ Known(SubSeq(lines, 1, k)) \subseteq Known(SubSeq(lines, 1, n))
           /\ Admitted(SubSeq(lines, 1, k)) \subseteq Admitted(SubSeq(lines, 1, n))
<1>1. PICK a : a = SubSeq(lines, 1, k)
  OBVIOUS
<1>2. PICK b : b = SubSeq(lines, 1, n)
  OBVIOUS
<1>3. /\ DOMAIN a = 1 .. k /\ DOMAIN b = 1 .. n
      /\ \A i \in 1 .. k : a[i] = lines[i]
      /\ \A i \in 1 .. n : b[i] = lines[i]
  BY <1>1, <1>2
<1>4. DOMAIN a \subseteq DOMAIN b /\ \A i \in DOMAIN a : a[i] = b[i]
  BY <1>3
<1>5. Known(a) \subseteq Known(b)
  BY <1>4 DEF Known
<1>6. Admitted(a) \subseteq Admitted(b)
  BY <1>4 DEF Admitted
<1> QED BY <1>1, <1>2, <1>5, <1>6

LEMMA UntornType ==
    ASSUME NEW log \in Seq(Event \cup {Torn}), Torn \notin Range(log)
    PROVE  log \in Seq(Event)
<1>1. \A i \in DOMAIN log : log[i] # Torn
  BY DEF Range
<1>2. \A i \in 1 .. Len(log) : log[i] \in Event
  BY <1>1
<1> QED BY <1>2

\* What StandbyBoots boots into: the state of one of the log file's beginnings.
LEMMA CopiedBoot ==
    ASSUME backend = "replicated", NEW lines \in Seq(Event \cup {Torn}),
           NEW k \in 0 .. Len(lines), NEW log, log = SubSeq(lines, 1, k),
           NEW saved, Saved(saved, Snapshot), Past(saved, lines),
           NEW b, b = Bootstrap(log, saved, None), Boots(b, 0)
    PROVE  \E j \in 0 .. Len(lines) : BootedAccounts(b) = Replay(SubSeq(lines, 1, j))
<1>1. log \in Seq(Event \cup {Torn})
  OBVIOUS
<1>2. BootedAccounts(b) = Replay(History(b))
  BY DEF BootedAccounts
<1>3. PICK db : db = None
  OBVIOUS
<1>4. b = Bootstrap(log, saved, db)
  BY <1>3
<1>5. backend = "replicated"
  OBVIOUS
<1>6. CASE log = <<>>
  <2>1. PICK legacy : legacy = Readable(db, NoLedger)
    OBVIOUS
  <2>2. legacy.event_log = <<>>
    <3>1. legacy = NoLedger
      BY <1>3, <2>1, Zenon DEF Readable
    <3> QED BY <3>1, NoLedgerType
  <2>3. b.event_log = <<>> /\ b.accounts = NoAccounts /\ b.state_root = None
    BY ONLY <1>6, <1>4, <1>5, <2>1, <2>2, BootstrapFresh
  <2>4. History(b) = <<SystemGenesis>>
    <3>1. 0 \in Nat
      OBVIOUS
    <3> QED BY <2>3, <3>1, FreshBoots
  <2>5. PICK none : none = <<>>
    OBVIOUS
  <2>6. none \in Seq(Event) /\ SubSeq(lines, 1, 0) = none /\ 0 \in 0 .. Len(lines)
    BY <2>5
  <2>7. PICK g : g = SystemGenesis
    OBVIOUS
  <2>8. <<g>> \o none = <<g>>
    BY <2>5
  <2>9. Replay(<<g>> \o none) = Replay(none)
    BY <2>6, <2>7, SystemGenesisSilent
  <2> QED BY <1>2, <2>4, <2>6, <2>7, <2>8, <2>9
<1>7. CASE log # <<>>
  <2>1. /\ b.event_log = log
        /\ Present(saved) => b.accounts = saved.accounts /\ b.state_root = saved.state_root
        /\ ~ Present(saved) => b.accounts = NoAccounts /\ b.state_root = None
    BY ONLY <1>7, <1>4, <1>5, BootstrapLines
  <2>2. Torn \notin Range(log)
    BY <2>1 DEF Boots
  <2>3. log \in Seq(Event)
    BY <1>1, <2>2, UntornType
  <2>4. ASSUME Creds(b.accounts) \subseteq Known(log)
        PROVE  \E j \in 0 .. Len(lines) : BootedAccounts(b) = Replay(SubSeq(lines, 1, j))
    <3>1. History(b) = log
      BY <1>7, <2>1, <2>3, <2>4, HistoryBare
    <3> QED BY <1>2, <3>1
  <2>5. CASE ~ Present(saved)
    <3>1. Creds(NoAccounts) = {}
      BY DEF Creds, NoAccounts
    <3> QED BY <2>1, <2>4, <2>5, <3>1
  <2>6. CASE Present(saved)
    <3>1. PICK n \in 0 .. Len(lines) :
             /\ Torn \notin Range(SubSeq(lines, 1, n))
             /\ Beyond(saved.accounts, SubSeq(lines, 1, n))
             /\ RootCovers(saved.state_root, SubSeq(lines, 1, n))
      BY <2>6, Zenon DEF Past
    <3>2. PICK past : past = SubSeq(lines, 1, n)
      OBVIOUS
    <3>3. past \in Seq(Event)
      <4>1. past \in Seq(Event \cup {Torn})
        BY <3>2
      <4> QED BY <3>1, <3>2, <4>1, UntornType
    <3>4. saved \in Snapshot
      BY <2>6 DEF Present, Saved
    <3>5. /\ b.accounts = saved.accounts /\ b.accounts \in Accounts
          /\ b.state_root = saved.state_root /\ b.state_root # None
      BY <2>1, <2>6, <3>4, LedgersAssumption DEF Snapshot
    <3>6. Beyond(b.accounts, past) /\ RootCovers(b.state_root, past)
      BY <3>1, <3>2, <3>5
    <3>7. Creds(b.accounts) \subseteq Known(past)
      BY <3>3, <3>6, BeyondCreds
    <3>8. CASE n <= k
      <4>1. Known(past) \subseteq Known(log)
        BY <3>2, <3>8, BeginningTells
      <4> QED BY <2>4, <3>7, <4>1
    <3>9. CASE k <= n
      <4>1. Known(log) \subseteq Known(past) /\ Admitted(log) \subseteq Admitted(past)
        BY <3>2, <3>9, BeginningTells
      <4>2. b.state_root = StateRoot(Replay(History(b)), BootLaw(0))
        BY <1>2, <3>5 DEF Boots
      <4>3. Replay(History(b)) = Replay(past)
        BY <2>1, <2>3, <3>3, <3>5, <3>6, <4>1, <4>2, BackfilledPast
      <4> QED BY <1>2, <3>2, <4>3
    <3> QED BY <3>8, <3>9
  <2> QED BY <2>5, <2>6
<1> QED BY <1>6, <1>7

LEMMA StandbyState ==
    ASSUME LedgerInv, CauseInv, [Next]_vars,
           standby.mode = "copying", standby'.mode = "live"
    PROVE  \E k \in 0 .. Len(log_file) :
              standby'.accounts = WithAdmin(Replay(SubSeq(log_file, 1, k)))
<1>1. StandbyBoots
  <2>1. CASE Boot \/ Request \/ Remember \/ Amend \/ SaveOnly \/ Write \/ Crash
             \/ AdmitOrphans \/ DeleteSnapshot \/ UNCHANGED vars
    <3>1. standby' = standby
      BY <2>1 DEF Boot, Request, ApplyRequest, Remember, Amend, SaveOnly, Save, Write, Crash,
                  AdmitOrphans, DeleteSnapshot, vars
    <3> QED BY <3>1
  <2>2. ~ (StandbyCopiesLog \/ StandbyRequest \/ StandbyStops)
    BY DEF StandbyCopiesLog, StandbyRequest, StandbyStops
  <2> QED BY <2>1, <2>2 DEF Next
<1>2. PICK copied : copied = IF snapshot = None THEN standby.snapshot ELSE snapshot
  OBVIOUS
<1>3. PICK b : b = Bootstrap(standby.log, copied, None)
  OBVIOUS
<1>4. standby' = [standby EXCEPT
         !.log      = <<>>,
         !.snapshot = copied,
         !.mode     = IF Boots(b, 0) THEN "live" ELSE "down",
         !.accounts = IF Boots(b, 0) THEN WithAdmin(BootedAccounts(b)) ELSE NoAccounts]
  BY <1>1, <1>2, <1>3, Zenon DEF StandbyBoots
<1>5. /\ standby \in StandbyType /\ log_file \in Seq(Event \cup {Torn}) /\ CopiesFacts
      /\ Saved(snapshot, Snapshot)
  BY DEF LedgerInv, TypeInv, TypeOK, CauseInv, Saved
<1>6. Boots(b, 0) /\ standby'.accounts = WithAdmin(BootedAccounts(b))
  BY <1>4, <1>5 DEF StandbyType
<1>7. backend = "replicated" /\ \E k \in 0 .. Len(log_file) : standby.log = SubSeq(log_file, 1, k)
  BY <1>5 DEF CopiesFacts
<1>8. PICK k \in 0 .. Len(log_file) : standby.log = SubSeq(log_file, 1, k)
  BY <1>7
<1>9. Saved(copied, Snapshot) /\ Past(copied, log_file)
  BY <1>2, <1>5, <1>7 DEF CopiesFacts, StandbyType, Saved
<1>10. PICK j \in 0 .. Len(log_file) : BootedAccounts(b) = Replay(SubSeq(log_file, 1, j))
  <2>1. PICK lines : lines = log_file
    OBVIOUS
  <2>2. PICK log : log = standby.log
    OBVIOUS
  <2>3. lines \in Seq(Event \cup {Torn}) /\ k \in 0 .. Len(lines) /\ log = SubSeq(lines, 1, k)
    BY <1>5, <1>8, <2>1, <2>2
  <2>4. Saved(copied, Snapshot) /\ Past(copied, lines)
    BY <1>9, <2>1
  <2>5. b = Bootstrap(log, copied, None)
    BY <1>3, <2>2
  <2>6. \E j \in 0 .. Len(lines) : BootedAccounts(b) = Replay(SubSeq(lines, 1, j))
    BY ONLY <1>6, <1>7, <2>3, <2>4, <2>5, CopiedBoot
  <2> QED BY <2>1, <2>6
<1> QED BY <1>6, <1>10

\* A standby copies realm_event_log.jsonl and then realm_snapshot.json while the primary may
\* be writing them.  Its boot replays the copied log, backfills what only the snapshot has and
\* compares roots: what it boots into is a state the primary's log went through.
THEOREM StandbyBootsThePast == Spec => StandbyBootsAPastState
<1>1. LedgerInv /\ CauseInv /\ [Next]_vars =>
         [(standby.mode = "copying" /\ standby'.mode = "live") =>
            \E k \in 0 .. Len(log_file) :
               standby'.accounts = WithAdmin(Replay(SubSeq(log_file, 1, k)))]_vars
  BY StandbyState
<1> QED BY <1>1, CausesAlways, PTL DEF Spec, StandbyBootsAPastState

=============================================================================
