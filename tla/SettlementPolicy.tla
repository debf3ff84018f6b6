---------------------------- MODULE SettlementPolicy ----------------------------
(***************************************************************************)
(* The evaluation of policies (settlement/policy.js and dsl.js): the rules *)
(* of the constitution first, then the rules in code, and the audit log,   *)
(* from which the daily limit of withdrawals is computed.  Every           *)
(* evaluation writes to that log, a dry run too.                           *)
(*                                                                         *)
(* An amount may be stated as the intent's amount, its expected_amount and *)
(* the context's amount, and each rule reads the first of some of them,    *)
(* with parseFloat and unvalidated: Absent stands for none, 0 or "", NaN   *)
(* for a text that is no number, and a number may be negative.  A request  *)
(* keeps what the rules look at, and at most one thing that it lacks.      *)
(***************************************************************************)
EXTENDS Integers, Sequences, FiniteSets, SequencesExt, Folds

CONSTANTS
    Accounts, Assets,
    Absent, NaN,
    Statements,     \* of amounts, as requests make them
    Constitution,   \* [intent types -> sequences of rules]
    Ceiling,        \* AMOUNT_LIMIT, by intent type
    Treasury,       \* TREASURY_MULTISIG: threshold_amount
    DailyMax,       \* DAILY_LIMIT: max_per_day
    AuditSize,      \* entries of the audit log (5000)
    MaxDays         \* bound: the last day

VARIABLES day, audit    \* today, and ledger.policy_audit, oldest first

policyVars == <<day, audit>>

\* Those with rules in code; any other type is left to the constitution.
IntentTypes == {"deposit", "withdrawal", "transfer"}

\* A network or asset that is not listed, the network's confirmations, a quorum of the
\* attestations that are there, treasury_signature, the delay after VERIFIED.
Lacks == {"nothing", "rail", "confirmations", "attestations", "cosignature", "delay"}

Requests ==
    [type : IntentTypes \cup {"other"}, account : Accounts, asset : Assets,
     stated : Statements, lacks : Lacks]

\* A rule of the constitution applies when the fact it looks at is among its values.
ARule(rule) ==
    /\ rule.action \in {"deny", "require", "allow"}
    /\ rule.field \in {"amount", "account", "asset", "lacks"}

PolicyAssumption ==
    /\ Absent \notin Int /\ NaN \notin Int /\ Absent # NaN
    /\ Statements \subseteq [amount : Int \cup {Absent, NaN}, expected : Int \cup {Absent, NaN},
                             context : Int \cup {Absent, NaN}]
    /\ \A type \in DOMAIN Constitution : \A i \in DOMAIN Constitution[type] :
          ARule(Constitution[type][i])
    /\ Treasury \in Nat /\ DailyMax \in Nat /\ MaxDays \in Nat
    /\ AuditSize \in Nat \ {0}

\* a || b, and a > b.
Or(a, b) == IF a = Absent THEN b ELSE a
Exceeds(a, b) == a # NaN /\ a > b

\* buildFacts: the context is spread over what was read from the intent.
Fact(request, field) ==
    IF field = "amount"
    THEN Or(request.stated.context, Or(request.stated.amount, Or(request.stated.expected, 0)))
    ELSE request[field]

\* ConstitutionalDSLInterpreter.evaluate: the first rule that applies and denies or
\* allows ends the evaluation; the ones that require go on.
DslDenial(request) ==
    LET rules == IF request.type \in DOMAIN Constitution THEN Constitution[request.type]
                 ELSE <<>>
        Decides(i) == /\ Fact(request, rules[i].field) \in rules[i].values
                      /\ rules[i].action \in {"deny", "allow"}
    IN  \E i \in DOMAIN rules :
            /\ Decides(i) /\ rules[i].action = "deny"
            /\ \A j \in 1..(i - 1) : ~ Decides(j)

\* What today's entries for the account and the asset add up to, of one of their fields.
Today(field, account, asset) ==
    FoldLeft(LAMBDA sum, e : IF /\ e.allows /\ e.account = account /\ e.asset = asset
                                /\ e.day = day
                             THEN sum + e[field] ELSE sum, 0, audit)

PassedToday(account, asset) == Today("amount", account, asset)

\* Slip: the amount asked for is not counted.
PastTheDailyLimitOnly(request) == PassedToday(request.account, request.asset) > DailyMax

\* Only the intent's amount is asked for; a sum with one that is no number is none.
OverTheDailyLimit(request) ==
    LET amount == Or(request.stated.amount, 0)
    IN  amount # NaN /\ PassedToday(request.account, request.asset) + amount > DailyMax

\* The rules in code, each a condition under which it is not violated.
LegalRail(request) == request.lacks # "rail"
WithinCeiling(request) ==
    LET stated == request.stated
    IN  ~ Exceeds(Or(stated.expected, Or(stated.amount, Or(stated.context, 0))),
                  Ceiling[request.type])
\* Attestations that are not there yet are not asked for.
Attested(request) == request.lacks # "attestations"
Cosigned(request) ==
    Exceeds(Or(request.stated.amount, Or(request.stated.context, 0)), Treasury - 1)
        => request.lacks # "cosignature"

CodeRulesPass(request) ==
    CASE request.type = "deposit" ->
            /\ LegalRail(request) /\ WithinCeiling(request)
            /\ request.lacks # "confirmations" /\ Attested(request)
      [] request.type = "withdrawal" ->
            /\ LegalRail(request) /\ WithinCeiling(request) /\ Cosigned(request)
            /\ request.lacks # "delay" /\ ~ OverTheDailyLimit(request) /\ Attested(request)
      [] request.type = "transfer" -> WithinCeiling(request) /\ Attested(request)
      [] request.type = "other" -> TRUE

\* ConstitutionalPolicyEngine.evaluate, and explainViolation without the audit.
Passes(request) == ~ DslDenial(request) /\ CodeRulesPass(request)

\* _audit: the log keeps its last AuditSize entries.  Of a withdrawal that passed an entry
\* keeps the amount, what was only expected if no other is stated, and no number counts as
\* 0 (e.amount || 0).  The entries' "charged" is not in the code: of an amount that was
\* only expected, and so never compared with the limit, it keeps none but a negative one.
\* Any other entry only takes a place in the log.
Audited(request) ==
    LET stated == Or(request.stated.amount, Or(request.stated.expected, 0))
        amount == IF stated = NaN THEN 0 ELSE stated
        entry  == IF request.type = "withdrawal" /\ Passes(request)
                  THEN [day |-> day, allows |-> TRUE, account |-> request.account,
                        asset |-> request.asset, amount |-> amount,
                        charged |-> IF request.stated.amount = Absent /\ amount > 0 THEN 0
                                    ELSE amount]
                  ELSE [day |-> day, allows |-> FALSE]
        log    == Append(audit, entry)
    IN  IF Len(log) > AuditSize THEN Tail(log) ELSE log

Init == day = 0 /\ audit = <<>>

\* POST /api/policy/evaluate, a dry run, and POST /api/policy/artifacts/evaluate.
Evaluate(request) == audit' = Audited(request) /\ UNCHANGED day

NextDay == day < MaxDays /\ day' = day + 1 /\ UNCHANGED audit

Next ==
    \/ \E request \in Requests : Evaluate(request)
    \/ NextDay

Spec == Init /\ [][Next]_policyVars

-----------------------------------------------------------------------------

TypeOK ==
    /\ day \in 0..MaxDays
    /\ Len(audit) <= AuditSize
    /\ \A i \in DOMAIN audit :
          audit[i] \in [day : 0..MaxDays, allows : {TRUE}, account : Accounts, asset : Assets,
                       amount : Int, charged : Int]
                     \cup [day : 0..MaxDays, allows : {FALSE}]

\* No entry of today has been pushed out of the log by newer ones.
TellsAllOfToday == Len(audit) < AuditSize \/ audit[1].day < day

\* Whatever is evaluated in between - of other accounts, assets, types and days, dry runs,
\* amounts below zero or no amounts - and until the log has forgotten entries of today:
\* what an account was let withdraw of an asset today stays within the limit of the day,
\* but for amounts that were only expected, which the rule does not look at.
DailyLimitKept ==
    TellsAllOfToday =>
        \A account \in Accounts, asset \in Assets :
            Today("charged", account, asset) <= DailyMax

=============================================================================
