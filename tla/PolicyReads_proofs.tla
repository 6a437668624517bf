-------------------------- MODULE PolicyReads_proofs --------------------------
(***************************************************************************)
(* What a GET may say, for every log, every number of readers and every    *)
(* interleaving of calls with the queries of a GET.                        *)
(***************************************************************************)
EXTENDS PolicyReads, SequenceTheorems, FiniteSetTheorems, TLAPS

(* The parts of ReadsInv as predicates on values, so that they can be       *)
(* carried from one state to the next.                                      *)
(* s is a snapshot of a state whose log is now continued by calls. *)
PastOf(s, calls, dam) ==
  /\ s.calls \in Seq(Calls)
  /\ Len(s.calls) <= Len(calls)
  /\ s.calls = SubSeq(calls, 1, Len(s.calls))
  /\ s.valid \in BOOLEAN
  /\ ~ s.valid => dam

(* The rows beside a balance were asked for after it. *)
InOrder(seen) ==
  \A q \in DOMAIN seen \intersect {"documents", "payments"} :
    "summary" \in DOMAIN seen /\ Len(seen["summary"].calls) <= Len(seen[q].calls)

SeenOf(g, calls, dam) ==
  /\ DOMAIN g.seen \subseteq Queries(g.resource)
  /\ \A q \in DOMAIN g.seen : PastOf(g.seen[q], calls, dam)
  /\ InOrder(g.seen)

(* Every query of g saw the state g.start or a later one. *)
SinceOf(g, calls, dam) ==
  /\ PastOf(g.start, calls, dam)
  /\ g.due \subseteq 1 .. Len(g.start.calls)
  /\ \A q \in DOMAIN g.seen :
       /\ Len(g.start.calls) <= Len(g.seen[q].calls)
       /\ ~ g.start.valid => ~ g.seen[q].valid

(* The body shows what h is due, as ShowsWhatWasTold asks. *)
HonestBody(h, body) ==
  /\ h.resource = "policy" =>
       /\ h.due \subseteq Ids(body.billing_documents) \union Ids(body.payments)
       /\ h.due \subseteq 1 .. body.history.event_count
       /\ ~ h.valid => ~ body.history.valid
  /\ h.resource = "ledger" => h.due \subseteq Ids(body.transactions)
  /\ h.resource = "history" =>
       /\ h.due \subseteq 1 .. body.event_count
       /\ ~ h.valid => ~ body.valid

HeldOf(h, L, D) ==
  /\ h.resource \in Resources
  /\ h.policy \in Policies
  /\ SeenOf(h, L[h.policy], h.policy \in D)
  /\ DOMAIN h.seen = Queries(h.resource)
  /\ HonestBody(h, Body(h))

ReadFields == {"policy", "resource", "seen", "if_none_match", "start", "due"}

ReadOf(g, h, L, D) ==
  /\ DOMAIN g = ReadFields
  /\ g.resource \in Resources
  /\ g.policy \notin Policies => g.seen = << >>
  /\ g.policy \in Policies =>
       SeenOf(g, L[g.policy], g.policy \in D) /\ SinceOf(g, L[g.policy], g.policy \in D)
  /\ g.if_none_match # Nothing =>
       /\ h # Nothing
       /\ h.policy = g.policy /\ h.resource = g.resource
       /\ g.if_none_match = Etag(h)

ReaderOf(g, h, L, D) ==
  /\ h # Nothing => HeldOf(h, L, D)
  /\ g # Nothing => ReadOf(g, h, L, D)

Grows(L, M) ==
  \A p \in Policies : Len(L[p]) <= Len(M[p]) /\ L[p] = SubSeq(M[p], 1, Len(L[p]))

-----------------------------------------------------------------------------

LEMMA PrefixOfPrefix ==
  ASSUME NEW S, NEW a \in Seq(S), NEW b \in Seq(S), NEW c \in Seq(S),
         Len(a) <= Len(b), Len(b) <= Len(c),
         a = SubSeq(b, 1, Len(a)), b = SubSeq(c, 1, Len(b))
  PROVE  a = SubSeq(c, 1, Len(a))
<1>1. /\ Len(a) \in Nat /\ Len(b) \in Nat /\ Len(c) \in Nat
  BY LenProperties
<1>2. \A i \in 1 .. Len(a) : a[i] = c[i]
  <2>1. \A i \in 1 .. Len(b) : b[i] = c[i]
    BY <1>1, SubSeqProperties
  <2>2. \A i \in 1 .. Len(a) : a[i] = b[i]
    BY <1>1, SubSeqProperties
  <2> QED BY <1>1, <2>1, <2>2
<1>3. /\ SubSeq(c, 1, Len(a)) \in Seq(S)
      /\ Len(SubSeq(c, 1, Len(a))) = Len(a)
      /\ \A i \in 1 .. Len(a) : SubSeq(c, 1, Len(a))[i] = c[i]
  BY <1>1, SubSeqProperties
<1> QED BY <1>1, <1>2, <1>3, SeqEqual

(* What a reader has seen stays part of the past while the log grows. *)
LEMMA ReaderStays ==
  ASSUME NEW g, NEW h,
         NEW L \in [Policies -> Seq(Calls)], NEW M \in [Policies -> Seq(Calls)],
         NEW D, NEW E, D \subseteq E, Grows(L, M),
         ReaderOf(g, h, L, D)
  PROVE  ReaderOf(g, h, M, E)
<1>1. ASSUME NEW p \in Policies, NEW s, PastOf(s, L[p], p \in D)
      PROVE  PastOf(s, M[p], p \in E)
  <2>1. L[p] \in Seq(Calls) /\ M[p] \in Seq(Calls)
    OBVIOUS
  <2>2. Len(L[p]) <= Len(M[p]) /\ L[p] = SubSeq(M[p], 1, Len(L[p]))
    BY DEF Grows
  <2>3. s.calls \in Seq(Calls) /\ Len(s.calls) <= Len(L[p]) /\ s.calls = SubSeq(L[p], 1, Len(s.calls))
    BY <1>1 DEF PastOf
  <2>4. s.calls = SubSeq(M[p], 1, Len(s.calls))
    BY <2>1, <2>2, <2>3, PrefixOfPrefix
  <2>5. Len(s.calls) <= Len(M[p])
    BY <2>1, <2>2, <2>3, LenProperties
  <2> QED BY <1>1, <2>3, <2>4, <2>5 DEF PastOf
<1>2. ASSUME NEW p \in Policies, NEW x, SeenOf(x, L[p], p \in D)
      PROVE  SeenOf(x, M[p], p \in E)
  BY <1>1, <1>2 DEF SeenOf
<1>3. ASSUME NEW p \in Policies, NEW x, SinceOf(x, L[p], p \in D)
      PROVE  SinceOf(x, M[p], p \in E)
  BY <1>1, <1>3 DEF SinceOf
<1>4. h # Nothing => HeldOf(h, M, E)
  BY <1>2 DEF ReaderOf, HeldOf
<1>5. g # Nothing => ReadOf(g, h, M, E)
  BY <1>2, <1>3 DEF ReaderOf, ReadOf
<1> QED BY <1>4, <1>5 DEF ReaderOf

LEMMA IdsOfRows ==
  ASSUME NEW operation, NEW p, NEW calls
  PROVE  Ids(Rows(operation, p, calls)) = PositionsOf(operation, calls)
<1>1. \A x : x \in Ids(Rows(operation, p, calls)) <=>
             \E i \in PositionsOf(operation, calls) :
               x = [id |-> i, amount_cents |-> Amount(p, calls, i)].id
  BY DEF Ids, Rows
<1> QED BY <1>1

(* Rows of two snapshots, neither older than the prefix, list all of it. *)
LEMMA PrefixIsListed ==
  ASSUME NEW p, NEW calls \in Seq(Calls), NEW prefix, NEW documents, NEW payments,
         NEW dam,
         PastOf(prefix, calls, dam), PastOf(documents, calls, dam),
         PastOf(payments, calls, dam),
         Len(prefix.calls) <= Len(documents.calls),
         Len(prefix.calls) <= Len(payments.calls)
  PROVE  1 .. Len(prefix.calls) \subseteq
           Ids(Rows("endorsement", p, documents.calls))
             \union Ids(Rows("payment", p, payments.calls))
<1> SUFFICES ASSUME NEW i \in 1 .. Len(prefix.calls)
             PROVE  \/ i \in PositionsOf("endorsement", documents.calls)
                    \/ i \in PositionsOf("payment", payments.calls)
  BY IdsOfRows
<1>1. /\ Len(prefix.calls) \in Nat /\ Len(documents.calls) \in Nat
      /\ Len(payments.calls) \in Nat /\ Len(calls) \in Nat
  BY LenProperties DEF PastOf
<1>2. i \in 1 .. Len(documents.calls) /\ i \in 1 .. Len(payments.calls) /\ i \in 1 .. Len(calls)
  BY <1>1 DEF PastOf
<1>3. documents.calls[i] = calls[i] /\ payments.calls[i] = calls[i]
  BY <1>1, <1>2, SubSeqProperties DEF PastOf
<1>4. calls[i] \in Calls
  BY <1>2, ElementOfSeq
<1>5. calls[i].operation \in {"endorsement", "payment"}
  BY <1>4, CallsAssumption
<1>6. /\ DOMAIN documents.calls = 1 .. Len(documents.calls)
      /\ DOMAIN payments.calls = 1 .. Len(payments.calls)
  BY LenProperties DEF PastOf
<1> QED BY <1>2, <1>3, <1>5, <1>6 DEF PositionsOf

(* The body of a GET shows everything that was told before it began. *)
LEMMA AnswerIsHonest ==
  ASSUME NEW g, NEW h, NEW calls \in Seq(Calls), NEW dam,
         g.resource \in Resources, DOMAIN g.seen = Queries(g.resource),
         SeenOf(g, calls, dam), SinceOf(g, calls, dam),
         h.resource = g.resource, h.due = g.due, h.valid = g.start.valid
  PROVE  HonestBody(h, Body(g))
<1> DEFINE before == 1 .. Len(g.start.calls)
<1>1. g.due \subseteq before
  BY DEF SinceOf
<1>2. \A q \in Queries(g.resource) :
        /\ before \subseteq 1 .. Len(g.seen[q].calls)
        /\ ~ g.start.valid => ~ g.seen[q].valid
  <2> TAKE q \in Queries(g.resource)
  <2>1. Len(g.start.calls) \in Nat /\ Len(g.seen[q].calls) \in Nat
    BY LenProperties DEF SeenOf, SinceOf, PastOf
  <2>2. Len(g.start.calls) <= Len(g.seen[q].calls)
    BY DEF SinceOf
  <2> QED BY <2>1, <2>2 DEF SinceOf
<1>3. CASE g.resource = "policy"
  <2>1. {"documents", "payments", "verify"} \subseteq Queries(g.resource)
    BY <1>3 DEF Queries
  <2> DEFINE body == Body(g)
  <2>2. body = PolicyBody(g.policy, g.seen)
    BY <1>3 DEF Body
  <2>3. /\ body.billing_documents = Rows("endorsement", g.policy, g.seen["documents"].calls)
        /\ body.payments = Rows("payment", g.policy, g.seen["payments"].calls)
        /\ body.history.event_count = Len(g.seen["verify"].calls)
        /\ body.history.valid = g.seen["verify"].valid
    BY <2>2 DEF PolicyBody
  <2>4. before \subseteq Ids(body.billing_documents) \union Ids(body.payments)
    <3>1. /\ PastOf(g.start, calls, dam)
          /\ PastOf(g.seen["documents"], calls, dam)
          /\ PastOf(g.seen["payments"], calls, dam)
          /\ Len(g.start.calls) <= Len(g.seen["documents"].calls)
          /\ Len(g.start.calls) <= Len(g.seen["payments"].calls)
      BY <2>1 DEF SeenOf, SinceOf
    <3> HIDE DEF body
    <3> QED BY <3>1, <2>3, PrefixIsListed
  <2> HIDE DEF body
  <2>5. HonestBody(h, body)
    BY <1>1, <1>2, <1>3, <2>1, <2>3, <2>4 DEF HonestBody
  <2> QED BY <2>5 DEF body
<1>4. CASE g.resource = "ledger"
  <2>1. Ids(Body(g).transactions) = DOMAIN g.seen["ledger"].calls
    <3> DEFINE positions == DOMAIN g.seen["ledger"].calls
               lines == {LedgerLine(g.policy, g.seen["ledger"].calls, i) : i \in positions}
    <3>1. Body(g) = LedgerBody(g.policy, g.seen)
      BY <1>4 DEF Body
    <3>2. Body(g).transactions = lines
      BY <3>1 DEF LedgerBody
    <3>3. \A i \in positions : LedgerLine(g.policy, g.seen["ledger"].calls, i).id = i
      BY DEF LedgerLine
    <3>4. Ids(lines) = positions
      BY <3>3 DEF Ids
    <3> QED BY <3>2, <3>4
  <2>2. "ledger" \in Queries(g.resource)
    BY <1>4 DEF Queries
  <2>3. DOMAIN g.seen["ledger"].calls = 1 .. Len(g.seen["ledger"].calls)
    BY <2>2, LenProperties DEF SeenOf, PastOf
  <2> QED BY <1>1, <1>2, <1>4, <2>1, <2>2, <2>3 DEF HonestBody
<1>5. CASE g.resource = "history"
  <2>1. "verify" \in Queries(g.resource)
    BY <1>5 DEF Queries
  <2>2. /\ Body(g).event_count = Len(g.seen["verify"].calls)
        /\ Body(g).valid = g.seen["verify"].valid
    BY <1>5 DEF Body, HistoryBody
  <2> QED BY <1>1, <1>2, <1>5, <2>1, <2>2 DEF HonestBody
<1> QED BY <1>3, <1>4, <1>5 DEF Resources

-----------------------------------------------------------------------------

(* The inductive invariant: every snapshot in a GET or in a body is part of *)
(* the log, none of a GET is older than its beginning, and an ETag that is  *)
(* named is that of the body the reader keeps, which is an honest one.      *)
ReadsInv ==
  /\ TypeOK
  /\ \A r \in Readers : ReaderOf(reads[r], held[r], log, damaged)

LEMMA InitIsSound == Init => ReadsInv
<1> SUFFICES ASSUME Init PROVE ReadsInv
  OBVIOUS
<1>1. TypeOK
  BY EmptySeq DEF Init, TypeOK
<1>2. \A r \in Readers : reads[r] = Nothing /\ held[r] = Nothing
  BY DEF Init
<1> QED BY <1>1, <1>2 DEF ReadsInv, ReaderOf

(* Steps that disturb no reader. *)
LEMMA WriterStep ==
  ASSUME ReadsInv, TypeOK', UNCHANGED <<reads, held>>,
         Grows(log, log'), damaged \subseteq damaged'
  PROVE  ReadsInv'
<1> SUFFICES ASSUME NEW r \in Readers
             PROVE  ReaderOf(reads[r], held[r], log', damaged')
  BY DEF ReadsInv
<1>1. log \in [Policies -> Seq(Calls)] /\ log' \in [Policies -> Seq(Calls)]
  BY DEF ReadsInv, TypeOK
<1>2. ReaderOf(reads[r], held[r], log, damaged)
  BY DEF ReadsInv
<1> QED BY <1>1, <1>2, ReaderStays

LEMMA LogStays ==
  ASSUME TypeOK PROVE Grows(log, log)
<1> SUFFICES ASSUME NEW p \in Policies
             PROVE  Len(log[p]) <= Len(log[p]) /\ log[p] = SubSeq(log[p], 1, Len(log[p]))
  BY DEF Grows
<1>1. log[p] \in Seq(Calls)
  BY DEF TypeOK
<1>2. Len(log[p]) \in Nat /\ DOMAIN log[p] = 1 .. Len(log[p])
  BY <1>1, LenProperties
<1>3. \A i \in 1 .. Len(log[p]) : log[p][i] \in Calls
  BY <1>1, ElementOfSeq
<1>4. /\ SubSeq(log[p], 1, Len(log[p])) \in Seq(Calls)
      /\ Len(SubSeq(log[p], 1, Len(log[p]))) = Len(log[p])
      /\ \A i \in 1 .. Len(log[p]) : SubSeq(log[p], 1, Len(log[p]))[i] = log[p][i]
  BY <1>2, <1>3, SubSeqProperties
<1> QED BY <1>1, <1>2, <1>4, SeqEqual

LEMMA SnapshotIsPast ==
  ASSUME TypeOK, NEW p \in Policies
  PROVE  PastOf(Snapshot(p), log[p], p \in damaged)
<1>1. log[p] \in Seq(Calls) /\ Len(log[p]) \in Nat
  BY LenProperties DEF TypeOK
<1>2. log[p] = SubSeq(log[p], 1, Len(log[p]))
  BY LogStays DEF Grows
<1>3. Snapshot(p).calls = log[p]
  BY DEF Snapshot
<1>4. Snapshot(p).valid = (p \notin damaged)
  BY DEF Snapshot
<1>5. Snapshot(p).valid \in BOOLEAN /\ (~ Snapshot(p).valid => p \in damaged)
  BY <1>4, Zenon
<1> QED BY <1>1, <1>2, <1>3, <1>5 DEF PastOf

LEMMA ApplyKeeps ==
  ASSUME ReadsInv, NEW c \in Calls, Apply(c)
  PROVE  ReadsInv'
<1> DEFINE p == c.policy_id
<1>1. /\ p \in Policies
      /\ log' = [log EXCEPT ![p] = Append(log[p], c)]
      /\ UNCHANGED <<told, damaged, reads, held>>
  BY DEF Apply
<1> HIDE DEF p
<1>2. log \in [Policies -> Seq(Calls)]
  BY DEF ReadsInv, TypeOK
<1>3. /\ Append(log[p], c) \in Seq(Calls)
      /\ Len(Append(log[p], c)) = Len(log[p]) + 1
      /\ \A i \in 1 .. Len(log[p]) : Append(log[p], c)[i] = log[p][i]
      /\ Len(log[p]) \in Nat
  BY <1>1, <1>2, AppendProperties, LenProperties
<1>4. log' \in [Policies -> Seq(Calls)]
  BY <1>1, <1>2, <1>3
<1>5. Grows(log, log')
  <2> SUFFICES ASSUME NEW x \in Policies
               PROVE  Len(log[x]) <= Len(log'[x]) /\ log[x] = SubSeq(log'[x], 1, Len(log[x]))
    BY DEF Grows
  <2>1. CASE x # p
    BY <2>1, <1>1, <1>2, LogStays DEF Grows, ReadsInv
  <2>2. CASE x = p
    <3>1. log'[x] = Append(log[p], c)
      BY <2>2, <1>1, <1>2
    <3>2. log[p] \in Seq(Calls)
      BY <1>1, <1>2
    <3>3. \A i \in 1 .. Len(log[p]) : log[p][i] \in Calls
      BY <3>2, ElementOfSeq
    <3>4. /\ SubSeq(Append(log[p], c), 1, Len(log[p])) \in Seq(Calls)
          /\ Len(SubSeq(Append(log[p], c), 1, Len(log[p]))) = Len(log[p])
          /\ \A i \in 1 .. Len(log[p]) :
                SubSeq(Append(log[p], c), 1, Len(log[p]))[i] = log[p][i]
      BY <1>3, <3>3, SubSeqProperties
    <3>5. log[p] = SubSeq(Append(log[p], c), 1, Len(log[p]))
      BY <3>2, <3>4, SeqEqual
    <3> QED BY <2>2, <1>3, <3>1, <3>5
  <2> QED BY <2>1, <2>2
<1>6. TypeOK'
  <2>1. \A x \in Policies : told'[x] \subseteq DOMAIN log'[x]
    <3> TAKE x \in Policies
    <3>1. log[x] \in Seq(Calls) /\ log'[x] \in Seq(Calls)
      BY <1>2, <1>4
    <3>2. DOMAIN log[x] = 1 .. Len(log[x]) /\ DOMAIN log'[x] = 1 .. Len(log'[x])
      BY <3>1, LenProperties
    <3>3. Len(log[x]) \in Nat /\ Len(log'[x]) \in Nat
      BY <3>1, LenProperties
    <3>4. Len(log[x]) <= Len(log'[x])
      BY <1>5 DEF Grows
    <3> QED BY <1>1, <3>2, <3>3, <3>4 DEF ReadsInv, TypeOK
  <2> QED BY <1>1, <1>4, <2>1 DEF ReadsInv, TypeOK
<1> QED BY <1>1, <1>5, <1>6, WriterStep

LEMMA TellKeeps ==
  ASSUME ReadsInv, NEW p \in Policies, NEW i \in DOMAIN log[p], Tell(p, i)
  PROVE  ReadsInv'
<1>1. i \in Nat
  <2>1. log[p] \in Seq(Calls)
    BY DEF ReadsInv, TypeOK
  <2> QED BY <2>1, LenProperties
<1>2. TypeOK'
  BY <1>1 DEF ReadsInv, TypeOK, Tell
<1>3. Grows(log, log')
  BY LogStays DEF ReadsInv, Tell
<1> QED BY <1>2, <1>3, WriterStep DEF Tell

LEMMA DamageKeeps ==
  ASSUME ReadsInv, NEW p \in Policies, Damage(p)
  PROVE  ReadsInv'
<1>1. TypeOK'
  BY DEF ReadsInv, TypeOK, Damage
<1>2. Grows(log, log')
  BY LogStays DEF ReadsInv, Damage
<1> QED BY <1>1, <1>2, WriterStep DEF Damage

(* Steps of one reader. *)
LEMMA ReaderStep ==
  ASSUME ReadsInv, NEW r \in Readers, UNCHANGED <<log, told, damaged>>,
         NEW g, NEW h,
         DOMAIN reads' = Readers, \A x \in Readers : reads'[x] = IF x = r THEN g ELSE reads[x],
         DOMAIN held' = Readers, \A x \in Readers : held'[x] = IF x = r THEN h ELSE held[x],
         ReaderOf(g, h, log, damaged)
  PROVE  ReadsInv'
<1>1. \A x \in Readers : ReaderOf(reads'[x], held'[x], log', damaged')
  BY DEF ReadsInv
<1>2. \A x \in Readers : /\ reads'[x] # Nothing => reads'[x].resource \in Resources
                         /\ held'[x] # Nothing => held'[x].resource \in Resources
  BY <1>1 DEF ReaderOf, ReadOf, HeldOf
<1>3. TypeOK'
  BY <1>2 DEF ReadsInv, TypeOK
<1> QED BY <1>1, <1>3 DEF ReadsInv

LEMMA GetKeeps ==
  ASSUME ReadsInv, NEW r \in Readers, NEW p \in AskedFor, NEW resource \in Resources,
         Get(r, p, resource)
  PROVE  ReadsInv'
<1> PICK named \in BOOLEAN :
      /\ named => held[r] # Nothing /\ held[r].policy = p /\ held[r].resource = resource
      /\ reads' = [reads EXCEPT ![r] =
           [policy |-> p, resource |-> resource, seen |-> << >>,
            if_none_match |-> IF named THEN Etag(held[r]) ELSE Nothing,
            start |-> IF p \in Policies THEN Snapshot(p) ELSE Nothing,
            due |-> IF p \in Policies THEN told[p] ELSE {}]]
  BY DEF Get
<1> DEFINE g == [policy |-> p, resource |-> resource, seen |-> << >>,
                 if_none_match |-> IF named THEN Etag(held[r]) ELSE Nothing,
                 start |-> IF p \in Policies THEN Snapshot(p) ELSE Nothing,
                 due |-> IF p \in Policies THEN told[p] ELSE {}]
<1>1. /\ DOMAIN g = ReadFields
      /\ g.policy = p /\ g.resource = resource /\ g.seen = << >>
      /\ g.if_none_match = IF named THEN Etag(held[r]) ELSE Nothing
      /\ p \in Policies => g.start = Snapshot(p) /\ g.due = told[p]
  BY DEF ReadFields
<1>2. DOMAIN reads = Readers /\ DOMAIN held = Readers
  BY DEF ReadsInv, TypeOK
<1>3. /\ DOMAIN reads' = Readers
      /\ \A x \in Readers : reads'[x] = IF x = r THEN g ELSE reads[x]
      /\ DOMAIN held' = Readers
      /\ \A x \in Readers : held'[x] = IF x = r THEN held[r] ELSE held[x]
      /\ UNCHANGED <<log, told, damaged>>
  BY <1>2 DEF Get
<1> HIDE DEF g
<1>4. DOMAIN g.seen = {}
  BY <1>1
<1>5. ASSUME p \in Policies
      PROVE  SeenOf(g, log[p], p \in damaged) /\ SinceOf(g, log[p], p \in damaged)
  <2>1. PastOf(g.start, log[p], p \in damaged)
    BY <1>1, <1>5, SnapshotIsPast DEF ReadsInv
  <2>2. g.due \subseteq 1 .. Len(g.start.calls)
    <3>1. log[p] \in Seq(Calls) /\ told[p] \subseteq DOMAIN log[p]
      BY <1>5 DEF ReadsInv, TypeOK
    <3>2. g.start.calls = log[p]
      BY <1>1, <1>5 DEF Snapshot
    <3> QED BY <1>1, <1>5, <3>1, <3>2, LenProperties
  <2>3. SeenOf(g, log[p], p \in damaged)
    BY <1>4 DEF SeenOf, InOrder
  <2>4. SinceOf(g, log[p], p \in damaged)
    BY <1>4, <2>1, <2>2 DEF SinceOf
  <2> QED BY <2>3, <2>4
<1>6. g.if_none_match # Nothing =>
        /\ held[r] # Nothing /\ held[r].policy = g.policy /\ held[r].resource = g.resource
        /\ g.if_none_match = Etag(held[r])
  BY <1>1
<1>7. ReadOf(g, held[r], log, damaged)
  BY <1>1, <1>5, <1>6 DEF ReadOf
<1>8. ReaderOf(g, held[r], log, damaged)
  BY <1>7 DEF ReaderOf, ReadsInv
<1> QED BY <1>3, <1>8, ReaderStep

LEMMA QueryKeeps ==
  ASSUME ReadsInv, NEW r \in Readers, NEW q, Query(r, q)
  PROVE  ReadsInv'
<1> DEFINE old == reads[r]
           p == old.policy
           calls == log[p]
           dam == p \in damaged
           seen == [x \in DOMAIN old.seen \union {q} |->
                      IF x = q THEN Snapshot(p) ELSE old.seen[x]]
           g == [old EXCEPT !.seen = seen]
<1>1. /\ old # Nothing /\ p \in Policies /\ Ready(old, q)
      /\ reads' = [reads EXCEPT ![r].seen = seen]
      /\ UNCHANGED <<log, told, damaged, held>>
  BY DEF Query
<1>2. /\ DOMAIN reads = Readers /\ DOMAIN held = Readers
      /\ calls \in Seq(Calls)
  BY <1>1 DEF ReadsInv, TypeOK
<1>3. ReadOf(old, held[r], log, damaged) /\ ReaderOf(old, held[r], log, damaged)
  BY <1>1 DEF ReadsInv, ReaderOf
<1>4. SeenOf(old, calls, dam) /\ SinceOf(old, calls, dam)
  BY <1>1, <1>3 DEF ReadOf
<1>5. PastOf(Snapshot(p), calls, dam)
  BY <1>1, SnapshotIsPast DEF ReadsInv
<1>6. Snapshot(p).calls = calls /\ Snapshot(p).valid = ~ dam
  BY DEF Snapshot
<1>7. /\ DOMAIN g = ReadFields
      /\ g.policy = p /\ g.resource = old.resource /\ g.seen = seen
      /\ g.if_none_match = old.if_none_match /\ g.start = old.start /\ g.due = old.due
  BY <1>3 DEF ReadOf, ReadFields
<1>8. /\ DOMAIN reads' = Readers
      /\ \A x \in Readers : reads'[x] = IF x = r THEN g ELSE reads[x]
      /\ DOMAIN held' = Readers
      /\ \A x \in Readers : held'[x] = IF x = r THEN held[r] ELSE held[x]
  BY <1>1, <1>2
<1>9. /\ DOMAIN g.seen = DOMAIN old.seen \union {q}
      /\ g.seen[q] = Snapshot(p)
      /\ \A x \in DOMAIN old.seen \ {q} : g.seen[x] = old.seen[x]
  BY <1>7
<1> HIDE DEF g, seen
<1>10. q \in Queries(g.resource) \ DOMAIN old.seen
  BY <1>1, <1>7 DEF Ready
<1>11. SeenOf(g, calls, dam)
  <2>1. DOMAIN g.seen \subseteq Queries(g.resource)
    BY <1>4, <1>7, <1>9, <1>10 DEF SeenOf
  <2>2. \A x \in DOMAIN g.seen : PastOf(g.seen[x], calls, dam)
    BY <1>4, <1>5, <1>9 DEF SeenOf
  <2>3. ASSUME NEW x \in DOMAIN g.seen \intersect {"documents", "payments"}
        PROVE  /\ "summary" \in DOMAIN g.seen
               /\ Len(g.seen["summary"].calls) <= Len(g.seen[x].calls)
    <3>1. "summary" \in DOMAIN old.seen
      BY <1>1, <1>4, <1>9, <2>3 DEF Ready, SeenOf, InOrder
    <3>2. g.seen["summary"] = old.seen["summary"]
      BY <1>9, <1>10, <3>1
    <3>3. CASE x = q
      <4>1. Len(old.seen["summary"].calls) <= Len(calls)
        BY <1>4, <3>1 DEF SeenOf, PastOf
      <4> QED BY <1>6, <1>9, <3>1, <3>2, <3>3, <4>1
    <3>4. CASE x # q
      BY <1>4, <1>9, <2>3, <3>1, <3>2, <3>4 DEF SeenOf, InOrder
    <3> QED BY <3>1, <3>2, <3>3, <3>4, <1>9
  <2> QED BY <2>1, <2>2, <2>3 DEF SeenOf, InOrder
<1>12. SinceOf(g, calls, dam)
  <2>1. PastOf(g.start, calls, dam) /\ g.due \subseteq 1 .. Len(g.start.calls)
    BY <1>4, <1>7 DEF SinceOf
  <2>2. ASSUME NEW x \in DOMAIN g.seen
        PROVE  /\ Len(g.start.calls) <= Len(g.seen[x].calls)
               /\ ~ g.start.valid => ~ g.seen[x].valid
    <3>1. CASE x = q
      BY <1>6, <1>9, <2>1, <3>1 DEF PastOf
    <3>2. CASE x # q
      BY <1>4, <1>7, <1>9, <2>2, <3>2 DEF SinceOf
    <3> QED BY <3>1, <3>2
  <2> QED BY <2>1, <2>2 DEF SinceOf
<1>13. ReadOf(g, held[r], log, damaged)
  BY <1>1, <1>3, <1>7, <1>11, <1>12 DEF ReadOf
<1>14. ReaderOf(g, held[r], log, damaged)
  BY <1>3, <1>13 DEF ReaderOf
<1> QED BY <1>1, <1>8, <1>14, ReaderStep

LEMMA FailKeeps ==
  ASSUME ReadsInv, NEW r \in Readers, Fail(r)
  PROVE  ReadsInv'
<1>1. DOMAIN reads = Readers /\ DOMAIN held = Readers
  BY DEF ReadsInv, TypeOK
<1>2. /\ DOMAIN reads' = Readers
      /\ \A x \in Readers : reads'[x] = IF x = r THEN Nothing ELSE reads[x]
      /\ DOMAIN held' = Readers
      /\ \A x \in Readers : held'[x] = IF x = r THEN held[r] ELSE held[x]
      /\ UNCHANGED <<log, told, damaged>>
  BY <1>1 DEF Fail
<1>3. ReaderOf(Nothing, held[r], log, damaged)
  BY DEF ReadsInv, ReaderOf
<1> QED BY <1>2, <1>3, ReaderStep

LEMMA RespondKeeps ==
  ASSUME ReadsInv, NEW r \in Readers, Respond(r)
  PROVE  ReadsInv'
<1> DEFINE g == reads[r]
           unchanged == g.if_none_match # Nothing /\ g.if_none_match = Etag(g)
           h == [policy |-> g.policy, resource |-> g.resource, due |-> g.due,
                 valid |-> g.start.valid,
                 seen |-> IF unchanged THEN held[r].seen ELSE g.seen]
<1>1. /\ g # Nothing /\ DOMAIN g.seen = Queries(g.resource)
      /\ held' = [held EXCEPT ![r] = h]
      /\ reads' = [reads EXCEPT ![r] = Nothing]
      /\ UNCHANGED <<log, told, damaged>>
  BY DEF Respond
<1>2. DOMAIN reads = Readers /\ DOMAIN held = Readers
  BY DEF ReadsInv, TypeOK
<1>3. /\ DOMAIN reads' = Readers
      /\ \A x \in Readers : reads'[x] = IF x = r THEN Nothing ELSE reads[x]
      /\ DOMAIN held' = Readers
      /\ \A x \in Readers : held'[x] = IF x = r THEN h ELSE held[x]
  BY <1>1, <1>2
<1>4. /\ h.policy = g.policy /\ h.resource = g.resource /\ h.due = g.due
      /\ h.valid = g.start.valid
      /\ h.seen = IF unchanged THEN held[r].seen ELSE g.seen
  OBVIOUS
<1>5. ReadOf(g, held[r], log, damaged) /\ ReaderOf(g, held[r], log, damaged)
  BY <1>1 DEF ReadsInv, ReaderOf
<1> HIDE DEF h
<1>6. g.resource \in Resources
  BY <1>5 DEF ReadOf
<1>7. g.policy \in Policies
  <2>1. Queries(g.resource) # {}
    BY <1>6 DEF Queries, Resources
  <2>2. DOMAIN << >> = {}
    OBVIOUS
  <2> QED BY <1>1, <1>5, <2>1, <2>2 DEF ReadOf
<1> DEFINE calls == log[g.policy]
           dam == g.policy \in damaged
<1>8. SeenOf(g, calls, dam) /\ SinceOf(g, calls, dam) /\ calls \in Seq(Calls)
  BY <1>5, <1>7 DEF ReadOf, ReadsInv, TypeOK
<1>9. HonestBody(h, Body(g))
  BY <1>1, <1>4, <1>6, <1>8, AnswerIsHonest
<1>10. ASSUME unchanged
       PROVE  /\ held[r] # Nothing /\ HeldOf(held[r], log, damaged)
              /\ held[r].policy = g.policy /\ held[r].resource = g.resource
              /\ Body(held[r]) = Body(g)
  BY <1>5, <1>10 DEF ReadOf, ReaderOf, Etag
<1>11. /\ SeenOf(h, calls, dam)
       /\ DOMAIN h.seen = Queries(h.resource)
       /\ Body(h) = Body(g)
  <2>1. CASE unchanged
    <3>1. h.seen = held[r].seen
      BY <1>4, <2>1
    <3>2. Body(h) = Body(held[r])
      BY <1>4, <1>10, <2>1, <3>1 DEF Body
    <3>3. SeenOf(held[r], calls, dam) /\ DOMAIN held[r].seen = Queries(h.resource)
      BY <1>4, <1>10, <2>1 DEF HeldOf
    <3>4. SeenOf(h, calls, dam)
      BY <1>4, <1>10, <2>1, <3>1, <3>3 DEF SeenOf
    <3> QED BY <1>10, <2>1, <3>1, <3>2, <3>3, <3>4
  <2>2. CASE ~ unchanged
    <3>1. h.seen = g.seen
      BY <1>4, <2>2
    <3>2. Body(h) = Body(g)
      BY <1>4, <3>1 DEF Body
    <3> QED BY <1>1, <1>4, <1>8, <3>1, <3>2 DEF SeenOf
  <2> QED BY <2>1, <2>2
<1>12. HeldOf(h, log, damaged)
  BY <1>4, <1>6, <1>7, <1>9, <1>11 DEF HeldOf
<1>13. ReaderOf(Nothing, h, log, damaged)
  BY <1>12 DEF ReaderOf
<1> QED BY <1>1, <1>3, <1>13, ReaderStep

LEMMA NextKeeps == ReadsInv /\ [Next]_vars => ReadsInv'
<1> SUFFICES ASSUME ReadsInv, [Next]_vars PROVE ReadsInv'
  OBVIOUS
<1>1. CASE \E c \in Calls : Apply(c)
  BY <1>1, ApplyKeeps
<1>2. CASE \E p \in Policies : Damage(p) \/ \E i \in DOMAIN log[p] : Tell(p, i)
  BY <1>2, DamageKeeps, TellKeeps
<1>3. CASE \E r \in Readers :
             \/ \E p \in AskedFor, resource \in Resources : Get(r, p, resource)
             \/ \E q \in {"summary", "documents", "payments", "verify", "ledger"} : Query(r, q)
             \/ Fail(r)
             \/ Respond(r)
  BY <1>3, GetKeeps, QueryKeeps, FailKeeps, RespondKeeps
<1>4. CASE UNCHANGED vars
  <2>1. TypeOK'
    BY <1>4 DEF ReadsInv, TypeOK, vars
  <2> QED BY <1>4, <2>1 DEF ReadsInv, vars
<1> QED BY <1>1, <1>2, <1>3, <1>4 DEF Next

-----------------------------------------------------------------------------

(* The inductive invariant holds for every log, every number of readers and *)
(* every interleaving of their queries with calls and with damage.          *)
THEOREM ReadsInvariant == Spec => []ReadsInv
BY InitIsSound, NextKeeps, PTL DEF Spec

(* No response, 200 or 304, masks a call some client was told of before it  *)
(* was asked for, nor a damage that was there by then.                      *)
THEOREM NothingToldIsMasked == Spec => []ShowsWhatWasTold
<1>1. ReadsInv => ShowsWhatWasTold
  <2> SUFFICES ASSUME ReadsInv, NEW r \in Readers, held[r] # Nothing
               PROVE  LET h == held[r] IN
                      /\ h.due \subseteq CallsShown(h)
                      /\ h.resource = "policy" => h.due \subseteq 1 .. Body(h).history.event_count
                      /\ h.resource = "policy" /\ ~ h.valid => ~ Body(h).history.valid
                      /\ h.resource = "history" /\ ~ h.valid => ~ Body(h).valid
    BY DEF ShowsWhatWasTold
  <2> DEFINE h == held[r]
  <2>1. HonestBody(h, Body(h)) /\ h.resource \in Resources
    BY DEF ReadsInv, ReaderOf, HeldOf
  <2> HIDE DEF h
  <2>2. h.due \subseteq CallsShown(h)
    BY <2>1 DEF HonestBody, CallsShown, Resources
  <2>3. /\ h.resource = "policy" => h.due \subseteq 1 .. Body(h).history.event_count
        /\ h.resource = "policy" /\ ~ h.valid => ~ Body(h).history.valid
        /\ h.resource = "history" /\ ~ h.valid => ~ Body(h).valid
    BY <2>1 DEF HonestBody
  <2> QED BY <2>2, <2>3 DEF h
<1> QED BY <1>1, ReadsInvariant, PTL

(* The balance of a body is that after calls which are all listed beside    *)
(* it, though its queries saw several states.                               *)
THEOREM BalancesAreListed == Spec => []BalanceIsListed
<1>1. ReadsInv => BalanceIsListed
  <2> SUFFICES ASSUME ReadsInv, NEW r \in Readers, held[r] # Nothing,
                      held[r].resource = "policy"
               PROVE  LET h == held[r] IN
                      \E n \in 0 .. Len(log[h.policy]) :
                        /\ Body(h).open_balance_cents = Balance(h.policy, SubSeq(log[h.policy], 1, n))
                        /\ 1 .. n \subseteq CallsShown(h)
    BY DEF BalanceIsListed
  <2> DEFINE h == held[r]
             calls == log[h.policy]
             dam == h.policy \in damaged
             n == Len(h.seen["summary"].calls)
  <2>1. /\ h.policy \in Policies
        /\ SeenOf(h, calls, dam)
        /\ DOMAIN h.seen = Queries("policy")
    BY DEF ReadsInv, ReaderOf, HeldOf
  <2>2. calls \in Seq(Calls)
    BY <2>1 DEF ReadsInv, TypeOK
  <2>3. {"summary", "documents", "payments"} \subseteq DOMAIN h.seen
    BY <2>1 DEF Queries
  <2>4. /\ PastOf(h.seen["summary"], calls, dam)
        /\ PastOf(h.seen["documents"], calls, dam)
        /\ PastOf(h.seen["payments"], calls, dam)
        /\ n <= Len(h.seen["documents"].calls)
        /\ n <= Len(h.seen["payments"].calls)
    BY <2>1, <2>3 DEF SeenOf, InOrder
  <2>5. n \in 0 .. Len(calls) /\ h.seen["summary"].calls = SubSeq(calls, 1, n)
    BY <2>2, <2>4, LenProperties DEF PastOf
  <2>6. Body(h) = PolicyBody(h.policy, h.seen)
    BY DEF Body
  <2>7. /\ Body(h).open_balance_cents = Balance(h.policy, h.seen["summary"].calls)
        /\ Body(h).billing_documents = Rows("endorsement", h.policy, h.seen["documents"].calls)
        /\ Body(h).payments = Rows("payment", h.policy, h.seen["payments"].calls)
    BY <2>6 DEF PolicyBody
  <2>8. 1 .. n \subseteq Ids(Rows("endorsement", h.policy, h.seen["documents"].calls))
                         \union Ids(Rows("payment", h.policy, h.seen["payments"].calls))
    BY <2>2, <2>4, PrefixIsListed
  <2>9. CallsShown(h) = Ids(Body(h).billing_documents) \union Ids(Body(h).payments)
    BY DEF CallsShown
  <2>10. 1 .. n \subseteq CallsShown(h)
    BY <2>7, <2>8, <2>9
  <2>11. Body(h).open_balance_cents = Balance(h.policy, SubSeq(calls, 1, n))
    BY <2>5, <2>7
  <2> QED BY <2>5, <2>10, <2>11
<1> QED BY <1>1, ReadsInvariant, PTL

-----------------------------------------------------------------------------
(* Sums: a fold of + over a finite set does not depend on the order *)

(* A property of some subset of a finite set has a smallest one with it. *)
LEMMA SmallestSubset ==
  ASSUME NEW U, IsFiniteSet(U), NEW T \in SUBSET (SUBSET U), T # {}
  PROVE  \E s \in T : \A t \in SUBSET s : t # s => t \notin T
<1> DEFINE R == StrictSubsetOrdering(U)
<1>1. SUBSET U \subseteq FiniteSubsetsOf(U)
  BY FS_Subset DEF FiniteSubsetsOf
<1>2. IsWellFoundedOn(R, FiniteSubsetsOf(U))
  BY FS_StrictSubsetOrderingWellFounded
<1>3. ASSUME NEW s \in SUBSET U, NEW t \in SUBSET s, t # s
      PROVE  <<t, s>> \in R
  BY <1>3 DEF StrictSubsetOrdering
<1>4. T \subseteq FiniteSubsetsOf(U)
  BY <1>1
<1> HIDE DEF R
<1>5. PICK s \in T : \A t \in T : ~ (<<t, s>> \in R)
  BY <1>2, <1>4, WFMin
<1> QED
  BY <1>3, <1>5

(* f adds up the weights w of every subset of U, a chosen row at a time. *)
AddsUp(w, f, U) ==
  f = [s \in SUBSET U |-> IF s = {} THEN 0
                          ELSE LET x == CHOOSE x \in s : TRUE
                               IN w[x] + f[s \ {x}]]
Chosen(s) == CHOOSE x \in s : TRUE

LEMMA AddsUpAt ==
  ASSUME NEW w, NEW U, NEW f
  PROVE  AddsUp(w, f, U) <=>
           /\ f = [s \in SUBSET U |-> f[s]]
           /\ \A s \in SUBSET U :
                f[s] = IF s = {} THEN 0 ELSE w[Chosen(s)] + f[s \ {Chosen(s)}]
<1> DEFINE G(s) == IF s = {} THEN 0 ELSE w[Chosen(s)] + f[s \ {Chosen(s)}]
<1>1. AddsUp(w, f, U) <=> f = [s \in SUBSET U |-> G(s)]
  BY Zenon DEF AddsUp, Chosen
<1> HIDE DEF G
<1>2. f = [s \in SUBSET U |-> G(s)] <=> /\ f = [s \in SUBSET U |-> f[s]]
                                        /\ \A s \in SUBSET U : f[s] = G(s)
  OBVIOUS
<1> QED
  BY <1>1, <1>2 DEF G

LEMMA ChosenIn ==
  ASSUME NEW s, s # {}
  PROVE  Chosen(s) \in s /\ s \ {Chosen(s)} \in SUBSET s /\ s \ {Chosen(s)} # s
BY DEF Chosen

LEMMA SameSums ==
  ASSUME NEW w, NEW U, NEW V, V \subseteq U, IsFiniteSet(V),
         NEW f, NEW g, AddsUp(w, f, U), AddsUp(w, g, V)
  PROVE  \A s \in SUBSET V : f[s] = g[s]
<1> DEFINE T == {s \in SUBSET V : f[s] # g[s]}
<1> SUFFICES T = {}
  OBVIOUS
<1> SUFFICES ASSUME T # {} PROVE FALSE
  OBVIOUS
<1>1. PICK s \in T : \A t \in SUBSET s : t # s => t \notin T
  <2> T \in SUBSET (SUBSET V)
    OBVIOUS
  <2> HIDE DEF T
  <2> QED
    BY SmallestSubset
<1>2. s \in SUBSET V /\ s \in SUBSET U
  OBVIOUS
<1>3. /\ f[s] = IF s = {} THEN 0 ELSE w[Chosen(s)] + f[s \ {Chosen(s)}]
      /\ g[s] = IF s = {} THEN 0 ELSE w[Chosen(s)] + g[s \ {Chosen(s)}]
  BY <1>2, AddsUpAt
<1>4. s # {}
  BY <1>3
<1>5. f[s \ {Chosen(s)}] = g[s \ {Chosen(s)}]
  BY <1>1, <1>2, <1>4, ChosenIn
<1> QED
  BY <1>3, <1>4, <1>5

SumOf(w, U) == (CHOOSE f : AddsUp(w, f, U))[U]

LEMMA SumIs ==
  ASSUME NEW w, NEW U, IsFiniteSet(U), NEW f, AddsUp(w, f, U)
  PROVE  SumOf(w, U) = f[U]
<1> DEFINE g == CHOOSE h : AddsUp(w, h, U)
<1>1. AddsUp(w, g, U)
  BY Zenon
<1>2. SumOf(w, U) = g[U]
  BY DEF SumOf
<1> HIDE DEF g
<1> QED
  BY <1>1, <1>2, SameSums

LEMMA SumsExist ==
  ASSUME NEW w, NEW U, IsFiniteSet(U)
  PROVE  \E f : AddsUp(w, f, U)
<1> DEFINE T == {u \in SUBSET U : ~ \E f : AddsUp(w, f, u)}
<1> SUFFICES T = {}
  OBVIOUS
<1> SUFFICES ASSUME T # {} PROVE FALSE
  OBVIOUS
<1>1. PICK u \in T : \A t \in SUBSET u : t # u => t \notin T
  <2> T \in SUBSET (SUBSET U)
    OBVIOUS
  <2> HIDE DEF T
  <2> QED
    BY SmallestSubset
<1>2. u \in SUBSET U /\ ~ \E f : AddsUp(w, f, u)
  OBVIOUS
<1>3. \A t \in SUBSET u : t # u => \E f : AddsUp(w, f, t)
  BY <1>1, <1>2
<1>4. \A t \in SUBSET u : IsFiniteSet(t)
  BY <1>2, FS_Subset
<1> HIDE DEF T
<1> DEFINE H(s) == IF s = {} THEN 0
                   ELSE w[Chosen(s)] + SumOf(w, s \ {Chosen(s)})
           g == [s \in SUBSET u |-> H(s)]
<1>5. ASSUME NEW r \in SUBSET u, r # u
      PROVE  H(r) = SumOf(w, r)
  <2>1. PICK f : AddsUp(w, f, r)
    BY <1>3, <1>5
  <2>2. SumOf(w, r) = f[r]
    BY <1>4, <2>1, SumIs
  <2>3. f[r] = IF r = {} THEN 0 ELSE w[Chosen(r)] + f[r \ {Chosen(r)}]
    BY <2>1, AddsUpAt
  <2>4. CASE r = {}
    BY <2>2, <2>3, <2>4
  <2>5. CASE r # {}
    <3> DEFINE q == r \ {Chosen(r)}
    <3>1. q \in SUBSET r /\ q # r /\ q \in SUBSET u /\ q # u
      BY <2>5, ChosenIn
    <3> HIDE DEF q
    <3>2. PICK h : AddsUp(w, h, q)
      BY <1>3, <3>1
    <3>3. SumOf(w, q) = h[q]
      BY <1>4, <3>1, <3>2, SumIs
    <3>4. f[q] = h[q]
      BY <1>4, <2>1, <3>1, <3>2, SameSums
    <3>5. H(r) = w[Chosen(r)] + SumOf(w, q)
      BY <2>5 DEF q
    <3>6. f[r] = w[Chosen(r)] + f[q]
      BY <2>3, <2>5 DEF q
    <3> QED
      BY <2>2, <3>3, <3>4, <3>5, <3>6
  <2> QED
    BY <2>4, <2>5
<1>6. AddsUp(w, g, u)
  <2>1. \A s \in SUBSET u : g[s] = H(s)
    OBVIOUS
  <2>2. g = [s \in SUBSET u |-> g[s]]
    BY <2>1
  <2> HIDE DEF g
  <2>3. ASSUME NEW s \in SUBSET u
        PROVE  g[s] = IF s = {} THEN 0 ELSE w[Chosen(s)] + g[s \ {Chosen(s)}]
    <3>1. CASE s = {}
      BY <2>1, <3>1
    <3>2. CASE s # {}
      <4> DEFINE q == s \ {Chosen(s)}
      <4>1. q \in SUBSET u /\ q # u
        BY <3>2, ChosenIn
      <4>2. H(s) = w[Chosen(s)] + SumOf(w, q)
        BY <3>2
      <4> HIDE DEF q, H
      <4>3. g[q] = SumOf(w, q)
        BY <1>5, <2>1, <4>1
      <4> QED
        BY <2>1, <3>2, <4>2, <4>3 DEF q
    <3> QED
      BY <3>1, <3>2
  <2> QED
    BY <2>2, <2>3, AddsUpAt
<1> QED
  BY <1>2, <1>6

LEMMA SumUnfolds ==
  ASSUME NEW w, NEW U, IsFiniteSet(U)
  PROVE  /\ SumOf(w, {}) = 0
         /\ U # {} => SumOf(w, U) = w[Chosen(U)] + SumOf(w, U \ {Chosen(U)})
<1>1. PICK f : AddsUp(w, f, U)
  BY SumsExist
<1>2. ASSUME NEW V \in SUBSET U PROVE SumOf(w, V) = f[V]
  <2>1. IsFiniteSet(V)
    BY FS_Subset
  <2>2. PICK g : AddsUp(w, g, V)
    BY <2>1, SumsExist
  <2> QED
    BY <1>1, <2>1, <2>2, SameSums, SumIs
<1>3. SumOf(w, {}) = 0 /\ SumOf(w, U) = f[U]
  BY <1>1, <1>2, AddsUpAt
<1>4. CASE U = {}
  BY <1>3, <1>4
<1>5. CASE U # {}
  <2>1. SumOf(w, U \ {Chosen(U)}) = f[U \ {Chosen(U)}]
    BY <1>2, <1>5, ChosenIn
  <2> QED
    BY <1>1, <1>3, <1>5, <2>1, AddsUpAt
<1> QED
  BY <1>4, <1>5

(* A sum of integers is an integer. *)
LEMMA SumIsInteger ==
  ASSUME NEW w, NEW U, IsFiniteSet(U), \A x \in U : w[x] \in Int
  PROVE  SumOf(w, U) \in Int
<1> DEFINE T == {s \in SUBSET U : SumOf(w, s) \notin Int}
<1> SUFFICES T = {}
  OBVIOUS
<1> SUFFICES ASSUME T # {} PROVE FALSE
  OBVIOUS
<1>1. PICK s \in T : \A t \in SUBSET s : t # s => t \notin T
  <2> T \in SUBSET (SUBSET U)
    OBVIOUS
  <2> HIDE DEF T
  <2> QED
    BY SmallestSubset
<1>2. s \in SUBSET U /\ SumOf(w, s) \notin Int /\ IsFiniteSet(s)
  BY FS_Subset
<1>3. s # {}
  <2>1. SumOf(w, {}) = 0
    BY <1>2, SumUnfolds
  <2> QED
    BY <1>2, <2>1
<1>4. Chosen(s) \in s /\ SumOf(w, s \ {Chosen(s)}) \in Int
  BY <1>1, <1>2, <1>3, ChosenIn
<1> QED
  BY <1>2, <1>3, <1>4, SumUnfolds

(* Any row can be taken out first. *)
LEMMA SumRemoves ==
  ASSUME NEW w, NEW U, IsFiniteSet(U), \A x \in U : w[x] \in Int, NEW y \in U
  PROVE  SumOf(w, U) = w[y] + SumOf(w, U \ {y})
<1> DEFINE Off(s) == \E x \in s : SumOf(w, s) # w[x] + SumOf(w, s \ {x})
           T == {s \in SUBSET U : Off(s)}
<1> SUFFICES T = {}
  OBVIOUS
<1> SUFFICES ASSUME T # {} PROVE FALSE
  OBVIOUS
<1>1. PICK s \in T : \A t \in SUBSET s : t # s => t \notin T
  <2> T \in SUBSET (SUBSET U)
    OBVIOUS
  <2> HIDE DEF T
  <2> QED
    BY SmallestSubset
<1>2. s \in SUBSET U /\ Off(s) /\ IsFiniteSet(s)
  BY FS_Subset
<1>3. PICK x \in s : SumOf(w, s) # w[x] + SumOf(w, s \ {x})
  BY <1>2
<1>4. \A t \in SUBSET s : t # s =>
        \A z \in t : SumOf(w, t) = w[z] + SumOf(w, t \ {z})
  BY <1>1, <1>2
<1> HIDE DEF T, Off
<1> DEFINE c == Chosen(s)
<1>5. c \in s /\ SumOf(w, s) = w[c] + SumOf(w, s \ {c})
  BY <1>2, <1>3, ChosenIn, SumUnfolds
<1> HIDE DEF c
<1>6. c # x
  BY <1>3, <1>5
<1>7. /\ SumOf(w, s \ {c}) = w[x] + SumOf(w, (s \ {c}) \ {x})
      /\ SumOf(w, s \ {x}) = w[c] + SumOf(w, (s \ {x}) \ {c})
  <2>1. /\ s \ {c} \in SUBSET s /\ s \ {c} # s /\ x \in s \ {c}
        /\ s \ {x} \in SUBSET s /\ s \ {x} # s /\ c \in s \ {x}
    BY <1>5, <1>6
  <2> QED
    BY <1>4, <2>1, Zenon
<1>8. (s \ {c}) \ {x} = (s \ {x}) \ {c}
  OBVIOUS
<1>9. SumOf(w, (s \ {x}) \ {c}) \in Int
  <2> DEFINE q == (s \ {x}) \ {c}
  <2>1. q \in SUBSET U
    BY <1>2
  <2> HIDE DEF q
  <2>2. IsFiniteSet(q)
    BY <2>1, FS_Subset
  <2>3. SumOf(w, q) \in Int
    BY <2>1, <2>2, SumIsInteger
  <2> QED
    BY <2>3 DEF q
<1>10. w[x] \in Int /\ w[c] \in Int
  BY <1>2, <1>5
<1> DEFINE sum == SumOf(w, s)
           withoutX == SumOf(w, s \ {x})
           withoutC == SumOf(w, s \ {c})
           rest == SumOf(w, (s \ {x}) \ {c})
           a == w[c]
           b == w[x]
<1>11. /\ sum = a + withoutC /\ withoutC = b + rest /\ withoutX = a + rest
       /\ sum # b + withoutX
       /\ rest \in Int /\ a \in Int /\ b \in Int
  BY <1>3, <1>5, <1>7, <1>8, <1>9, <1>10, Zenon
<1> HIDE DEF sum, withoutX, withoutC, rest, a, b
<1> QED
  BY <1>11

LEMMA SumAdds ==
  ASSUME NEW w, NEW U, IsFiniteSet(U), \A x \in U : w[x] \in Int,
         NEW y, y \notin U, w[y] \in Int
  PROVE  SumOf(w, U \union {y}) = SumOf(w, U) + w[y]
<1> DEFINE V == U \union {y}
<1>1. IsFiniteSet(V) /\ y \in V /\ \A x \in V : w[x] \in Int
  BY FS_AddElement
<1>2. V \ {y} = U
  OBVIOUS
<1> HIDE DEF V
<1>3. SumOf(w, V) = w[y] + SumOf(w, V \ {y})
  BY <1>1, SumRemoves
<1>4. SumOf(w, V \ {y}) = SumOf(w, U) /\ SumOf(w, U) \in Int
  BY <1>2, SumIsInteger, Zenon
<1>5. SumOf(w, V) = SumOf(w, U) + w[y]
  BY <1>3, <1>4
<1> QED
  BY <1>5 DEF V

-----------------------------------------------------------------------------
(* The balance and the rows beside it *)

(* The sum of a list of rows, as a client adds it up. *)
AmountsOf(rows) == MapThenSumSet(LAMBDA row : row.amount_cents, rows)

LEMMA AmountsAre ==
  ASSUME NEW U, IsFiniteSet(U), NEW w, \A x \in U : w[x] = x.amount_cents
  PROVE  AmountsOf(U) = SumOf(w, U)
<1> DEFINE P(h) == h = [s \in SUBSET U |->
                          IF s = {} THEN 0
                          ELSE LET x == CHOOSE x \in s : TRUE
                               IN x.amount_cents + h[s \ {x}]]
           iter == CHOOSE h : P(h)
<1>1. AmountsOf(U) = iter[U]
  BY Zenon DEF AmountsOf, MapThenSumSet, MapThenFoldSet, iter, P
<1>2. \A h : P(h) <=> AddsUp(w, h, U)
  <2> TAKE h
  <2> DEFINE A(s) == IF s = {} THEN 0
                     ELSE Chosen(s).amount_cents + h[s \ {Chosen(s)}]
             B(s) == IF s = {} THEN 0 ELSE w[Chosen(s)] + h[s \ {Chosen(s)}]
  <2>1. P(h) <=> h = [s \in SUBSET U |-> A(s)]
    BY Zenon DEF Chosen
  <2>2. AddsUp(w, h, U) <=> h = [s \in SUBSET U |-> B(s)]
    BY Zenon DEF AddsUp, Chosen
  <2>3. \A s \in SUBSET U : A(s) = B(s)
    <3> TAKE s \in SUBSET U
    <3>1. s # {} => Chosen(s) \in U
      BY ChosenIn
    <3> QED
      BY <3>1
  <2> HIDE DEF A, B, P
  <2> QED
    BY <2>1, <2>2, <2>3
<1>3. PICK f : AddsUp(w, f, U)
  BY SumsExist
<1> HIDE DEF P
<1>4. P(iter)
  BY <1>2, <1>3, Zenon
<1> HIDE DEF iter
<1> QED
  BY <1>1, <1>2, <1>4, SumIs

LEMMA BalanceIs ==
  ASSUME NEW p, NEW calls, NEW U, U = DOMAIN calls, IsFiniteSet(U),
         NEW w, \A i \in U : w[i] = Receivable(p, calls, i)
  PROVE  Balance(p, calls) = SumOf(w, U)
<1> DEFINE P(h) == h = [s \in SUBSET U |->
                          IF s = {} THEN 0
                          ELSE LET x == CHOOSE x \in s : TRUE
                               IN Receivable(p, calls, x) + h[s \ {x}]]
           iter == CHOOSE h : P(h)
<1>1. Balance(p, calls) = iter[U]
  <2>1. Balance(p, calls) = MapThenSumSet(LAMBDA i : Receivable(p, calls, i), U)
    BY Zenon DEF Balance
  <2> QED
    BY <2>1, Zenon DEF MapThenSumSet, MapThenFoldSet, iter, P
<1>2. \A h : P(h) <=> AddsUp(w, h, U)
  <2> TAKE h
  <2> DEFINE A(s) == IF s = {} THEN 0
                     ELSE Receivable(p, calls, Chosen(s)) + h[s \ {Chosen(s)}]
             B(s) == IF s = {} THEN 0 ELSE w[Chosen(s)] + h[s \ {Chosen(s)}]
  <2>1. P(h) <=> h = [s \in SUBSET U |-> A(s)]
    BY Zenon DEF Chosen
  <2>2. AddsUp(w, h, U) <=> h = [s \in SUBSET U |-> B(s)]
    BY Zenon DEF AddsUp, Chosen
  <2>3. \A s \in SUBSET U : A(s) = B(s)
    <3> TAKE s \in SUBSET U
    <3>1. s # {} => Chosen(s) \in U
      BY ChosenIn
    <3>2. s # {} => w[Chosen(s)] = Receivable(p, calls, Chosen(s))
      BY <3>1
    <3> QED
      BY <3>2
  <2> HIDE DEF A, B, P
  <2> QED
    BY <2>1, <2>2, <2>3
<1>3. PICK f : AddsUp(w, f, U)
  BY SumsExist
<1> HIDE DEF P
<1>4. P(iter)
  BY <1>2, <1>3, Zenon
<1> HIDE DEF iter
<1> QED
  BY <1>1, <1>2, <1>4, SumIs

(* The balance is the rows of the documents less those of the payments, when *)
(* both lists are of the calls the balance is of.                            *)
LEMMA BalanceOfRows ==
  ASSUME NEW p, NEW calls \in Seq(Calls),
         \A i \in DOMAIN calls : Amount(p, calls, i) \in Int
  PROVE  Balance(p, calls) =
           AmountsOf(Rows("endorsement", p, calls)) - AmountsOf(Rows("payment", p, calls))
<1> DEFINE U == DOMAIN calls
           Row(i) == [id |-> i, amount_cents |-> Amount(p, calls, i)]
           E == PositionsOf("endorsement", calls)
           K == PositionsOf("payment", calls)
           All == {Row(i) : i \in U}
           D(s) == {Row(i) : i \in s \intersect E}
           Q(s) == {Row(i) : i \in s \intersect K}
           r == [i \in U |-> Receivable(p, calls, i)]
           v == [row \in All |-> row.amount_cents]
<1>1. IsFiniteSet(U)
  <2>1. U = 1 .. Len(calls) /\ Len(calls) \in Nat
    BY LenProperties
  <2> QED
    BY <2>1, FS_Interval
<1>2. E \subseteq U /\ K \subseteq U /\ E \intersect K = {} /\ U = E \union K
  <2>1. \A i \in U : calls[i].operation \in {"endorsement", "payment"}
    <3>1. \A i \in U : calls[i] \in Calls
      BY ElementOfSeq, LenProperties
    <3> QED
      BY <3>1, CallsAssumption
  <2> QED
    BY <2>1 DEF PositionsOf
<1>3. ASSUME NEW i \in U
      PROVE  /\ Row(i) \in All
             /\ v[Row(i)] = Amount(p, calls, i)
             /\ Amount(p, calls, i) \in Int
             /\ r[i] = IF i \in K THEN -Amount(p, calls, i) ELSE Amount(p, calls, i)
  <2>1. r[i] = IF i \in K THEN -Amount(p, calls, i) ELSE Amount(p, calls, i)
    BY DEF Receivable, PositionsOf
  <2> QED
    BY <2>1
<1>4. ASSUME NEW s \in SUBSET U
      PROVE  /\ D(s) \subseteq All /\ Q(s) \subseteq All
             /\ IsFiniteSet(D(s)) /\ IsFiniteSet(Q(s))
  <2>1. D(s) \subseteq All /\ Q(s) \subseteq All
    OBVIOUS
  <2>2. IsFiniteSet(All)
    <3> DEFINE f == [i \in U |-> Row(i)]
    <3>1. f \in Surjection(U, All)
      BY DEF Surjection
    <3> QED
      BY <1>1, <3>1, FS_Surjection
  <2> QED
    BY <2>1, <2>2, FS_Subset
<1>5. ASSUME NEW s \in SUBSET U, NEW c \in s
      PROVE  LET t == s \ {c} IN
             /\ c \in E => D(s) = D(t) \union {Row(c)} /\ Row(c) \notin D(t) /\ Q(s) = Q(t)
             /\ c \in K => Q(s) = Q(t) \union {Row(c)} /\ Row(c) \notin Q(t) /\ D(s) = D(t)
  <2> DEFINE t == s \ {c}
  <2>1. \A i \in t : Row(i) # Row(c)
    <3>1. \A i \in U : Row(i).id = i
      OBVIOUS
    <3> HIDE DEF Row
    <3> QED
      BY <3>1
  <2>2. c \in E => s \intersect E = (t \intersect E) \union {c} /\ s \intersect K = t \intersect K
    <3> HIDE DEF E, K
    <3> QED
      BY <1>2
  <2>3. c \in K => s \intersect K = (t \intersect K) \union {c} /\ s \intersect E = t \intersect E
    <3> HIDE DEF E, K
    <3> QED
      BY <1>2
  <2> HIDE DEF E, K, Row, t
  <2>4. t \subseteq s
    BY DEF t
  <2> QED
    BY <2>1, <2>2, <2>3, <2>4 DEF t
<1>6. U = DOMAIN calls /\ \A i \in U : r[i] = Receivable(p, calls, i)
  OBVIOUS
<1>7. D(U) = Rows("endorsement", p, calls) /\ Q(U) = Rows("payment", p, calls)
  <2>1. U \intersect E = E /\ U \intersect K = K
    BY <1>2
  <2> QED
    BY <2>1 DEF Rows
<1>8. \A row \in All : v[row] = row.amount_cents /\ v[row] \in Int
  BY <1>3
<1>9. D({}) = {} /\ Q({}) = {}
  OBVIOUS
<1> HIDE DEF U, Row, E, K, All, D, Q, r, v
<1>10. \A s \in SUBSET U : SumOf(r, s) = SumOf(v, D(s)) - SumOf(v, Q(s))
  <2> DEFINE Off(s) == SumOf(r, s) # SumOf(v, D(s)) - SumOf(v, Q(s))
             T == {s \in SUBSET U : Off(s)}
  <2> SUFFICES ASSUME T # {} PROVE FALSE
    OBVIOUS
  <2>1. PICK s \in T : \A t \in SUBSET s : t # s => t \notin T
    <3> T \in SUBSET (SUBSET U)
      OBVIOUS
    <3> HIDE DEF T
    <3> QED
      BY <1>1, SmallestSubset
  <2>2. s \in SUBSET U /\ Off(s) /\ \A t \in SUBSET s : t # s => ~ Off(t)
    BY <2>1
  <2>3. \A w : SumOf(w, {}) = 0
    BY FS_EmptySet, SumUnfolds
  <2>4. s # {}
    <3> SUFFICES ASSUME s = {} PROVE FALSE
      OBVIOUS
    <3>1. D(s) = {} /\ Q(s) = {}
      BY <1>9, Zenon
    <3>2. SumOf(r, s) = 0 /\ SumOf(v, D(s)) = 0 /\ SumOf(v, Q(s)) = 0
      BY <2>3, <3>1, Zenon
    <3>3. SumOf(r, s) # SumOf(v, D(s)) - SumOf(v, Q(s))
      BY <2>2
    <3> QED
      BY <3>2, <3>3
  <2> HIDE DEF T
  <2> DEFINE c == Chosen(s)
             t == s \ {c}
  <2>5. c \in s /\ t \in SUBSET s /\ t # s
    BY <2>4, ChosenIn
  <2>6. SumOf(r, s) = r[c] + SumOf(r, t)
    BY <1>1, <2>2, <2>4, FS_Subset, SumUnfolds
  <2>7. SumOf(r, t) = SumOf(v, D(t)) - SumOf(v, Q(t))
    BY <2>2, <2>5
  <2> HIDE DEF c
  <2>8. /\ c \in E => D(s) = D(t) \union {Row(c)} /\ Row(c) \notin D(t) /\ Q(s) = Q(t)
        /\ c \in K => Q(s) = Q(t) \union {Row(c)} /\ Row(c) \notin Q(t) /\ D(s) = D(t)
    BY <1>5, <2>2, <2>5
  <2> HIDE DEF t
  <2>9. /\ \A x \in D(t) : v[x] \in Int
        /\ \A x \in Q(t) : v[x] \in Int
        /\ IsFiniteSet(D(t)) /\ IsFiniteSet(Q(t))
        /\ c \in U
    BY <1>4, <1>8, <2>2, <2>5
  <2>10. v[Row(c)] = Amount(p, calls, c) /\ v[Row(c)] \in Int
    BY <1>3, <2>9
  <2> DEFINE a == Amount(p, calls, c)
             d == SumOf(v, D(t))
             q == SumOf(v, Q(t))
  <2>11. d \in Int /\ q \in Int /\ a \in Int
    BY <2>9, <2>10, SumIsInteger
  <2>12. CASE c \in K
    <3>1. r[c] = -a
      BY <1>3, <2>9, <2>12
    <3>2. SumOf(v, Q(s)) = q + a
      BY <2>8, <2>9, <2>10, <2>12, SumAdds
    <3>3. SumOf(v, D(s)) = d
      BY <2>8, <2>12
    <3>4. SumOf(r, s) = -a + (d - q)
      BY <2>6, <2>7, <3>1
    <3> HIDE DEF a, d, q
    <3> QED
      BY <2>2, <2>11, <3>2, <3>3, <3>4
  <2>13. CASE c \notin K
    <3>0. c \in E
      BY <1>2, <2>9, <2>13
    <3>1. r[c] = a
      BY <1>3, <2>9, <2>13
    <3>2. SumOf(v, D(s)) = d + a
      BY <2>8, <2>9, <2>10, <3>0, SumAdds
    <3>3. SumOf(v, Q(s)) = q
      BY <2>8, <3>0
    <3>4. SumOf(r, s) = a + (d - q)
      BY <2>6, <2>7, <3>1
    <3> HIDE DEF a, d, q
    <3> QED
      BY <2>2, <2>11, <3>2, <3>3, <3>4
  <2> QED
    BY <2>12, <2>13
<1>11. Balance(p, calls) = SumOf(r, U)
  BY <1>1, <1>6, BalanceIs
<1>12. SumOf(v, D(U)) = AmountsOf(D(U)) /\ SumOf(v, Q(U)) = AmountsOf(Q(U))
  <2>1. /\ D(U) \subseteq All /\ Q(U) \subseteq All
        /\ IsFiniteSet(D(U)) /\ IsFiniteSet(Q(U))
    BY <1>4
  <2>2. /\ \A x \in D(U) : v[x] = x.amount_cents
        /\ \A x \in Q(U) : v[x] = x.amount_cents
    BY <1>8, <2>1
  <2> QED
    BY <2>1, <2>2, AmountsAre
<1> QED
  BY <1>7, <1>10, <1>11, <1>12

-----------------------------------------------------------------------------
(* Amounts are whole cents *)

LEMMA LastPosition ==
  ASSUME NEW n \in Nat, NEW S \in SUBSET (1 .. n), S # {}
  PROVE  Max(S) \in S
<1> DEFINE T == {i .. n : i \in S}
<1>1. T \in SUBSET (SUBSET (1 .. n)) /\ T # {} /\ IsFiniteSet(1 .. n)
  <2>1. \A i \in S : i .. n \in SUBSET (1 .. n)
    OBVIOUS
  <2>2. IsFiniteSet(1 .. n)
    BY FS_Interval
  <2> QED
    BY <2>1, <2>2
<1>2. PICK t \in T : \A u \in SUBSET t : u # t => u \notin T
  <2> HIDE DEF T
  <2> QED
    BY <1>1, SmallestSubset
<1>3. PICK m \in S : t = m .. n
  OBVIOUS
<1>4. ASSUME NEW i \in S, ~ (m >= i)
      PROVE  FALSE
  <2>1. i .. n \in SUBSET t /\ m \in t /\ m \notin i .. n
    BY <1>3, <1>4
  <2>2. i .. n \in T
    OBVIOUS
  <2> HIDE DEF T
  <2> QED
    BY <1>2, <2>1, <2>2
<1>5. \A i \in S : m >= i
  BY <1>4
<1>6. Max(S) = CHOOSE x \in S : \A y \in S : x >= y
  BY DEF Max
<1> QED
  BY <1>5, <1>6

LEMMA PremiumIsInteger ==
  ASSUME NEW p \in Policies, NEW calls \in Seq(Calls)
  PROVE  PremiumAfterCalls(p, calls) \in Int
<1> DEFINE ends == {i \in DOMAIN calls : calls[i].operation = "endorsement"}
<1>1. Seed[p].annual_premium_cents \in Int
  BY SeedAssumption DEF Policies
<1>2. CASE ends = {}
  BY <1>1, <1>2 DEF PremiumAfterCalls, LastEndorsement
<1>3. CASE ends # {}
  <2> DEFINE m == Max(ends)
  <2>1. DOMAIN calls = 1 .. Len(calls) /\ Len(calls) \in Nat
    BY LenProperties
  <2>2. ends \in SUBSET (1 .. Len(calls))
    BY <2>1
  <2>3. m \in ends
    <3> HIDE DEF ends
    <3> QED
      BY <1>3, <2>1, <2>2, LastPosition
  <2>4. LastEndorsement(calls) = calls[m]
    BY <1>3 DEF LastEndorsement
  <2> HIDE DEF m
  <2>5. calls[m] \in Calls /\ calls[m].operation = "endorsement"
    BY <2>1, <2>3, ElementOfSeq
  <2>6. calls[m].new_annual_premium_cents \in Int
    BY <2>5, CallsAssumption
  <2> QED
    BY <1>1, <2>4, <2>6 DEF PremiumAfterCalls
<1> QED
  BY <1>2, <1>3

(* d is n / term to the nearest, ties away from zero. *)
Nearby(d, n, term) ==
  LET error == 2 * Magnitude(d * term - n)
  IN error < term \/ (error = term /\ Magnitude(d * term) > Magnitude(n))

LEMMA NearestIsInteger ==
  ASSUME NEW n \in Int, NEW term \in Nat, term > 0
  PROVE  Nearest(n, term) \in Int
<1> DEFINE m == Magnitude(n)
<1>1. m \in Nat /\ (n = m \/ n = -m)
  BY DEF Magnitude
<1> HIDE DEF m
<1> DEFINE k == m \div term
           rest == m - k * term
<1>2. k \in Nat /\ k * term \in Nat /\ rest \in Nat /\ rest < term
  <2>1. k \in Nat /\ k * term <= m /\ m < k * term + term
    BY <1>1
  <2>2. k * term \in Nat
    BY <2>1
  <2> HIDE DEF k
  <2> QED
    BY <1>1, <2>1, <2>2
<1>3. k <= m /\ (rest > 0 => k + 1 <= m)
  <2>1. k * term >= k
    <3>1. PICK j \in Nat : term = j + 1
      <4>1. term - 1 \in Nat /\ term = (term - 1) + 1
        OBVIOUS
      <4> QED
        BY <4>1
    <3> HIDE DEF k
    <3>2. k * term = k * j + k /\ k * j \in Nat
      BY <1>2, <3>1
    <3> QED
      BY <1>2, <3>2
  <2> DEFINE x == k * term
  <2>2. x \in Nat /\ m = x + rest /\ x >= k
    BY <1>1, <1>2, <2>1
  <2> HIDE DEF k, x, rest
  <2> QED
    BY <1>1, <1>2, <2>2
<1> DEFINE q == IF 2 * rest < term THEN k ELSE k + 1
<1>4. q \in 0 .. m
  <2> HIDE DEF k, rest
  <2> QED
    BY <1>1, <1>2, <1>3
<1>5. q * term = IF 2 * rest < term THEN k * term ELSE k * term + term
  <2> HIDE DEF k, rest
  <2> QED
    BY <1>2
<1>6. \/ 2 * Magnitude(q * term - m) < term
      \/ 2 * Magnitude(q * term - m) = term /\ q * term > m
  <2> DEFINE x == k * term
             y == q * term
  <2>1. x \in Nat /\ m = x + rest /\ y = IF 2 * rest < term THEN x ELSE x + term
    BY <1>1, <1>2, <1>5
  <2> HIDE DEF x, y, k, rest, q
  <2> QED
    BY <1>1, <1>2, <2>1 DEF Magnitude, y
<1> HIDE DEF q, k, rest
<1>7. \E d \in -m .. m : Nearby(d, n, term)
  <2> DEFINE y == q * term
  <2>1. y \in Nat /\ (-q) * term = -y /\ q \in -m .. m /\ -q \in -m .. m
    BY <1>1, <1>4
  <2>2. \/ 2 * Magnitude(y - m) < term
        \/ 2 * Magnitude(y - m) = term /\ y > m
    BY <1>6
  <2>3. CASE n = m
    <3>1. \/ 2 * Magnitude(y - n) < term
          \/ 2 * Magnitude(y - n) = term /\ Magnitude(y) > Magnitude(n)
      <4> HIDE DEF y
      <4> QED
        BY <1>1, <2>1, <2>2, <2>3 DEF Magnitude
    <3>2. Nearby(q, n, term)
      BY <3>1 DEF Nearby
    <3> QED
      BY <2>1, <3>2
  <2>4. CASE n = -m
    <3>1. \/ 2 * Magnitude(-y - n) < term
          \/ 2 * Magnitude(-y - n) = term /\ Magnitude(-y) > Magnitude(n)
      <4> HIDE DEF y
      <4> QED
        BY <1>1, <2>1, <2>2, <2>4 DEF Magnitude
    <3>2. Nearby(-q, n, term)
      <4> HIDE DEF y
      <4> QED
        BY <2>1, <3>1 DEF Nearby
    <3> QED
      BY <2>1, <3>2
  <2> QED
    BY <1>1, <2>3, <2>4
<1>8. Nearest(n, term) = CHOOSE d \in -m .. m : Nearby(d, n, term)
  BY DEF Nearest, Nearby, m
<1>9. Nearest(n, term) \in -m .. m
  BY <1>7, <1>8
<1> QED
  BY <1>1, <1>9

(* The calls in a log are those of policies that exist. *)
OfPolicies(calls) == \A i \in DOMAIN calls : calls[i].policy_id \in Policies

LEMMA AmountIsInteger ==
  ASSUME NEW p \in Policies, NEW calls \in Seq(Calls), OfPolicies(calls),
         NEW i \in DOMAIN calls
  PROVE  Amount(p, calls, i) \in Int
<1> DEFINE c == calls[i]
           earlier == SubSeq(calls, 1, i - 1)
           premium == PremiumAfterCalls(p, earlier)
<1>1. i \in 1 .. Len(calls) /\ Len(calls) \in Nat
  BY LenProperties
<1>2. c \in Calls
  BY <1>1, ElementOfSeq
<1>3. earlier \in Seq(Calls)
  <2>1. \A j \in 1 .. i - 1 : calls[j] \in Calls
    BY <1>1, ElementOfSeq
  <2> QED
    BY <1>1, <2>1, SubSeqProperties
<1>4. premium \in Int
  BY <1>3, PremiumIsInteger
<1>5. Amount(p, calls, i) = Charge(c, premium)
  BY DEF Amount
<1>6. c.policy_id \in Policies
  BY DEF OfPolicies
<1> HIDE DEF c, premium
<1>7. CASE c.operation = "payment"
  BY <1>2, <1>5, <1>7, CallsAssumption DEF Charge
<1>8. CASE c.operation # "payment"
  <2> DEFINE n == PremiumChange(c, premium)
             term == Term(c.policy_id)
  <2>1. c.effective_date \in Int /\ c.new_annual_premium_cents \in Int
    BY <1>2, <1>8, CallsAssumption
  <2>2. /\ Seed[c.policy_id].term_start \in Int /\ Seed[c.policy_id].term_end \in Int
        /\ Seed[c.policy_id].term_start < Seed[c.policy_id].term_end
    BY <1>6, SeedAssumption DEF Policies
  <2>3. n \in Int
    BY <1>4, <2>1, <2>2 DEF PremiumChange
  <2>4. term \in Nat /\ term > 0
    BY <2>2 DEF Term
  <2>5. Amount(p, calls, i) = Nearest(n, term)
    BY <1>5, <1>8 DEF Charge
  <2> HIDE DEF n, term
  <2> QED
    BY <2>3, <2>4, <2>5, NearestIsInteger
<1> QED
  BY <1>7, <1>8

-----------------------------------------------------------------------------
(* A GET during which nothing happens *)

(* Every log holds calls on policies that exist. *)
LogOfPolicies == \A p \in Policies : OfPolicies(log[p])

LEMMA LogIsOfPolicies == Spec => []LogOfPolicies
<1>1. Init => LogOfPolicies
  BY DEF Init, LogOfPolicies, OfPolicies
<1>2. ReadsInv /\ LogOfPolicies /\ [Next]_vars => LogOfPolicies'
  <2> SUFFICES ASSUME ReadsInv, LogOfPolicies, [Next]_vars PROVE LogOfPolicies'
    OBVIOUS
  <2>1. CASE \E c \in Calls : Apply(c)
    <3> PICK c \in Calls : Apply(c)
      BY <2>1
    <3> DEFINE p == c.policy_id
    <3>1. p \in Policies /\ log' = [log EXCEPT ![p] = Append(log[p], c)]
      BY DEF Apply
    <3>2. log \in [Policies -> Seq(Calls)]
      BY DEF ReadsInv, TypeOK
    <3>3. OfPolicies(Append(log[p], c))
      <4>1. log[p] \in Seq(Calls) /\ OfPolicies(log[p])
        BY <3>1, <3>2 DEF LogOfPolicies
      <4> DEFINE more == Append(log[p], c)
      <4>2. /\ more \in Seq(Calls) /\ Len(more) = Len(log[p]) + 1
            /\ \A i \in 1 .. Len(log[p]) : more[i] = log[p][i]
            /\ more[Len(log[p]) + 1] = c
            /\ Len(log[p]) \in Nat /\ DOMAIN log[p] = 1 .. Len(log[p])
            /\ DOMAIN more = 1 .. Len(more)
        BY <4>1, AppendProperties, LenProperties
      <4> HIDE DEF more
      <4>3. \A i \in DOMAIN more : more[i].policy_id \in Policies
        BY <3>1, <4>1, <4>2 DEF OfPolicies
      <4> QED BY <4>3 DEF more, OfPolicies
    <3> QED BY <3>1, <3>2, <3>3 DEF LogOfPolicies
  <2>2. CASE UNCHANGED log
    BY <2>2 DEF LogOfPolicies
  <2> QED BY <2>1, <2>2 DEF Next, Damage, Tell, Get, Query, Fail, Respond, vars
<1> QED BY <1>1, <1>2, ReadsInvariant, PTL DEF Spec

(* The body a reader goes on with, kept or new, is that of this GET. *)
LEMMA RespondsWithBody ==
  ASSUME ReadsInv, NEW r \in Readers, Respond(r)
  PROVE  LET g == reads[r] IN
         /\ ReadOf(g, held[r], log, damaged)
         /\ g.policy \in Policies
         /\ DOMAIN g.seen = Queries(g.resource)
         /\ Body(held'[r]) = Body(g)
<1> DEFINE g == reads[r]
           unchanged == g.if_none_match # Nothing /\ g.if_none_match = Etag(g)
           h == [policy |-> g.policy, resource |-> g.resource, due |-> g.due,
                 valid |-> g.start.valid,
                 seen |-> IF unchanged THEN held[r].seen ELSE g.seen]
<1>1. /\ g # Nothing /\ DOMAIN g.seen = Queries(g.resource)
      /\ held' = [held EXCEPT ![r] = h]
  BY DEF Respond
<1>2. DOMAIN held = Readers
  BY DEF ReadsInv, TypeOK
<1>3. held'[r] = h
  BY <1>1, <1>2
<1>4. /\ h.policy = g.policy /\ h.resource = g.resource
      /\ h.seen = IF unchanged THEN held[r].seen ELSE g.seen
  OBVIOUS
<1>5. ReadOf(g, held[r], log, damaged)
  BY <1>1 DEF ReadsInv, ReaderOf
<1> HIDE DEF h
<1>6. g.policy \in Policies
  <2>1. Queries(g.resource) # {}
    BY <1>5 DEF Queries, Resources, ReadOf
  <2>2. DOMAIN << >> = {}
    OBVIOUS
  <2> QED BY <1>1, <1>5, <2>1, <2>2 DEF ReadOf
<1>7. CASE unchanged
  <2>1. /\ held[r].policy = g.policy /\ held[r].resource = g.resource
        /\ Body(held[r]) = Body(g)
    BY <1>5, <1>7 DEF ReadOf, Etag
  <2>2. h.seen = held[r].seen
    BY <1>4, <1>7
  <2>3. Body(h) = Body(held[r])
    BY <1>4, <2>1, <2>2 DEF Body
  <2> QED BY <1>1, <1>3, <1>5, <1>6, <2>1, <2>3
<1>8. CASE ~ unchanged
  <2>1. h.seen = g.seen
    BY <1>4, <1>8
  <2>2. Body(h) = Body(g)
    BY <1>4, <2>1 DEF Body
  <2> QED BY <1>1, <1>3, <1>5, <1>6, <2>2
<1> QED BY <1>7, <1>8

(* A snapshot between the start of a GET and a state that is still the one *)
(* of the start shows that state.                                          *)
LEMMA NothingBetween ==
  ASSUME NEW p \in Policies, TypeOK, NEW s, PastOf(s, log[p], p \in damaged),
         Len(Snapshot(p).calls) <= Len(s.calls),
         ~ Snapshot(p).valid => ~ s.valid
  PROVE  s.calls = Snapshot(p).calls /\ s.valid = Snapshot(p).valid
<1>1. Snapshot(p).calls = log[p] /\ Snapshot(p).valid = (p \notin damaged)
  BY DEF Snapshot
<1>2. /\ s.calls \in Seq(Calls) /\ Len(s.calls) \in Nat
      /\ log[p] \in Seq(Calls) /\ Len(log[p]) \in Nat
  BY LenProperties DEF PastOf, TypeOK
<1>3. Len(s.calls) = Len(log[p])
  BY <1>1, <1>2 DEF PastOf
<1>4. s.calls = log[p]
  BY <1>3, LogStays DEF PastOf, Grows
<1>5. s.valid \in BOOLEAN /\ (~ s.valid => p \in damaged)
  BY DEF PastOf
<1>6. s.valid = Snapshot(p).valid
  BY <1>1, <1>5, Zenon
<1> QED BY <1>1, <1>4, <1>6

LEMMA BodyOfSnapshots ==
  ASSUME NEW g, NEW k, g.resource \in Resources,
         k.policy = g.policy, k.resource = g.resource,
         \A q \in Queries(g.resource) :
           k.seen[q].calls = g.seen[q].calls /\ k.seen[q].valid = g.seen[q].valid
  PROVE  Body(k) = Body(g)
<1>1. CASE g.resource = "policy"
  <2>1. \A q \in {"summary", "documents", "payments", "verify"} :
          k.seen[q].calls = g.seen[q].calls /\ k.seen[q].valid = g.seen[q].valid
    BY <1>1 DEF Queries
  <2>2. PolicyBody(k.policy, k.seen) = PolicyBody(g.policy, g.seen)
    BY <2>1 DEF PolicyBody
  <2> QED BY <1>1, <2>2 DEF Body
<1>2. CASE g.resource = "ledger"
  <2>1. k.seen["ledger"].calls = g.seen["ledger"].calls
    BY <1>2 DEF Queries
  <2>2. LedgerBody(k.policy, k.seen) = LedgerBody(g.policy, g.seen)
    BY <2>1 DEF LedgerBody
  <2> QED BY <1>2, <2>2 DEF Body
<1>3. CASE g.resource = "history"
  <2>1. /\ k.seen["verify"].calls = g.seen["verify"].calls
        /\ k.seen["verify"].valid = g.seen["verify"].valid
    BY <1>3 DEF Queries
  <2>2. HistoryBody(k.seen) = HistoryBody(g.seen)
    BY <2>1 DEF HistoryBody
  <2> QED BY <1>3, <2>2 DEF Body
<1> QED BY <1>1, <1>2, <1>3 DEF Resources

(* A GET during which nothing is committed leaves its reader with the state *)
(* as it is, on a 304 as on a 200, and with a balance that is the difference *)
(* of the rows beside it.                                                    *)
THEOREM QuietReadsAreExact == Spec => QuietReadIsExact
<1> DEFINE Exact ==
      \A r \in Readers :
        LET g == reads[r] IN
        Respond(r) /\ g.start = Snapshot(g.policy) =>
          LET body == Body(held'[r]) IN
          /\ body = Body([g EXCEPT !.seen = [q \in Queries(g.resource) |-> g.start]])
          /\ g.resource = "policy" =>
               body.open_balance_cents =
                 MapThenSumSet(LAMBDA row : row.amount_cents, body.billing_documents)
                 - MapThenSumSet(LAMBDA row : row.amount_cents, body.payments)
<1>1. ReadsInv /\ LogOfPolicies => Exact
  <2> SUFFICES ASSUME ReadsInv, LogOfPolicies, NEW r \in Readers, Respond(r),
                      reads[r].start = Snapshot(reads[r].policy)
               PROVE  LET g == reads[r]
                          body == Body(held'[r]) IN
                      /\ body = Body([g EXCEPT !.seen = [q \in Queries(g.resource) |-> g.start]])
                      /\ g.resource = "policy" =>
                           body.open_balance_cents =
                             AmountsOf(body.billing_documents) - AmountsOf(body.payments)
    BY DEF AmountsOf
  <2> DEFINE g == reads[r]
             p == g.policy
             calls == log[p]
             k == [g EXCEPT !.seen = [q \in Queries(g.resource) |-> g.start]]
             body == Body(held'[r])
  <2>1. /\ ReadOf(g, held[r], log, damaged)
        /\ p \in Policies
        /\ DOMAIN g.seen = Queries(g.resource)
        /\ body = Body(g)
    BY RespondsWithBody
  <2>2. /\ SeenOf(g, calls, p \in damaged) /\ SinceOf(g, calls, p \in damaged)
        /\ DOMAIN g = ReadFields /\ g.resource \in Resources
        /\ TypeOK
    BY <2>1 DEF ReadOf, ReadsInv
  <2>3. g.start = Snapshot(p) /\ Snapshot(p).calls = calls
    BY DEF Snapshot
  <2>4. /\ k.policy = p /\ k.resource = g.resource
        /\ \A q \in Queries(g.resource) : k.seen[q] = g.start
    BY <2>2 DEF ReadFields
  <2> HIDE DEF body, k
  <2>5. \A q \in Queries(g.resource) :
          g.seen[q].calls = g.start.calls /\ g.seen[q].valid = g.start.valid
    BY <2>1, <2>2, <2>3, NothingBetween DEF SeenOf, SinceOf
  <2>6. Body(k) = Body(g)
    BY <2>2, <2>4, <2>5, BodyOfSnapshots
  <2>7. ASSUME g.resource = "policy"
        PROVE  body.open_balance_cents =
                 AmountsOf(body.billing_documents) - AmountsOf(body.payments)
    <3>1. \A q \in {"summary", "documents", "payments"} : k.seen[q].calls = calls
      BY <2>3, <2>4, <2>7 DEF Queries
    <3>2. body = PolicyBody(p, k.seen)
      BY <2>1, <2>4, <2>6, <2>7 DEF Body
    <3>3. /\ body.open_balance_cents = Balance(p, calls)
          /\ body.billing_documents = Rows("endorsement", p, calls)
          /\ body.payments = Rows("payment", p, calls)
      BY <3>1, <3>2 DEF PolicyBody
    <3>4. calls \in Seq(Calls) /\ OfPolicies(calls)
      BY <2>1, <2>2 DEF TypeOK, LogOfPolicies
    <3>5. \A i \in DOMAIN calls : Amount(p, calls, i) \in Int
      BY <2>1, <3>4, AmountIsInteger
    <3> QED BY <3>3, <3>4, <3>5, BalanceOfRows
  <2> QED BY <2>1, <2>6, <2>7 DEF k, body
<1>2. ReadsInv /\ LogOfPolicies /\ [Next]_vars => [Exact]_vars
  BY <1>1
<1> QED BY <1>2, ReadsInvariant, LogIsOfPolicies, PTL DEF Spec, QuietReadIsExact
=============================================================================
