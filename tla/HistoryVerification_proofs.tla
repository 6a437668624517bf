---------------------- MODULE HistoryVerification_proofs ----------------------
(***************************************************************************)
(* Theorems of HistoryVerification, for every history, every number of     *)
(* rows and every set of changes by hand: the loop computes what HashChain *)
(* says of the rows, and the row it reports is the first one wronged.      *)
(***************************************************************************)
EXTENDS HistoryVerification, SequenceTheorems, FiniteSetTheorems, TLAPS

(* Minimum and maximum of the ids of a set of rows. *)
LEMMA LeastNatural ==
  ASSUME NEW T \in SUBSET Nat, T # {}
  PROVE  \E m \in T : \A n \in T : m <= n
<1> DEFINE R == OpToRel(<, Nat)
<1>1. ASSUME NEW m \in Nat, NEW n \in Nat, ~ (<<n, m>> \in R)
      PROVE  m <= n
  BY <1>1 DEF OpToRel
<1>2. IsWellFoundedOn(R, Nat)
  BY NatLessThanWellFounded, Zenon
<1> HIDE DEF R
<1>3. \E m \in T : \A n \in T : ~ (<<n, m>> \in R)
  BY <1>2, WFMin
<1> QED
  BY <1>1, <1>3

LEMMA LowestRow ==
  ASSUME NEW S, S # {}, \A e \in S : e.id \in Nat
  PROVE  \E e \in S : \A f \in S : e.id <= f.id
<1> DEFINE T == {e.id : e \in S}
<1>1. T \in SUBSET Nat /\ T # {}
  OBVIOUS
<1>2. PICK m \in T : \A n \in T : m <= n
  <2> HIDE DEF T
  <2> QED
    BY <1>1, LeastNatural
<1> QED
  BY <1>2

LEMMA HighestRow ==
  ASSUME NEW S, S # {}, \A e \in S : e.id \in Nat,
         NEW bound \in Nat, \A e \in S : e.id <= bound
  PROVE  \E e \in S : \A f \in S : f.id <= e.id
<1> DEFINE T == {m \in Nat : \A e \in S : e.id <= m}
<1>1. T \in SUBSET Nat /\ T # {}
  OBVIOUS
<1>2. PICK m \in T : \A n \in T : m <= n
  <2> HIDE DEF T
  <2> QED
    BY <1>1, LeastNatural
<1>3. m \in Nat /\ \A e \in S : e.id <= m
  OBVIOUS
<1>4. \E e \in S : e.id = m
  <2> SUFFICES ASSUME \A e \in S : e.id # m PROVE FALSE
    OBVIOUS
  <2>1. PICK e \in S : TRUE
    OBVIOUS
  <2>2. m - 1 \in Nat /\ \A f \in S : f.id <= m - 1
    BY <1>3, <2>1
  <2>3. m - 1 \in T
    BY <2>2
  <2> HIDE DEF T
  <2> QED
    BY <1>2, <1>3, <2>3
<1> QED
  BY <1>3, <1>4

(* No two rows of S have the same id. *)
Distinct(S) == \A e, f \in S : e.id = f.id => e = f
Numbered(S) == \A e \in S : e.id \in Nat

LEMMA LatestIs ==
  ASSUME NEW S, Distinct(S), Numbered(S), NEW h \in S, \A f \in S : f.id <= h.id
  PROVE  LatestEvent(S) = h /\ HeadHash(S) = h.event_hash /\ HeadId(S) = h.id
<1>1. \A e \in S : (\A f \in S : f.id <= e.id) => e = h
  BY DEF Distinct, Numbered
<1>2. LatestEvent(S) = h
  BY <1>1 DEF LatestEvent
<1> QED
  BY <1>2 DEF HeadHash, HeadId

LEMMA LatestExists ==
  ASSUME NEW S, S # {}, Distinct(S), Numbered(S),
         NEW bound \in Nat, \A e \in S : e.id <= bound
  PROVE  \E h \in S : /\ \A f \in S : f.id <= h.id
                      /\ HeadHash(S) = h.event_hash /\ HeadId(S) = h.id
<1>1. PICK h \in S : \A f \in S : f.id <= h.id
  BY HighestRow DEF Numbered
<1> QED
  BY <1>1, LatestIs

(* Hashes: the sequences of payloads they stand for. *)
Texts == Payloads \union {OtherPayload}

LEMMA AppendHash ==
  ASSUME NEW hash \in Hashes, NEW payload \in Texts
  PROVE  /\ Append(hash, payload) \in Hashes
         /\ Len(Append(hash, payload)) = Len(hash) + 1
         /\ Append(hash, payload) # << >>
         /\ Clean(Append(hash, payload)) <=> Clean(hash) /\ payload # OtherPayload
<1>1. hash \in Seq(Texts)
  BY DEF Hashes, Texts
<1>2. /\ Append(hash, payload) \in Seq(Texts)
      /\ Append(hash, payload) # << >>
      /\ Len(Append(hash, payload)) = Len(hash) + 1
      /\ \A i \in 1 .. Len(hash) : Append(hash, payload)[i] = hash[i]
      /\ Append(hash, payload)[Len(hash) + 1] = payload
  BY <1>1, AppendProperties
<1>3. Len(hash) \in Nat
  BY <1>1, LenProperties
<1>4. Clean(Append(hash, payload)) <=> Clean(hash) /\ payload # OtherPayload
  BY <1>2, <1>3 DEF Clean
<1> QED
  BY <1>2, <1>4 DEF Hashes, Texts

LEMMA AppendTwice ==
  ASSUME NEW h1 \in Hashes, NEW h2 \in Hashes, NEW p1 \in Texts, NEW p2 \in Texts,
         Append(h1, p1) = Append(h2, p2)
  PROVE  h1 = h2 /\ p1 = p2
BY AppendInjective DEF Hashes, Texts

LEMMA ForeignHash ==
  /\ << >> \in Hashes /\ Clean(<< >>)
  /\ <<OtherPayload>> \in Hashes /\ ~ Clean(<<OtherPayload>>)
  /\ <<OtherPayload>> = Append(<< >>, OtherPayload) /\ <<OtherPayload>> # << >>
<1>1. OtherPayload \in Texts /\ << >> \in Seq(Texts)
  BY DEF Texts
<1>2. /\ <<OtherPayload>> \in Seq(Texts) /\ Len(<<OtherPayload>>) = 1
      /\ <<OtherPayload>>[1] = OtherPayload /\ Len(<< >>) = 0
  BY <1>1
<1>3. <<OtherPayload>> = Append(<< >>, OtherPayload) /\ <<OtherPayload>> # << >>
  BY <1>1, <1>2
<1> QED
  BY <1>1, <1>2, <1>3 DEF Hashes, Texts, Clean

-----------------------------------------------------------------------------
(* What a consistent history tells the verification *)

(* The rows written, and those there, have the types and ids of rows. *)
LEMMA RowFacts ==
  ASSUME TypeOK, RowsConsistent
  PROVE  /\ Distinct(events) /\ Numbered(events) /\ Distinct(written) /\ Numbered(written)
         /\ Cardinality(written) \in Nat
         /\ \A e \in written \union events :
              /\ e.id \in Nat /\ e.id # NoEvent /\ e.id <= Cardinality(written)
              /\ e.follows \in Nat /\ e.payload_canonical \in Texts
              /\ e.previous_hash \in Hashes /\ e.event_hash \in Hashes
         /\ \A w \in written :
              /\ w.payload_canonical \in Texts /\ w.payload_canonical # OtherPayload
              /\ w.event_hash = Append(w.previous_hash, w.payload_canonical)
<1>1. Cardinality(written) \in Nat
  BY FS_CardinalityType DEF TypeOK
<1>2. \A e \in written \union events :
        /\ e.id \in Nat /\ e.id # NoEvent
        /\ e.follows \in Nat /\ e.payload_canonical \in Texts
        /\ e.previous_hash \in Hashes /\ e.event_hash \in Hashes
  BY DEF TypeOK, Rows, Texts, NoEvent
<1>3. ASSUME NEW e \in events
      PROVE  \E w \in written : w.id = e.id
  <2>1. CASE e \in written
    BY <2>1
  <2>2. CASE \E w \in written : e \in Alterations(w)
    <3> PICK w \in written : e \in Alterations(w)
      BY <2>2
    <3>1. w \in Rows
      BY DEF TypeOK
    <3>2. e.id = w.id
      BY <3>1 DEF Alterations, Rows
    <3> QED
      BY <3>2
  <2> QED
    BY <2>1, <2>2 DEF RowsConsistent
<1>4. \A e \in written \union events : e.id <= Cardinality(written)
  BY <1>3 DEF RowsConsistent
<1>5. \A w \in written :
        /\ w.payload_canonical \in Texts /\ w.payload_canonical # OtherPayload
        /\ w.event_hash = Append(w.previous_hash, w.payload_canonical)
  BY PayloadAssumption DEF RowsConsistent, Texts, Digest
<1> QED
  BY <1>1, <1>2, <1>4, <1>5 DEF Distinct, Numbered, RowsConsistent

(* The row a row comes after, if any. *)
LEMMA RowBefore ==
  ASSUME NEW S, Distinct(S), Numbered(S), NEW e \in S
  PROVE  \/ /\ EventsBefore(e, S) = {}
            /\ HeadHash(EventsBefore(e, S)) = GenesisHash
            /\ HeadId(EventsBefore(e, S)) = NoEvent
         \/ \E h \in S : /\ h.id < e.id
                         /\ \A f \in S : f.id < e.id => f.id <= h.id
                         /\ HeadHash(EventsBefore(e, S)) = h.event_hash
                         /\ HeadId(EventsBefore(e, S)) = h.id
<1> DEFINE B == EventsBefore(e, S)
<1>1. B \subseteq S /\ \A f \in S : f \in B <=> f.id < e.id
  BY DEF EventsBefore
<1> HIDE DEF B
<1>2. CASE B = {}
  BY <1>2 DEF HeadHash, HeadId, B
<1>3. CASE B # {}
  <2>1. Distinct(B) /\ Numbered(B) /\ e.id \in Nat /\ \A f \in B : f.id <= e.id
    BY <1>1 DEF Distinct, Numbered
  <2>2. PICK h \in B : /\ \A f \in B : f.id <= h.id
                       /\ HeadHash(B) = h.event_hash /\ HeadId(B) = h.id
    BY <1>3, <2>1, LatestExists
  <2> QED
    BY <1>1, <2>2 DEF B
<1> QED
  BY <1>2, <1>3

(* A row written as it is, after rows that are not wronged, and following   *)
(* the one before it, carries payloads somebody wrote and nothing else.     *)
LEMMA UnwrongedIsClean ==
  ASSUME TypeOK, RowsConsistent, LinksConsistent, NEW e \in events,
         \A f \in events : f.id <= e.id => f \notin WrongedIn(events)
  PROVE  Clean(e.event_hash)
<1> DEFINE T == {f \in events : f.id <= e.id /\ ~ Clean(f.event_hash)}
<1> SUFFICES ASSUME T # {} PROVE FALSE
  BY RowFacts DEF Numbered
<1>1. T \subseteq events /\ Numbered(T)
  BY RowFacts DEF Numbered
<1>2. PICK f \in T : \A g \in T : f.id <= g.id
  <2> HIDE DEF T
  <2> QED
    BY <1>1, LowestRow DEF Numbered
<1>3. f \in events /\ f.id <= e.id /\ ~ Clean(f.event_hash)
  OBVIOUS
<1>4. \A g \in events : g.id < f.id => Clean(g.event_hash)
  BY <1>2, <1>3, RowFacts DEF Numbered
<1> HIDE DEF T
<1>5. f \in written /\ f.follows = HeadId(EventsBefore(f, events))
  BY <1>3 DEF WrongedIn
<1>6. Clean(f.previous_hash)
  <2>1. CASE HeadId(EventsBefore(f, events)) = NoEvent
    BY <1>5, <2>1, ForeignHash DEF LinksConsistent, GenesisHash
  <2>2. CASE \E h \in events : /\ h.id < f.id
                               /\ HeadId(EventsBefore(f, events)) = h.id
    <3> PICK h \in events : h.id < f.id /\ HeadId(EventsBefore(f, events)) = h.id
      BY <2>2
    <3>1. h.id <= e.id
      BY <1>3, RowFacts
    <3>2. h \in written
      BY <3>1 DEF WrongedIn
    <3>3. f.previous_hash = h.event_hash
      BY <1>5, <3>2 DEF LinksConsistent
    <3> QED
      BY <1>4, <3>3
  <2> QED
    BY <1>3, <2>1, <2>2, RowBefore, RowFacts
<1>7. f.event_hash = Append(f.previous_hash, f.payload_canonical)
      /\ f.previous_hash \in Hashes /\ f.payload_canonical \in Texts
      /\ f.payload_canonical # OtherPayload
  BY <1>5, RowFacts
<1> QED
  BY <1>3, <1>6, <1>7, AppendHash

(* No alteration fits a chain that is clean up to it. *)
LEMMA AlteredIsBroken ==
  ASSUME TypeOK, RowsConsistent, NEW e \in events, e \notin written,
         NEW expected \in Hashes, Clean(expected)
  PROVE  ~ (/\ e.previous_hash = expected
            /\ e.event_hash = Digest(e.payload_canonical, expected))
<1> PICK w \in written : e \in Alterations(w)
  BY DEF RowsConsistent
<1>1. /\ w \in Rows /\ w.payload_canonical \in Texts /\ w.payload_canonical # OtherPayload
      /\ w.event_hash = Append(w.previous_hash, w.payload_canonical)
      /\ w.previous_hash \in Hashes
  BY RowFacts DEF TypeOK
<1>o. OtherPayload \in Texts
  BY DEF Texts
<1>2. CASE e = [w EXCEPT !.payload_canonical = OtherPayload]
  <2>1. e.payload_canonical = OtherPayload /\ e.event_hash = w.event_hash
    BY <1>1, <1>2 DEF Rows
  <2> QED
    BY <1>1, <1>o, <2>1, AppendTwice DEF Digest
<1>3. CASE e = [w EXCEPT !.previous_hash = <<OtherPayload>>]
  <2>1. e.previous_hash = <<OtherPayload>>
    BY <1>1, <1>3 DEF Rows
  <2> QED
    BY <2>1, ForeignHash
<1>4. CASE e = [w EXCEPT !.event_hash = <<OtherPayload>>]
  <2>1. e.payload_canonical = w.payload_canonical /\ e.event_hash = <<OtherPayload>>
    BY <1>1, <1>4 DEF Rows
  <2>2. Clean(Append(expected, w.payload_canonical))
    BY <1>1, AppendHash
  <2> QED
    BY <2>1, <2>2, ForeignHash DEF Digest
<1> QED
  BY <1>2, <1>3, <1>4 DEF Alterations

(* In the rows as they are stored, the first row wronged is the first one   *)
(* that does not link or hash.                                              *)
LEMMA StoredRowsTell ==
  ASSUME TypeOK, RowsConsistent, LinksConsistent
  PROVE  FirstWrongIsSeen(events)
<1> SUFFICES ASSUME NEW e \in events,
                    \A f \in events : f.id < e.id => f \notin WrongedIn(events)
             PROVE  IntactEvent(e, events) <=> e \notin WrongedIn(events)
  BY DEF FirstWrongIsSeen
<1> DEFINE expected == HeadHash(EventsBefore(e, events))
           head == HeadId(EventsBefore(e, events))
<1>1. IntactEvent(e, events) <=>
        e.previous_hash = expected /\ e.event_hash = Digest(e.payload_canonical, expected)
  BY DEF IntactEvent
<1>2. e \notin WrongedIn(events) <=> e \in written /\ e.follows = head
  BY DEF WrongedIn
<1>3. CASE expected = GenesisHash /\ head = NoEvent
  <2>1. expected \in Hashes /\ Clean(expected)
    BY <1>3, ForeignHash DEF GenesisHash
  <2>2. CASE e \notin written
    BY <1>1, <1>2, <2>1, <2>2, AlteredIsBroken
  <2>3. CASE e \in written
    <3>1. e.event_hash = Append(e.previous_hash, e.payload_canonical)
      BY <2>3, RowFacts
    <3>2. e.follows = NoEvent <=> e.previous_hash = GenesisHash
      BY <2>3 DEF LinksConsistent
    <3> QED
      BY <1>1, <1>2, <1>3, <2>3, <3>1, <3>2 DEF Digest
  <2> QED
    BY <2>2, <2>3
<1>4. ASSUME NEW h \in events, h.id < e.id, \A f \in events : f.id < e.id => f.id <= h.id,
             expected = h.event_hash, head = h.id
      PROVE  IntactEvent(e, events) <=> e \notin WrongedIn(events)
  <2>1. h \in written /\ \A f \in events : f.id <= h.id => f \notin WrongedIn(events)
    <3>1. \A f \in events : f.id <= h.id => f.id < e.id
      BY <1>4, RowFacts
    <3> QED
      BY <1>4, <3>1 DEF WrongedIn
  <2>2. Clean(h.event_hash) /\ h.event_hash \in Hashes
    BY <2>1, UnwrongedIsClean, RowFacts
  <2> HIDE DEF expected, head
  <2>3. CASE e \notin written
    <3>1. ~ (/\ e.previous_hash = expected
             /\ e.event_hash = Digest(e.payload_canonical, expected))
      BY <1>4, <2>2, <2>3, AlteredIsBroken
    <3> QED
      BY <1>1, <1>2, <2>3, <3>1
  <2>4. CASE e \in written /\ e.follows = h.id
    <3>1. e.event_hash = Append(e.previous_hash, e.payload_canonical)
      BY <2>4, RowFacts
    <3>2. e.previous_hash = h.event_hash
      BY <2>1, <2>4 DEF LinksConsistent
    <3> QED
      BY <1>1, <1>2, <1>4, <2>4, <3>1, <3>2 DEF Digest
  <2>5. CASE e \in written /\ e.follows # h.id
    <3>1. h.event_hash # << >>
      BY <2>1, RowFacts, AppendHash
    <3>2. h.id <= e.follows /\ h.id \in Nat /\ e.follows \in Nat /\ h.id # NoEvent
      BY <1>4, <2>5, RowFacts DEF LinksConsistent
    <3>3. h.id < e.follows /\ e.follows # NoEvent
      BY <2>5, <3>2 DEF NoEvent
    <3>4. e.previous_hash # h.event_hash
      <4>1. CASE e.previous_hash = <<OtherPayload>>
        BY <2>2, <4>1, ForeignHash
      <4>2. CASE \E g \in written : g.id = e.follows /\ e.previous_hash = g.event_hash
        <5> PICK g \in written : g.id = e.follows /\ e.previous_hash = g.event_hash
          BY <4>2
        <5>1. ~ Clean(g.event_hash) \/ Len(h.event_hash) < Len(g.event_hash)
          BY <2>1, <2>2, <3>3 DEF LinksConsistent
        <5>2. Len(h.event_hash) \in Nat
          BY <2>2, LenProperties DEF Hashes
        <5> QED
          BY <2>2, <5>1, <5>2
      <4> QED
        BY <2>5, <3>3, <4>1, <4>2 DEF LinksConsistent
    <3> QED
      BY <1>1, <1>2, <1>4, <2>5, <3>4
  <2> QED
    BY <2>3, <2>4, <2>5
<1> QED
  BY <1>3, <1>4, RowBefore, RowFacts

-----------------------------------------------------------------------------
(* What the writers and the changes by hand keep *)

(* The rows that stand for those written. *)
StandsFor(e, rows) == e \in rows \/ \E w \in rows : e \in Alterations(w)

(* A row written under the next id keeps the rows and their links.          *)
LEMMA WriteKeeps ==
  ASSUME TypeOK, RowsConsistent, LinksConsistent, NEW payload \in Payloads, Write(payload)
  PROVE  RowsConsistent' /\ LinksConsistent'
         /\ events' \subseteq Rows /\ IsFiniteSet(events')
         /\ written' \subseteq Rows /\ IsFiniteSet(written')
<1> DEFINE n == Cardinality(written) + 1
           head == HeadId(events)
           link == HeadHash(events)
           row == [id |-> n, follows |-> head, payload_canonical |-> payload,
                   previous_hash |-> link, event_hash |-> Digest(payload, link)]
<1>1. events' = events \union {row} /\ written' = written \union {row}
  BY DEF Write
<1>2. /\ row.id = n /\ row.follows = head /\ row.payload_canonical = payload
      /\ row.previous_hash = link /\ row.event_hash = Digest(payload, link)
  OBVIOUS
<1>3. \/ events = {} /\ head = NoEvent /\ link = GenesisHash
      \/ \E f \in events : /\ \A g \in events : g.id <= f.id
                           /\ link = f.event_hash /\ head = f.id
  <2>1. CASE events = {}
    BY <2>1 DEF HeadId, HeadHash
  <2>2. CASE events # {}
    BY <2>2, RowFacts, LatestExists
  <2> QED
    BY <2>1, <2>2
<1>4. n \in Nat \ {0} /\ \A e \in written \union events : e.id \in Nat /\ e.id < n
  BY RowFacts
<1>5. head \in Nat /\ link \in Hashes
  BY <1>3, RowFacts, ForeignHash DEF NoEvent, GenesisHash
<1>6. payload \in Texts /\ payload # OtherPayload
  BY PayloadAssumption DEF Texts
<1>7. row \in Rows
  <2>1. Digest(payload, link) \in Hashes
    BY <1>5, <1>6, AppendHash DEF Digest
  <2> QED
    BY <1>4, <1>5, <1>6, <2>1 DEF Rows, Texts
<1>8. events' \subseteq Rows /\ written' \subseteq Rows
  BY <1>1, <1>7 DEF TypeOK
<1>9. /\ IsFiniteSet(events') /\ IsFiniteSet(written')
      /\ Cardinality(written') = n
  <2>1. row \notin written
    BY <1>2, <1>4
  <2> HIDE DEF row
  <2> QED
    BY <1>1, <2>1, FS_AddElement DEF TypeOK
<1> HIDE DEF row, n, head, link
<1>10. RowsConsistent'
  <2>1. \A w \in written' : /\ w.id <= Cardinality(written')
                            /\ w.payload_canonical \in Payloads
                            /\ w.event_hash = Digest(w.payload_canonical, w.previous_hash)
    BY <1>1, <1>2, <1>4, <1>9 DEF RowsConsistent
  <2>2. /\ \A v, w \in written' : v.id = w.id => v = w
        /\ \A e, f \in events' : e.id = f.id => e = f
    BY <1>1, <1>2, <1>4 DEF RowsConsistent
  <2>3. \A e \in events' : e \in written' \/ \E w \in written' : e \in Alterations(w)
    BY <1>1, Zenon DEF RowsConsistent
  <2> QED
    BY <2>1, <2>2, <2>3 DEF RowsConsistent
<1>11. \A e \in events : e.event_hash # << >>
  <2> SUFFICES ASSUME NEW e \in events PROVE e.event_hash # << >>
    OBVIOUS
  <2>1. CASE e \in written
    BY <2>1, RowFacts, AppendHash
  <2>2. CASE \E w \in written : e \in Alterations(w)
    <3> PICK w \in written : e \in Alterations(w)
      BY <2>2
    <3>1. w \in Rows /\ w.event_hash # << >>
      BY RowFacts, AppendHash DEF TypeOK
    <3>2. e.event_hash = w.event_hash \/ e.event_hash = <<OtherPayload>>
      BY <3>1 DEF Alterations, Rows
    <3> QED
      BY <3>1, <3>2, ForeignHash
  <2> QED
    BY <2>1, <2>2 DEF RowsConsistent
(* The hash the new row links to: a written one, or a foreign one. *)
<1>12. ASSUME NEW f \in events, link = f.event_hash, head = f.id
       PROVE  \/ link = <<OtherPayload>>
              \/ \E w \in written : /\ w.id = f.id /\ w.event_hash = link
  <2>1. CASE f \in written
    BY <1>12, <2>1
  <2>2. CASE \E w \in written : f \in Alterations(w)
    <3> PICK w \in written : f \in Alterations(w)
      BY <2>2
    <3>1. w \in Rows
      BY DEF TypeOK
    <3>2. f.id = w.id /\ (f.event_hash = w.event_hash \/ f.event_hash = <<OtherPayload>>)
      BY <3>1 DEF Alterations, Rows
    <3> QED
      BY <1>12, <3>2
  <2> QED
    BY <2>1, <2>2 DEF RowsConsistent
<1>13. /\ row.follows < row.id
       /\ row.follows = NoEvent <=> row.previous_hash = GenesisHash
       /\ row.follows # NoEvent =>
            \/ row.previous_hash = <<OtherPayload>>
            \/ \E g \in written' : g.id = row.follows /\ row.previous_hash = g.event_hash
       /\ \A h \in events' : h.id < row.id => h.id <= row.follows
  <2>1. CASE events = {} /\ head = NoEvent /\ link = GenesisHash
    <3>1. row.follows < row.id
      BY <1>2, <1>4, <2>1 DEF NoEvent
    <3>2. \A h \in events' : ~ (h.id < row.id)
      BY <1>1, <1>2, <1>4, <2>1
    <3> QED
      BY <1>2, <2>1, <3>1, <3>2
  <2>2. CASE \E f \in events : /\ \A g \in events : g.id <= f.id
                               /\ link = f.event_hash /\ head = f.id
    <3> PICK f \in events : /\ \A g \in events : g.id <= f.id
                            /\ link = f.event_hash /\ head = f.id
      BY <2>2
    <3>1. head # NoEvent /\ link # GenesisHash
      BY <1>11, RowFacts DEF GenesisHash
    <3>2. \/ link = <<OtherPayload>>
          \/ \E g \in written' : g.id = head /\ link = g.event_hash
      BY <1>1, <1>12
    <3>3. \A h \in events' : h.id < n => h.id <= head
      BY <1>1, <1>2, <1>4
    <3>4. head < n
      BY <1>4
    <3> QED
      BY <1>2, <3>1, <3>2, <3>3, <3>4
  <2> QED
    BY <1>3, <2>1, <2>2
<1>14. ASSUME NEW h \in events \intersect written
       PROVE  /\ row.follows = h.id => row.previous_hash = h.event_hash
              /\ h.id < row.id /\ Clean(h.event_hash) =>
                   ~ Clean(row.event_hash) \/ Len(h.event_hash) < Len(row.event_hash)
  <2>0. PICK f \in events : /\ \A g \in events : g.id <= f.id
                            /\ link = f.event_hash /\ head = f.id
    BY <1>3
  <2>1. h.id = f.id => h = f
    BY RowFacts DEF Distinct
  <2>2. h.id <= f.id /\ h.id \in Nat /\ f.id \in Nat
    BY <2>0, RowFacts
  <2>3. /\ Len(row.event_hash) = Len(link) + 1
        /\ Clean(row.event_hash) <=> Clean(link)
        /\ Len(link) \in Nat /\ Len(h.event_hash) \in Nat
    <3>1. h.event_hash \in Hashes
      BY RowFacts
    <3>2. Len(link) \in Nat /\ Len(h.event_hash) \in Nat
      BY <1>5, <3>1, LenProperties DEF Hashes
    <3> QED
      BY <1>2, <1>5, <1>6, <3>2, AppendHash DEF Digest
  <2>4. CASE h = f
    BY <1>2, <2>0, <2>3, <2>4
  <2>5. CASE h # f
    <3>1. h.id < f.id
      BY <2>1, <2>2, <2>5
    <3>2. row.follows # h.id
      BY <1>2, <2>0, <2>2, <3>1
    <3>3. CASE link = <<OtherPayload>>
      BY <2>3, <3>2, <3>3, ForeignHash
    <3>4. CASE \E w \in written : w.id = f.id /\ w.event_hash = link
      <4> PICK w \in written : w.id = f.id /\ w.event_hash = link
        BY <3>4
      <4>1. Clean(h.event_hash) => ~ Clean(link) \/ Len(h.event_hash) < Len(link)
        BY <3>1 DEF LinksConsistent
      <4> QED
        BY <2>3, <3>2, <4>1
    <3> QED
      BY <1>12, <2>0, <3>3, <3>4
  <2> QED
    BY <2>4, <2>5
<1>15. ASSUME NEW w \in written
       PROVE  /\ w.follows < w.id
              /\ w.follows = NoEvent <=> w.previous_hash = GenesisHash
              /\ w.follows # NoEvent =>
                   \/ w.previous_hash = <<OtherPayload>>
                   \/ \E g \in written' : g.id = w.follows /\ w.previous_hash = g.event_hash
              /\ \A h \in events' : h.id < w.id => h.id <= w.follows
              /\ \A h \in events' \intersect written' :
                   /\ w.follows = h.id => w.previous_hash = h.event_hash
                   /\ h.id < w.id /\ Clean(h.event_hash) =>
                        ~ Clean(w.event_hash) \/ Len(h.event_hash) < Len(w.event_hash)
  <2>1. w.id < n /\ w.id \in Nat
    BY <1>4
  <2>2. w.follows # n
    BY <1>4, <2>1, RowFacts DEF LinksConsistent
  <2>3. \A h \in events' \intersect written' : h = row \/ h \in events \intersect written
    BY <1>1, <1>2, <1>4
  <2>4. ~ (n < w.id)
    BY <1>4, <2>1
  <2> QED
    BY <1>1, <1>2, <2>2, <2>3, <2>4 DEF LinksConsistent
<1>16. LinksConsistent'
  <2>1. \A h \in events' \intersect written' : h = row \/ h \in events \intersect written
    BY <1>1, <1>2, <1>4
  <2>2. row.follows # row.id /\ ~ (row.id < row.id)
    <3>1. head # n
      BY <1>3, <1>4 DEF NoEvent
    <3> QED
      BY <1>2, <1>4, <3>1
  <2>3. \A h \in events' \intersect written' :
          /\ row.follows = h.id => row.previous_hash = h.event_hash
          /\ h.id < row.id /\ Clean(h.event_hash) =>
               ~ Clean(row.event_hash) \/ Len(h.event_hash) < Len(row.event_hash)
    BY <1>14, <2>1, <2>2
  <2> QED
    BY <1>1, <1>13, <1>15, <2>3, Zenon DEF LinksConsistent
<1> QED
  BY <1>8, <1>9, <1>10, <1>16

(* An alteration is a row, under the id it had. *)
LEMMA AlterationFacts ==
  ASSUME NEW w \in Rows, NEW e \in Alterations(w)
  PROVE  e \in Rows /\ e.id = w.id
<1>1. OtherPayload \in Texts /\ <<OtherPayload>> \in Hashes
  BY ForeignHash DEF Texts
<1>2. e.id = w.id
  BY DEF Alterations, Rows
<1>3. CASE e = [w EXCEPT !.payload_canonical = OtherPayload]
  BY <1>1, <1>3 DEF Rows, Texts
<1>4. CASE e = [w EXCEPT !.previous_hash = <<OtherPayload>>]
  BY <1>1, <1>4 DEF Rows
<1>5. CASE e = [w EXCEPT !.event_hash = <<OtherPayload>>]
  BY <1>1, <1>5 DEF Rows
<1> QED
  BY <1>2, <1>3, <1>4, <1>5 DEF Alterations

(* Rows that are gone, and altered rows, leave what is known of the rest.   *)
LEMMA ChangeKeeps ==
  ASSUME TypeOK, RowsConsistent, LinksConsistent, NEW e \in events, Alter(e) \/ RemoveRow(e)
  PROVE  RowsConsistent' /\ LinksConsistent'
         /\ events' \subseteq Rows /\ IsFiniteSet(events') /\ written' = written
<1>1. written' = written
  BY DEF Alter, RemoveRow, Change
<1>2. /\ events \ {e} \subseteq Rows /\ IsFiniteSet(events \ {e})
  BY FS_RemoveElement DEF TypeOK
<1>3. CASE RemoveRow(e)
  <2>1. events' = events \ {e}
    BY <1>3 DEF RemoveRow, Change
  <2>2. RowsConsistent'
    BY <1>1, <2>1 DEF RowsConsistent
  <2>3. LinksConsistent'
    BY <1>1, <2>1 DEF LinksConsistent
  <2> QED
    BY <1>1, <1>2, <2>1, <2>2, <2>3
<1>4. CASE Alter(e)
  <2>1. PICK altered \in Alterations(e) : events' = (events \ {e}) \union {altered}
    BY <1>4 DEF Alter, Change
  <2>2. e \in written /\ e \in Rows /\ altered \in Rows /\ altered.id = e.id
    BY <1>4, AlterationFacts DEF Alter, TypeOK
  <2>3. events' \subseteq Rows /\ IsFiniteSet(events')
    BY <1>2, <2>1, <2>2, FS_AddElement
  <2>4. RowsConsistent'
    <3>1. \A f, g \in events' : f.id = g.id => f = g
      BY <2>1, <2>2 DEF RowsConsistent
    <3>2. \A f \in events' : f \in written \/ \E w \in written : f \in Alterations(w)
      BY <2>1, <2>2, Zenon DEF RowsConsistent
    <3> QED
      BY <1>1, <3>1, <3>2 DEF RowsConsistent
  <2>5. LinksConsistent'
    <3>1. \A h \in events' : \E g \in events : g.id = h.id
      BY <2>1, <2>2
    <3>2. \A h \in events' \intersect written : h \in events
      BY <2>1, <2>2 DEF RowsConsistent
    <3>3. \A w \in written, h \in events' : h.id < w.id => h.id <= w.follows
      BY <3>1 DEF LinksConsistent
    <3> QED
      BY <1>1, <3>2, <3>3 DEF LinksConsistent
  <2> QED
    BY <1>1, <2>3, <2>4, <2>5
<1> QED
  BY <1>3, <1>4

-----------------------------------------------------------------------------
(* The loop *)

(* What is written and changed by hand after the SELECT says nothing new of *)
(* the rows the function reads.                                             *)
LEMMA SnapshotStays ==
  ASSUME HistoryInv, UNCHANGED loop, IsFiniteSet(written'),
         \/ written' = written
         \/ \E row : /\ written' = written \union {row}
                     /\ row.id = Cardinality(written) + 1
  PROVE  /\ \A e \in loop'.snapshot : e.id <= Cardinality(written')
         /\ FirstWrongIsSeen(loop.snapshot)'
         /\ LoopConsistent'
<1>1. Cardinality(written) \in Nat
  BY FS_CardinalityType DEF HistoryInv, TypeOK
<1>2. \A e \in loop.snapshot : e.id \in Nat /\ e.id <= Cardinality(written)
  BY DEF HistoryInv, TypeOK, Rows
<1>3. Cardinality(written) <= Cardinality(written') /\ Cardinality(written') \in Nat
  BY FS_Subset, FS_CardinalityType, <1>1 DEF HistoryInv, TypeOK
<1>4. \A e \in loop'.snapshot : e.id <= Cardinality(written')
  BY <1>1, <1>2, <1>3
<1>5. \A e \in loop.snapshot : e \in written' <=> e \in written
  BY <1>1, <1>2
<1>6. WrongedIn(loop.snapshot)' = WrongedIn(loop.snapshot)
  BY <1>5 DEF WrongedIn
<1>7. FirstWrongIsSeen(loop.snapshot)'
  BY <1>6 DEF HistoryInv, FirstWrongIsSeen
<1>8. LoopConsistent'
  BY DEF HistoryInv, LoopConsistent
<1> QED
  BY <1>4, <1>7, <1>8

(* e is the first of the rows R to come, of the rows S. *)
InOrder(S, R, e) ==
  /\ R \in SUBSET S /\ e \in R /\ Distinct(S) /\ Numbered(S) /\ IsFiniteSet(S)
  /\ \A f \in R : e.id <= f.id
  /\ \A f \in S \ R, g \in R : f.id < g.id

(* The rows read before a row, with that row. *)
OneMoreRead(S, R, e) ==
  /\ S \ (R \ {e}) = (S \ R) \union {e}
  /\ EventsBefore(e, S) = S \ R
  /\ HeadHash(S \ (R \ {e})) = e.event_hash
  /\ Cardinality(S \ (R \ {e})) = Cardinality(S \ R) + 1
  /\ \A f \in S \ (R \ {e}), g \in R \ {e} : f.id < g.id

LEMMA ReadOneMore ==
  ASSUME NEW S, NEW R, NEW e, InOrder(S, R, e)
  PROVE  OneMoreRead(S, R, e)
<1> USE DEF InOrder
<1>1. S \ (R \ {e}) = (S \ R) \union {e}
  OBVIOUS
<1>2. EventsBefore(e, S) = S \ R
  BY DEF EventsBefore, Numbered
<1>3. HeadHash((S \ R) \union {e}) = e.event_hash
  <2>1. /\ Distinct((S \ R) \union {e}) /\ Numbered((S \ R) \union {e})
        /\ \A f \in (S \ R) \union {e} : f.id <= e.id
    BY DEF Distinct, Numbered
  <2> QED
    BY <2>1, LatestIs
<1>4. Cardinality((S \ R) \union {e}) = Cardinality(S \ R) + 1 /\ Cardinality(S \ R) \in Nat
  <2>1. IsFiniteSet(S \ R)
    BY FS_Subset
  <2> QED
    BY <2>1, FS_AddElement, FS_CardinalityType
<1>5. \A f \in S \ (R \ {e}), g \in R \ {e} : f.id < g.id
  BY DEF Distinct, Numbered
<1> QED
  BY <1>1, <1>2, <1>3, <1>4, <1>5 DEF OneMoreRead

(* Rows that link or hash wrongly among those read. *)
Broken(read, rows) == {e \in read : ~ IntactEvent(e, rows)}

LEMMA TurnKeeps ==
  ASSUME HistoryInv, Turn
  PROVE  LoopConsistent' /\ TypeOK' /\ loop'.snapshot = loop.snapshot
<1> DEFINE S == loop.snapshot
           R == loop.rows
           e == FirstRow(R)
           expected == loop.v_expected_previous_hash
           mismatch == Mismatch(e, expected)
<1>1. /\ S \subseteq Rows /\ IsFiniteSet(S) /\ R \subseteq S /\ R # {}
      /\ Distinct(S) /\ Numbered(S) /\ Numbered(R)
      /\ \A f \in S \ R, g \in R : f.id < g.id
  BY DEF HistoryInv, TypeOK, LoopConsistent, Turn, Distinct, Numbered, Rows
<1>2. e \in R /\ \A f \in R : e.id <= f.id
  <2> HIDE DEF R
  <2>1. \E f \in R : \A g \in R : f.id <= g.id
    BY <1>1, LowestRow DEF Numbered
  <2> QED
    BY <2>1 DEF FirstRow
<1>3. /\ loop'.pc = "loop" /\ loop'.snapshot = S /\ loop'.rows = R \ {e}
      /\ loop'.v_event_count = loop.v_event_count + 1
      /\ loop'.v_valid = (loop.v_valid /\ ~ (loop.v_valid /\ mismatch))
      /\ loop'.v_first_broken_event_id =
           IF loop.v_valid /\ mismatch THEN e.id ELSE loop.v_first_broken_event_id
      /\ loop'.v_expected_previous_hash = IF loop.v_valid THEN e.event_hash ELSE expected
  BY DEF Turn, HistoryInv, TypeOK, Expected
<1>4. /\ loop.v_valid \in BOOLEAN /\ loop.v_event_count \in Nat
      /\ loop.v_first_broken_event_id \in Nat /\ expected \in Hashes
      /\ e.id \in Nat /\ e.event_hash \in Hashes
  BY <1>1, <1>2 DEF HistoryInv, TypeOK, Rows
<1>5. /\ loop.v_event_count = Cardinality(S \ R)
      /\ loop.v_valid <=> Broken(S \ R, S) = {}
      /\ loop.v_valid => expected = HeadHash(S \ R) /\ loop.v_first_broken_event_id = NoEvent
      /\ ~ loop.v_valid => \E b \in Broken(S \ R, S) :
                             /\ b.id = loop.v_first_broken_event_id
                             /\ \A f \in Broken(S \ R, S) : b.id <= f.id
  BY DEF HistoryInv, LoopConsistent, Broken
<1> HIDE DEF S, R, e, expected, mismatch
<1>6. /\ S \ (R \ {e}) = (S \ R) \union {e}
      /\ EventsBefore(e, S) = S \ R
      /\ HeadHash(S \ (R \ {e})) = e.event_hash
      /\ Cardinality(S \ (R \ {e})) = Cardinality(S \ R) + 1
      /\ \A f \in S \ (R \ {e}), g \in R \ {e} : f.id < g.id
  <2>1. InOrder(S, R, e)
    BY <1>1, <1>2, Zenon DEF InOrder
  <2>2. OneMoreRead(S, R, e)
    BY <2>1, ReadOneMore
  <2> QED
    BY <2>2, Zenon DEF OneMoreRead
<1>7. IntactEvent(e, S) <=> ~ Mismatch(e, HeadHash(S \ R))
  BY <1>6 DEF IntactEvent, Mismatch
<1>8. Broken(S \ (R \ {e}), S) = Broken(S \ R, S) \union (IF IntactEvent(e, S) THEN {} ELSE {e})
  BY <1>6 DEF Broken
<1>9. /\ loop'.v_valid <=> Broken(S \ (R \ {e}), S) = {}
      /\ loop'.v_valid => /\ loop'.v_expected_previous_hash = HeadHash(S \ (R \ {e}))
                          /\ loop'.v_first_broken_event_id = NoEvent
      /\ ~ loop'.v_valid => \E b \in Broken(S \ (R \ {e}), S) :
                              /\ b.id = loop'.v_first_broken_event_id
                              /\ \A f \in Broken(S \ (R \ {e}), S) : b.id <= f.id
  <2>1. CASE loop.v_valid
    <3>1. mismatch <=> ~ IntactEvent(e, S)
      BY <1>5, <1>7, <2>1 DEF mismatch
    <3>2. Broken(S \ (R \ {e}), S) = IF mismatch THEN {e} ELSE {}
      BY <1>5, <1>8, <2>1, <3>1
    <3>3. loop'.v_valid <=> ~ mismatch
      BY <1>3, <2>1
    <3>4. CASE mismatch
      <4>1. ~ loop'.v_valid /\ loop'.v_first_broken_event_id = e.id
        BY <1>3, <2>1, <3>4
      <4>2. Broken(S \ (R \ {e}), S) = {e} /\ e.id <= e.id
        BY <1>4, <3>2, <3>4
      <4> QED
        BY <4>1, <4>2
    <3>5. CASE ~ mismatch
      BY <1>3, <1>5, <1>6, <2>1, <3>2, <3>3, <3>5
    <3> QED
      BY <3>4, <3>5
  <2>2. CASE ~ loop.v_valid
    <3>1. PICK b \in Broken(S \ R, S) : /\ b.id = loop.v_first_broken_event_id
                                        /\ \A f \in Broken(S \ R, S) : b.id <= f.id
      BY <1>5, <2>2
    <3>2. b \in S \ R /\ b.id \in Nat
      BY <1>1 DEF Broken, Numbered
    <3>3. b.id <= e.id
      BY <1>1, <1>2, <1>4, <3>2
    <3>4. b \in Broken(S \ (R \ {e}), S) /\ \A f \in Broken(S \ (R \ {e}), S) : b.id <= f.id
      BY <1>8, <3>1, <3>3
    <3>5. ~ loop'.v_valid /\ loop'.v_first_broken_event_id = loop.v_first_broken_event_id
      BY <1>3, <2>2
    <3> QED
      BY <3>1, <3>4, <3>5
  <2> QED
    BY <2>1, <2>2
<1>10. LoopConsistent'
  <2>1. \A f, g \in S : f.id = g.id => f = g
    BY <1>1 DEF Distinct
  <2>2. R \ {e} \subseteq S /\ loop'.v_event_count = Cardinality(S \ (R \ {e}))
    BY <1>1, <1>3, <1>5, <1>6
  <2> QED
    BY <1>1, <1>3, <1>6, <1>9, <2>1, <2>2 DEF LoopConsistent, Broken
<1>11. TypeOK'
  <2>1. loop'.v_event_count \in Nat /\ loop'.v_first_broken_event_id \in Nat
        /\ loop'.v_expected_previous_hash \in Hashes /\ loop'.v_valid \in BOOLEAN
        /\ loop'.snapshot \in SUBSET Rows /\ loop'.rows \in SUBSET Rows
    BY <1>1, <1>3, <1>4
  <2>2. loop' \in [pc : {"idle", "loop", "returned"}, snapshot : SUBSET Rows, rows : SUBSET Rows,
               v_expected_previous_hash : Hashes, v_event_count : Nat,
               v_first_broken_event_id : Nat, v_valid : BOOLEAN]
    <3> HIDE DEF Turn
    <3>1. loop' = [pc |-> loop'.pc, snapshot |-> loop'.snapshot, rows |-> loop'.rows,
                   v_expected_previous_hash |-> loop'.v_expected_previous_hash,
                   v_event_count |-> loop'.v_event_count,
                   v_first_broken_event_id |-> loop'.v_first_broken_event_id,
                   v_valid |-> loop'.v_valid]
      BY DEF Turn, HistoryInv, TypeOK
    <3> QED
      BY <1>3, <2>1, <3>1
  <2>3. events' = events /\ written' = written /\ changes' = changes
    BY DEF Turn
  <2>4. /\ events \subseteq Rows /\ IsFiniteSet(events)
        /\ written \subseteq Rows /\ IsFiniteSet(written) /\ changes \in Nat
    BY DEF HistoryInv, TypeOK
  <2>5. /\ events' \subseteq Rows /\ IsFiniteSet(events')
        /\ written' \subseteq Rows /\ IsFiniteSet(written') /\ changes' \in Nat
    BY <2>3, <2>4, Zenon
  <2> QED
    BY <2>2, <2>5 DEF TypeOK
<1> QED
  BY <1>3, <1>10, <1>11 DEF S

-----------------------------------------------------------------------------
(* The theorems *)

LEMMA InitHolds ==
  ASSUME Init
  PROVE  HistoryInv
<1>1. TypeOK
  BY ForeignHash, FS_EmptySet DEF Init, Idle, TypeOK, NoEvent, GenesisHash
<1>2. RowsConsistent /\ LinksConsistent
  BY DEF Init, RowsConsistent, LinksConsistent
<1>3. LoopConsistent
  BY FS_EmptySet DEF Init, Idle, LoopConsistent, HeadHash
<1>4. (\A e \in loop.snapshot : e.id <= Cardinality(written)) /\ FirstWrongIsSeen(loop.snapshot)
  BY DEF Init, Idle, FirstWrongIsSeen
<1> QED
  BY <1>1, <1>2, <1>3, <1>4 DEF HistoryInv

LEMMA StartKeeps ==
  ASSUME HistoryInv, Start
  PROVE  HistoryInv'
<1>1. /\ loop' = [pc |-> "loop", snapshot |-> events, rows |-> events,
                  v_expected_previous_hash |-> GenesisHash, v_event_count |-> 0,
                  v_first_broken_event_id |-> NoEvent, v_valid |-> TRUE]
      /\ events' = events /\ written' = written /\ changes' = changes
  BY DEF Start, Idle
<1>2. TypeOK'
  BY <1>1, ForeignHash DEF HistoryInv, TypeOK, NoEvent, GenesisHash
<1>3. RowsConsistent' /\ LinksConsistent'
  BY <1>1 DEF HistoryInv, RowsConsistent, LinksConsistent
<1>4. LoopConsistent'
  <2>1. events \ events = {} /\ Cardinality({}) = 0
    BY FS_EmptySet
  <2>2. IsFiniteSet(events) /\ \A e, f \in events : e.id = f.id => e = f
    BY DEF HistoryInv, TypeOK, RowsConsistent
  <2> QED
    BY <1>1, <2>1, <2>2 DEF LoopConsistent, HeadHash
<1>5. \A e \in loop'.snapshot : e.id <= Cardinality(written')
  BY <1>1, RowFacts DEF HistoryInv
<1>6. FirstWrongIsSeen(loop.snapshot)'
  <2>1. FirstWrongIsSeen(events)
    BY StoredRowsTell DEF HistoryInv
  <2> QED
    BY <1>1, <2>1 DEF FirstWrongIsSeen, WrongedIn
<1> QED
  BY <1>2, <1>3, <1>4, <1>5, <1>6 DEF HistoryInv

LEMMA StepsKeep ==
  ASSUME HistoryInv, [Next]_vars
  PROVE  HistoryInv'
<1>0. TypeOK /\ RowsConsistent /\ LinksConsistent
  BY DEF HistoryInv
<1>1. ASSUME NEW payload \in Payloads, Write(payload)
      PROVE  HistoryInv'
  <2>1. /\ RowsConsistent' /\ LinksConsistent'
        /\ events' \subseteq Rows /\ IsFiniteSet(events')
        /\ written' \subseteq Rows /\ IsFiniteSet(written')
    BY <1>0, <1>1, WriteKeeps
  <2>2. /\ UNCHANGED loop /\ changes' = changes
        /\ \E row : written' = written \union {row} /\ row.id = Cardinality(written) + 1
    <3> DEFINE row == [id |-> Cardinality(written) + 1, follows |-> HeadId(events),
                       payload_canonical |-> payload, previous_hash |-> HeadHash(events),
                       event_hash |-> Digest(payload, HeadHash(events))]
    <3>1. row.id = Cardinality(written) + 1
      OBVIOUS
    <3>2. written' = written \union {row} /\ loop' = loop /\ changes' = changes
      BY <1>1 DEF Write
    <3> HIDE DEF row
    <3> QED
      BY <3>1, <3>2
  <2>3. TypeOK'
    BY <1>0, <2>1, <2>2 DEF TypeOK
  <2>4. /\ \A e \in loop'.snapshot : e.id <= Cardinality(written')
        /\ FirstWrongIsSeen(loop.snapshot)' /\ LoopConsistent'
    BY <2>1, <2>2, SnapshotStays
  <2> QED
    BY <2>1, <2>3, <2>4 DEF HistoryInv
<1>2. ASSUME NEW e \in events, Alter(e) \/ RemoveRow(e)
      PROVE  HistoryInv'
  <2>1. /\ RowsConsistent' /\ LinksConsistent'
        /\ events' \subseteq Rows /\ IsFiniteSet(events') /\ written' = written
    BY <1>0, <1>2, ChangeKeeps
  <2>2. UNCHANGED loop /\ changes' = changes + 1
    BY <1>2 DEF Alter, RemoveRow, Change
  <2>3. TypeOK'
    BY <1>0, <2>1, <2>2 DEF TypeOK
  <2>4. /\ \A f \in loop'.snapshot : f.id <= Cardinality(written')
        /\ FirstWrongIsSeen(loop.snapshot)' /\ LoopConsistent'
    <3>1. IsFiniteSet(written')
      BY <1>0, <2>1 DEF TypeOK
    <3> QED
      BY <2>1, <2>2, <3>1, SnapshotStays
  <2> QED
    BY <2>1, <2>3, <2>4 DEF HistoryInv
<1>3. CASE Start
  BY <1>3, StartKeeps
<1>4. CASE Turn
  <2>1. events' = events /\ written' = written /\ changes' = changes
    BY <1>4 DEF Turn
  <2>2. TypeOK' /\ LoopConsistent' /\ loop'.snapshot = loop.snapshot
    BY <1>4, TurnKeeps
  <2>3. RowsConsistent' /\ LinksConsistent'
    BY <1>0, <2>1 DEF RowsConsistent, LinksConsistent
  <2>4. FirstWrongIsSeen(loop.snapshot)' /\ \A e \in loop'.snapshot : e.id <= Cardinality(written')
    BY <2>1, <2>2 DEF HistoryInv, FirstWrongIsSeen, WrongedIn
  <2> QED
    BY <2>2, <2>3, <2>4 DEF HistoryInv
<1>5. CASE Return
  <2>1. /\ events' = events /\ written' = written /\ changes' = changes
        /\ loop.rows = {} /\ loop' = [loop EXCEPT !.pc = "returned"]
    BY <1>5 DEF Return
  <2>2. TypeOK'
    BY <1>0, <2>1 DEF TypeOK
  <2>3. RowsConsistent' /\ LinksConsistent'
    BY <1>0, <2>1 DEF RowsConsistent, LinksConsistent
  <2>4. /\ loop'.snapshot = loop.snapshot /\ loop'.rows = loop.rows
        /\ loop'.v_event_count = loop.v_event_count /\ loop'.v_valid = loop.v_valid
        /\ loop'.v_first_broken_event_id = loop.v_first_broken_event_id
        /\ loop'.v_expected_previous_hash = loop.v_expected_previous_hash
    BY <1>0, <2>1 DEF TypeOK
  <2>5. LoopConsistent'
    BY <2>1, <2>4 DEF HistoryInv, LoopConsistent
  <2>6. FirstWrongIsSeen(loop.snapshot)' /\ \A e \in loop'.snapshot : e.id <= Cardinality(written')
    BY <2>1, <2>4 DEF HistoryInv, FirstWrongIsSeen, WrongedIn
  <2> QED
    BY <2>2, <2>3, <2>5, <2>6 DEF HistoryInv
<1>6. CASE UNCHANGED vars
  BY <1>6 DEF vars, HistoryInv, TypeOK, RowsConsistent, LinksConsistent, LoopConsistent,
              FirstWrongIsSeen, WrongedIn
<1> QED
  BY <1>1, <1>2, <1>3, <1>4, <1>5, <1>6 DEF Next

(* The inductive invariant: the links of what was written tell of the rows  *)
(* still there, and the loop knows of the rows it read.                     *)
THEOREM HistoryInvariant == Spec => []HistoryInv
<1>1. Init => HistoryInv
  BY InitHolds
<1>2. HistoryInv /\ [Next]_vars => HistoryInv'
  BY StepsKeep
<1> QED
  BY <1>1, <1>2, PTL DEF Spec

(* fn_verify_policy_history returns what the definition of a valid chain    *)
(* says of the rows of its SELECT, however many rows there are and whatever *)
(* was done to them.                                                        *)
THEOREM LoopComputesIt == Spec => []LoopComputesVerification
<1>1. HistoryInv => LoopComputesVerification
  <2> SUFFICES ASSUME HistoryInv, loop.pc = "returned"
               PROVE  [valid |-> loop.v_valid, event_count |-> loop.v_event_count,
                       first_broken_event_id |-> loop.v_first_broken_event_id]
                        = VerifyHistory(loop.snapshot)
    BY DEF LoopComputesVerification
  <2> DEFINE broken == {e \in loop.snapshot : ~ IntactEvent(e, loop.snapshot)}
  <2>1. loop.snapshot \ loop.rows = loop.snapshot
    BY DEF HistoryInv, LoopConsistent
  <2>2. /\ loop.v_event_count = Cardinality(loop.snapshot)
        /\ loop.v_valid <=> broken = {}
        /\ loop.v_valid => loop.v_first_broken_event_id = 0
        /\ ~ loop.v_valid => \E e \in broken : /\ e.id = loop.v_first_broken_event_id
                                               /\ \A f \in broken : e.id <= f.id
        /\ \A e, f \in broken : e.id = f.id => e = f
    BY <2>1 DEF HistoryInv, LoopConsistent, NoEvent
  <2>3. loop.v_valid \in BOOLEAN /\ \A e \in broken : e.id \in Nat
    BY DEF HistoryInv, TypeOK, Rows
  <2>4. VerifyHistory(loop.snapshot) =
          [valid |-> broken = {}, event_count |-> Cardinality(loop.snapshot),
           first_broken_event_id |->
             IF broken = {} THEN 0
             ELSE (CHOOSE e \in broken : \A f \in broken : e.id <= f.id).id]
    BY DEF VerifyHistory
  <2> HIDE DEF broken
  <2>5. broken # {} => (CHOOSE e \in broken : \A f \in broken : e.id <= f.id).id
                         = loop.v_first_broken_event_id
    <3> SUFFICES ASSUME broken # {}
                 PROVE  (CHOOSE e \in broken : \A f \in broken : e.id <= f.id).id
                          = loop.v_first_broken_event_id
      OBVIOUS
    <3>1. PICK e \in broken : /\ e.id = loop.v_first_broken_event_id
                              /\ \A f \in broken : e.id <= f.id
      BY <2>2
    <3>2. \A f \in broken : (\A g \in broken : f.id <= g.id) => f = e
      BY <2>2, <2>3, <3>1
    <3> QED
      BY <3>1, <3>2
  <2>6. loop.v_valid = (broken = {})
    BY <2>2, <2>3
  <2>7. loop.v_first_broken_event_id =
          IF broken = {} THEN 0
          ELSE (CHOOSE e \in broken : \A f \in broken : e.id <= f.id).id
    BY <2>2, <2>5, <2>6
  <2> QED
    BY <2>2, <2>4, <2>6, <2>7, Zenon
<1> QED
  BY <1>1, HistoryInvariant, PTL

(* The row fn_verify_policy_history reports is the first one altered or     *)
(* bereft of its predecessor, and it reports one if there is one: rows      *)
(* written since, even onto a broken chain, never mislead it.               *)
THEOREM FirstWrongedIsBlamed == Spec => []BlamesTheFirstWronged
<1>1. HistoryInv => BlamesTheFirstWronged
  <2> SUFFICES ASSUME HistoryInv, loop.pc = "returned"
               PROVE  /\ loop.v_valid <=> Wronged = {}
                      /\ ~ loop.v_valid =>
                           \E e \in Wronged :
                             /\ e.id = loop.v_first_broken_event_id
                             /\ \A f \in Wronged : e.id <= f.id
    BY DEF BlamesTheFirstWronged
  <2> DEFINE broken == {e \in loop.snapshot : ~ IntactEvent(e, loop.snapshot)}
  <2>1. loop.snapshot \ loop.rows = loop.snapshot
    BY DEF HistoryInv, LoopConsistent
  <2>2. /\ loop.v_valid <=> broken = {}
        /\ ~ loop.v_valid => \E e \in broken : /\ e.id = loop.v_first_broken_event_id
                                               /\ \A f \in broken : e.id <= f.id
    BY <2>1 DEF HistoryInv, LoopConsistent
  <2>3. \A e \in loop.snapshot : e.id \in Nat
    BY DEF HistoryInv, TypeOK, Rows
  <2>4. Wronged \subseteq loop.snapshot /\ broken \subseteq loop.snapshot
    BY DEF Wronged, WrongedIn
  <2>5. \A e \in loop.snapshot :
          (\A f \in loop.snapshot : f.id < e.id => f \notin Wronged) =>
            (e \notin broken <=> e \notin Wronged)
    BY DEF HistoryInv, FirstWrongIsSeen, Wronged
  <2> HIDE DEF broken
  <2>6. CASE Wronged = {}
    BY <2>2, <2>4, <2>5, <2>6
  <2>7. CASE Wronged # {}
    <3>1. PICK w \in Wronged : \A f \in Wronged : w.id <= f.id
      BY <2>3, <2>4, <2>7, LowestRow
    <3>2. w \in loop.snapshot /\ \A f \in loop.snapshot : f.id < w.id => f \notin Wronged
      BY <2>3, <2>4, <3>1
    <3>3. w \in broken
      BY <2>5, <3>2
    <3>4. PICK b \in broken : /\ b.id = loop.v_first_broken_event_id
                              /\ \A f \in broken : b.id <= f.id
      BY <2>2, <3>3
    <3>5. ~ (b.id < w.id)
      <4> SUFFICES ASSUME b.id < w.id PROVE FALSE
        OBVIOUS
      <4>1. \A f \in loop.snapshot : f.id <= b.id => f.id < w.id
        BY <2>3, <2>4, <3>2
      <4>2. b \notin Wronged /\ \A f \in loop.snapshot : f.id < b.id => f \notin Wronged
        BY <2>3, <2>4, <3>2, <4>1
      <4> QED
        BY <2>4, <2>5, <4>2
    <3>6. b.id = w.id
      BY <2>3, <2>4, <3>2, <3>3, <3>4, <3>5
    <3> QED
      BY <2>2, <2>7, <3>1, <3>3, <3>4, <3>6
  <2> QED
    BY <2>6, <2>7
<1> QED
  BY <1>1, HistoryInvariant, PTL
=============================================================================
