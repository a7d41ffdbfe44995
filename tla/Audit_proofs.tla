---------------------------- MODULE Audit_proofs ----------------------------
(***************************************************************************)
(* Proofs about the two audit trails, for any events, keys and limits: what *)
(* is in the database verifies at every instant, whatever the instances of  *)
(* the trail do at the same time; what a file acknowledged is in its durable *)
(* part; a file whose writes do not fail becomes unreadable in two ways only, *)
(* and a trail that runs continues it; and both trails are one chain that     *)
(* only grows, in which each event appears once.                             *)
(***************************************************************************)
EXTENDS FileAudit, PersistentAudit, SequenceTheorems, FiniteSetTheorems,
        WellFoundedInduction, TLAPS

-----------------------------------------------------------------------------
\* A function on an initial interval is a sequence.
LEMMA FunctionIsSeq ==
  ASSUME NEW S, NEW n \in Nat, NEW c, c = [i \in 1..n |-> c[i]], \A i \in 1..n : c[i] \in S
  PROVE  c \in Seq(S) /\ Len(c) = n
<1>1. c \in [1..n -> S]
  OBVIOUS
<1>2. c \in Seq(S)
  BY <1>1, SeqDef
<1>3. DOMAIN c = 1..n /\ DOMAIN c = 1..Len(c) /\ Len(c) \in Nat
  BY <1>1, <1>2, LenProperties
<1>. QED
  BY <1>2, <1>3

\* Append, as a function.
LEMMA AppendIsFunction ==
  ASSUME NEW S, NEW q \in Seq(S), NEW x \in S
  PROVE  Append(q, x) = [i \in 1..(Len(q) + 1) |-> IF i = Len(q) + 1 THEN x ELSE q[i]]
<1>. DEFINE n == Len(q)
            a == Append(q, x)
<1>1. /\ n \in Nat /\ a \in Seq(S) /\ Len(a) = n + 1 /\ a[n + 1] = x
      /\ \A i \in 1..n : a[i] = q[i]
  BY AppendProperties
<1>5. a \in [1..Len(a) -> S]
  BY <1>1, LenProperties
<1>2. (1..n) \cup {n + 1} = 1..(n + 1) /\ n + 1 \notin 1..n
  BY <1>1
<1>3. a = [i \in 1..(n + 1) |-> a[i]]
  BY <1>1, <1>5
<1>. HIDE DEF n, a
<1>4. \A i \in 1..(n + 1) : a[i] = IF i = n + 1 THEN x ELSE q[i]
  BY <1>1, <1>2
<1>. QED
  BY <1>3, <1>4 DEF n, a

\* The events of a sequence of records or lines.
EventsOf(q) == [i \in DOMAIN q |-> q[i].event]

LEMMA EventsType ==
  ASSUME NEW S, NEW A, NEW q \in Seq(S), \A x \in S : x.event \in A
  PROVE  EventsOf(q) \in Seq(A) /\ Len(EventsOf(q)) = Len(q)
<1>1. Len(q) \in Nat /\ DOMAIN q = 1..Len(q) /\ \A i \in 1..Len(q) : q[i] \in S
  OBVIOUS
<1>2. /\ EventsOf(q) = [i \in 1..Len(q) |-> EventsOf(q)[i]]
      /\ \A i \in 1..Len(q) : EventsOf(q)[i] \in A
  BY <1>1 DEF EventsOf
<1>. QED
  BY <1>1, <1>2, FunctionIsSeq

\* One record or line more is one event more.
LEMMA EventsAppend ==
  ASSUME NEW S, NEW A, NEW q \in Seq(S), NEW x \in S, \A y \in S : y.event \in A
  PROVE  EventsOf(Append(q, x)) = Append(EventsOf(q), x.event)
<1>. DEFINE n == Len(q)
<1>1. n \in Nat /\ DOMAIN q = 1..n /\ DOMAIN Append(q, x) = 1..(n + 1)
  BY AppendProperties
<1>2. Append(q, x) = [i \in 1..(n + 1) |-> IF i = n + 1 THEN x ELSE q[i]]
  BY AppendIsFunction
<1>3. EventsOf(q) \in Seq(A) /\ Len(EventsOf(q)) = n /\ x.event \in A
  BY EventsType
<1>4. Append(EventsOf(q), x.event) =
        [i \in 1..(n + 1) |-> IF i = n + 1 THEN x.event ELSE EventsOf(q)[i]]
  BY <1>3, AppendIsFunction
<1>5. \A i \in 1..(n + 1) : i # n + 1 => i \in 1..n
  BY <1>1
<1>. HIDE DEF n
<1>. QED
  BY <1>1, <1>2, <1>4, <1>5 DEF EventsOf

-----------------------------------------------------------------------------
(* The trail in the database. *)

Entry == [event : TrailEvents, previous : Seq(TrailEvents), key : Signers]

ChainState == [version : Nat, sequence : Nat, signature : Seq(TrailEvents),
               signer_id : Signers \cup {NoSigner}]

\* The state record describes the event records, which are a chain of one key.
TrailInv ==
    /\ record \in Seq(Entry) /\ Len(record) <= MaxEvents
    /\ state \in ChainState
    /\ state.sequence = Len(record) /\ state.version = Len(record)
    /\ state.signature =
         IF Len(record) = 0 THEN <<>> ELSE ChainSignature(record[Len(record)])
    /\ Len(record) = 0 <=> state.signer_id = NoSigner
    /\ \A n \in 1..Len(record) :
          /\ record[n].key = state.signer_id
          /\ record[n].previous = IF n = 1 THEN <<>> ELSE ChainSignature(record[n - 1])

\* What a transaction has read is a state of the past: of the same version only when it
\* is the present one.
ReadInv ==
    /\ stage \in [TrailEvents -> {"idle", "signing", "committed", "returned", "raised"}]
    /\ read \in [TrailEvents -> ChainState]
    /\ \A e \in TrailEvents :
          stage[e] = "signing" =>
             /\ read[e].version <= state.version
             /\ read[e].version = state.version => read[e] = state

LEMMA TrailStarts == TrailInit => TrailInv /\ ReadInv
<1>. SUFFICES ASSUME TrailInit PROVE TrailInv /\ ReadInv
  OBVIOUS
<1>1. /\ <<>> \in Seq(Entry) /\ Len(<<>>) = 0 /\ 1..Len(<<>>) = {}
      /\ <<>> \in Seq(TrailEvents)
  BY EmptySeq
<1>2. NoState \in ChainState
  BY <1>1 DEF NoState, ChainState
<1>3. TrailInv
  BY <1>1, <1>2, AuditAssumption DEF TrailInit, TrailInv, NoState, AuditAssumption
<1>4. ReadInv
  BY <1>2 DEF TrailInit, ReadInv
<1>. QED
  BY <1>3, <1>4

\* A transaction that commits adds one record at the end, chained to the last one and
\* signed with the key of the chain.
LEMMA CommitExtends ==
  ASSUME TrailInv, ReadInv, NEW e \in TrailEvents,
         NEW outcome \in {"committed", "raised"}, Commit(e, outcome)
  PROVE  /\ read[e] = state
         /\ Signed(e) \in Entry
         /\ record' = Append(record, Signed(e))
         /\ state' = NextState(e)
<1>1. read[e] = state
  BY DEF Commit, UnchangedSince, ReadInv
<1>2. Signed(e) \in Entry
  BY <1>1, AuditAssumption DEF Signed, Entry, TrailInv, ChainState, AuditAssumption
<1>3. read[e].sequence + 1 = Len(record) + 1
  BY <1>1 DEF TrailInv
<1>4. /\ record' = [k \in DOMAIN record \cup {Len(record) + 1} |->
                      IF k = Len(record) + 1 THEN Signed(e) ELSE record[k]]
      /\ state' = NextState(e)
  BY <1>3 DEF Commit, Write
<1>5. record \in Seq(Entry) /\ Len(record) \in Nat /\ DOMAIN record = 1..Len(record)
  BY DEF TrailInv
<1>6. Append(record, Signed(e)) =
        [k \in 1..(Len(record) + 1) |-> IF k = Len(record) + 1 THEN Signed(e) ELSE record[k]]
  BY <1>2, <1>5, AppendIsFunction
<1>7. (1..Len(record)) \cup {Len(record) + 1} = 1..(Len(record) + 1)
  BY <1>5
<1>. QED
  BY <1>1, <1>2, <1>4, <1>5, <1>6, <1>7

LEMMA CommitKeeps ==
  ASSUME TrailInv, ReadInv, NEW e \in TrailEvents,
         NEW outcome \in {"committed", "raised"}, Commit(e, outcome)
  PROVE  TrailInv' /\ ReadInv'
<1>. DEFINE n == Len(record)
<1>1. /\ read[e] = state /\ Signed(e) \in Entry
      /\ record' = Append(record, Signed(e)) /\ state' = NextState(e)
  BY CommitExtends
<1>2. /\ n \in Nat /\ record \in Seq(Entry) /\ record' \in Seq(Entry) /\ Len(record') = n + 1
      /\ record'[n + 1] = Signed(e) /\ \A i \in 1..n : record'[i] = record[i]
  BY <1>1, AppendProperties DEF TrailInv
<1>3. /\ Signed(e).event = e /\ Signed(e).previous = state.signature /\ Signed(e).key = Signer[e]
      /\ state'.version = n + 1 /\ state'.sequence = n + 1
      /\ state'.signature = ChainSignature(Signed(e)) /\ state'.signer_id = Signer[e]
  BY <1>1 DEF Signed, NextState, TrailInv
<1>4. /\ n + 1 <= MaxEvents
      /\ state.signer_id \in {NoSigner, Signer[e]}
      /\ Signer[e] \in Signers /\ Signer[e] # NoSigner
  BY <1>1, AuditAssumption DEF Commit, Accepted, TrailInv, AuditAssumption
<1>5. state' \in ChainState
  <2>1. ChainSignature(Signed(e)) \in Seq(TrailEvents)
    BY <1>1 DEF ChainSignature, Entry
  <2>. QED
    BY <1>1, <1>2, <1>4, <2>1 DEF NextState, ChainState, TrailInv
<1>6. ASSUME NEW i \in 1..(n + 1)
      PROVE  /\ record'[i].key = Signer[e]
             /\ record'[i].previous = IF i = 1 THEN <<>> ELSE ChainSignature(record'[i - 1])
  <2>1. CASE i = n + 1
    <3>1. i # 1 => record'[i - 1] = record[n]
      BY <1>2, <2>1
    <3>. QED
      BY <1>2, <1>3, <2>1, <3>1 DEF TrailInv
  <2>2. CASE i # n + 1
    <3>1. i \in 1..n /\ (i # 1 => i - 1 \in 1..n) /\ n # 0
      BY <1>2, <2>2
    <3>. QED
      BY <1>2, <1>4, <3>1 DEF TrailInv
  <2>. QED
    BY <2>1, <2>2
<1>7. TrailInv'
  BY <1>2, <1>3, <1>4, <1>5, <1>6 DEF TrailInv
<1>8. ReadInv'
  <2>1. UNCHANGED read /\ stage' = [stage EXCEPT ![e] = outcome] /\ state.version = n
    BY DEF Commit, TrailInv
  <2>2. ASSUME NEW f \in TrailEvents, stage'[f] = "signing"
        PROVE  read'[f].version <= state'.version /\ read'[f].version # state'.version
    <3>1. stage[f] = "signing"
      BY <2>1, <2>2 DEF ReadInv
    <3>2. read[f].version <= n /\ read[f].version \in Nat
      BY <2>1, <3>1 DEF ReadInv, ChainState
    <3>. QED
      BY <1>2, <1>3, <2>1, <3>2
  <2>. QED
    BY <2>1, <2>2 DEF ReadInv
<1>. QED
  BY <1>7, <1>8

LEMMA TrailStep == TrailInv /\ ReadInv /\ [TrailNext]_auditVars => TrailInv' /\ ReadInv'
<1>. SUFFICES ASSUME TrailInv, ReadInv, [TrailNext]_auditVars
              PROVE  TrailInv' /\ ReadInv'
  OBVIOUS
<1>1. ASSUME NEW e \in TrailEvents, ReadState(e)
      PROVE  TrailInv' /\ ReadInv'
  <2>1. /\ UNCHANGED <<record, state>>
        /\ read' = [read EXCEPT ![e] = state] /\ stage' = [stage EXCEPT ![e] = "signing"]
    BY <1>1 DEF ReadState
  <2>2. TrailInv'
    BY <2>1 DEF TrailInv
  <2>3. ReadInv'
    BY <2>1 DEF TrailInv, ReadInv, ChainState
  <2>. QED
    BY <2>2, <2>3
<1>2. ASSUME NEW e \in TrailEvents, RefuseTenant(e) \/ Acknowledge(e) \/ Abandon(e)
      PROVE  TrailInv' /\ ReadInv'
  <2>1. /\ UNCHANGED <<record, state, read>>
        /\ \E s \in {"returned", "raised"} : stage' = [stage EXCEPT ![e] = s]
    BY <1>2 DEF RefuseTenant, Acknowledge, Abandon
  <2>2. TrailInv'
    BY <2>1 DEF TrailInv
  <2>3. ReadInv'
    BY <2>1 DEF ReadInv
  <2>. QED
    BY <2>2, <2>3
<1>3. CASE UNCHANGED auditVars
  BY <1>3 DEF auditVars, TrailInv, ReadInv
<1>. QED
  BY <1>1, <1>2, <1>3, CommitKeeps DEF TrailNext

LEMMA TrailHolds == TrailSpec => [](TrailInv /\ ReadInv)
BY TrailStarts, TrailStep, PTL DEF TrailSpec

\* At every instant the holder of the key of the chain can verify what is stored,
\* whatever instances append at the same time, conflict, are cancelled or crash
\* (TrailVerifies).
THEOREM TrailCorrect == TrailSpec => []TrailVerifies
<1>1. TrailInv /\ ReadInv => TrailTypes
  BY DEF TrailInv, ReadInv, TrailTypes, Entry, ChainState
<1>2. TrailInv => AlwaysVerifies
  <2>. SUFFICES ASSUME TrailInv, NEW key \in Signers, state.signer_id \in {NoSigner, key}
                PROVE  VerifyPersisted(key)
    BY DEF AlwaysVerifies
  <2>1. /\ record \in Seq(Entry) /\ Len(record) \in Nat /\ DOMAIN record = 1..Len(record)
        /\ record = <<>> <=> Len(record) = 0
    BY EmptySeq DEF TrailInv
  <2>2. Len(record) # 0 => state.signer_id = key
    BY DEF TrailInv
  <2>3. VerifyChain(key)
    BY <2>1, <2>2 DEF VerifyChain, TrailInv
  <2>4. state.signature = IF record = <<>> THEN <<>> ELSE ChainSignature(Last(record))
    BY <2>1 DEF TrailInv, Last
  <2>. QED
    BY <2>3, <2>4 DEF VerifyPersisted, TrailInv
<1>. QED
  BY <1>1, <1>2, TrailHolds, PTL DEF TrailVerifies

-----------------------------------------------------------------------------
\* An event is recorded by the commit of its append, and by nothing else.
TrailRecorded(e) == \E n \in DOMAIN record : record[n].event = e

RecordedInv ==
    \A e \in TrailEvents :
        /\ stage[e] \in {"idle", "signing"} => ~TrailRecorded(e)
        /\ stage[e] \in {"committed", "returned"} => TrailRecorded(e)

TrailChain == EventsOf(record)

TrailAcknowledged == {e \in TrailEvents : stage[e] = "returned"}

LEMMA TrailChained ==
  TrailInv => \A e : e \in TenantChain!ToSet(TrailChain) <=> TrailRecorded(e)
BY DEF TenantChain!ToSet, TrailChain, EventsOf, TrailRecorded

LEMMA TrailExtends ==
  ASSUME TrailInv, ReadInv, RecordedInv, NEW e \in TrailEvents,
         NEW outcome \in {"committed", "raised"}, Commit(e, outcome)
  PROVE  RecordedInv' /\ TenantChain!Extend(e)
<1>. DEFINE n == Len(record)
<1>1. /\ Signed(e) \in Entry /\ Signed(e).event = e /\ record' = Append(record, Signed(e))
  BY CommitExtends DEF Signed
<1>2. /\ n \in Nat /\ DOMAIN record = 1..n /\ DOMAIN record' = 1..(n + 1)
      /\ record'[n + 1] = Signed(e) /\ \A i \in 1..n : record'[i] = record[i]
  BY <1>1, AppendProperties DEF TrailInv
<1>3. stage[e] = "signing" /\ stage' = [stage EXCEPT ![e] = outcome]
  BY DEF Commit
<1>4. (1..n) \cup {n + 1} = 1..(n + 1)
  BY <1>2
<1>. HIDE DEF n
<1>5. \A f : TrailRecorded(f)' <=> TrailRecorded(f) \/ f = e
  BY <1>1, <1>2, <1>4 DEF TrailRecorded
<1>6. RecordedInv'
  BY <1>3, <1>5 DEF RecordedInv, ReadInv
<1>7. e \notin TenantChain!ToSet(TrailChain)
  BY <1>3, TrailChained DEF RecordedInv
<1>8. TrailChain' = Append(TrailChain, e)
  <2>1. \A x \in Entry : x.event \in TrailEvents
    BY DEF Entry
  <2>2. EventsOf(Append(record, Signed(e))) = Append(EventsOf(record), Signed(e).event)
    <3>1. record \in Seq(Entry)
      BY DEF TrailInv
    <3>. QED
      BY <1>1, <2>1, <3>1, EventsAppend
  <2>3. EventsOf(record)' = EventsOf(record')
    BY DEF EventsOf
  <2>. QED
    BY <1>1, <2>2, <2>3 DEF TrailChain
<1>9. TrailAcknowledged' = TrailAcknowledged
  BY <1>3 DEF TrailAcknowledged, ReadInv
<1>. QED
  BY <1>6, <1>7, <1>8, <1>9 DEF TenantChain!Extend, TrailChain, EventsOf, TrailAcknowledged

LEMMA TrailChainStep ==
  TrailInv /\ ReadInv /\ RecordedInv /\ [TrailNext]_auditVars
    => RecordedInv' /\ [TenantChain!ChainNext]_<<TrailChain, TrailAcknowledged>>
<1>. SUFFICES ASSUME TrailInv, ReadInv, RecordedInv, [TrailNext]_auditVars
              PROVE  /\ RecordedInv'
                     /\ TenantChain!ChainNext \/ UNCHANGED <<TrailChain, TrailAcknowledged>>
  OBVIOUS
<1>1. ASSUME UNCHANGED record, RecordedInv'
      PROVE  UNCHANGED TrailChain
  BY <1>1 DEF TrailChain, EventsOf
<1>2. ASSUME NEW e \in TrailEvents, ReadState(e) \/ RefuseTenant(e) \/ Abandon(e)
      PROVE  RecordedInv' /\ UNCHANGED <<TrailChain, TrailAcknowledged>>
  <2>1. /\ UNCHANGED record /\ stage[e] \in {"idle", "signing"}
        /\ \E s \in {"signing", "raised"} :
              stage' = [stage EXCEPT ![e] = s] /\ (s = "signing" => stage[e] = "idle")
    BY <1>2 DEF ReadState, RefuseTenant, Abandon
  <2>2. RecordedInv'
    BY <2>1 DEF RecordedInv, TrailRecorded, ReadInv
  <2>3. TrailAcknowledged' = TrailAcknowledged
    BY <2>1 DEF TrailAcknowledged, ReadInv
  <2>. QED
    BY <1>1, <2>1, <2>2, <2>3
<1>3. ASSUME NEW e \in TrailEvents, Acknowledge(e)
      PROVE  RecordedInv' /\ TenantChain!Acknowledge(e)
  <2>1. /\ UNCHANGED record /\ stage[e] = "committed"
        /\ stage' = [stage EXCEPT ![e] = "returned"]
    BY <1>3 DEF Acknowledge
  <2>2. RecordedInv'
    BY <2>1 DEF RecordedInv, TrailRecorded, ReadInv
  <2>3. e \in TenantChain!ToSet(TrailChain) \ TrailAcknowledged
    BY <2>1, TrailChained DEF RecordedInv, TrailAcknowledged
  <2>4. TrailAcknowledged' = TrailAcknowledged \cup {e}
    BY <2>1 DEF TrailAcknowledged, ReadInv
  <2>5. TrailChain' = TrailChain
    BY <2>1 DEF TrailChain, EventsOf
  <2>. QED
    BY <2>2, <2>3, <2>4, <2>5 DEF TenantChain!Acknowledge, TrailChain, EventsOf, TrailAcknowledged
<1>4. CASE UNCHANGED auditVars
  BY <1>4 DEF auditVars, RecordedInv, TrailRecorded, TrailChain, EventsOf, TrailAcknowledged
<1>. QED
  BY <1>2, <1>3, <1>4, TrailExtends DEF TrailNext, TenantChain!ChainNext

\* Every step of the instances of a trail is one of the audit chain of their tenant, or
\* none that it knows of: events are only added, each once and at the end, and those
\* acknowledged are in it (ImplementsTenantChain).
THEOREM TrailImplementsChain == TrailSpec => ImplementsTenantChain
<1>1. TrailInit => RecordedInv /\ TenantChain!ChainInit
  BY EmptySeq DEF TrailInit, RecordedInv, TrailRecorded, TenantChain!ChainInit
<1>2. TrailInv /\ ReadInv /\ RecordedInv /\ [TrailNext]_auditVars
        => RecordedInv' /\ [TenantChain!ChainNext]_(TenantChain!chainVars)
  BY TrailChainStep DEF TenantChain!chainVars, TrailChain, EventsOf, TrailAcknowledged
<1>. QED
  BY <1>1, <1>2, TrailHolds, PTL DEF TrailSpec, ImplementsTenantChain, TenantChain!ChainSpec
-----------------------------------------------------------------------------
(* The trail in a file.  Lines is a recursive function: what it does with one *)
(* piece more is proved from a smallest counterexample.                    *)

\* g gives the complete texts of the first k pieces of f, for each k up to n.
LinesTo(g, f, n) ==
    g = [k \in 0..n |->
            IF k = 0 THEN <<>>
            ELSE IF f[k].part = "rest" THEN Append(g[k - 1], f[k]) ELSE g[k - 1]]

LEMMA LinesUnfold == ASSUME NEW f PROVE Lines(f) = (CHOOSE g : LinesTo(g, f, Len(f)))[Len(f)]
BY Zenon DEF Lines, LinesTo

\* Every length has such a g: a smallest one without would get it from the one before.
LEMMA LinesExist ==
  ASSUME NEW f, NEW n \in Nat
  PROVE  \E g : LinesTo(g, f, n)
<1>. DEFINE Without == {m \in Nat : ~\E g : LinesTo(g, f, m)}
<1>1. SUFFICES ASSUME Without # {} PROVE FALSE
  OBVIOUS
<1>2. PICK m \in Without : \A k \in Without : <<k, m>> \notin OpToRel(<, Nat)
  BY <1>1, NatLessThanWellFounded, WFMin, Zenon
<1>3. CASE m = 0
  <2>. DEFINE g == [k \in 0..m |-> <<>>]
  <2>1. LinesTo(g, f, m)
    BY <1>3 DEF LinesTo
  <2>. QED
    BY <2>1
<1>4. CASE m # 0
  <2>1. m \in Nat /\ m - 1 \in Nat
    BY <1>4
  <2>2. <<m - 1, m>> \in OpToRel(<, Nat)
    BY <2>1 DEF OpToRel
  <2>3. PICK h : LinesTo(h, f, m - 1)
    BY <1>2, <2>1, <2>2
  <2>. DEFINE g == [k \in 0..m |->
                      IF k # m THEN h[k]
                      ELSE IF f[m].part = "rest" THEN Append(h[m - 1], f[m]) ELSE h[m - 1]]
  <2>4. ASSUME NEW k \in 0..m, k # m
        PROVE  k \in 0..(m - 1) /\ g[k] = h[k]
               /\ (k # 0 => k - 1 \in 0..(m - 1) /\ g[k - 1] = h[k - 1])
    BY <2>1, <2>4
  <2>5. m \in 0..m /\ m - 1 \in 0..m /\ m - 1 # m /\ g[m - 1] = h[m - 1]
    BY <2>1
  <2>6. g[m] = IF f[m].part = "rest" THEN Append(h[m - 1], f[m]) ELSE h[m - 1]
    BY <2>5
  <2>7. g = [k \in 0..m |-> g[k]]
    OBVIOUS
  <2>. HIDE DEF g
  <2>8. ASSUME NEW k \in 0..m
        PROVE  g[k] = IF k = 0 THEN <<>>
                      ELSE IF f[k].part = "rest" THEN Append(g[k - 1], f[k]) ELSE g[k - 1]
    <3>1. CASE k = m
      BY <1>4, <2>5, <2>6, <3>1
    <3>2. CASE k # m
      <4>1. k \in 0..(m - 1) /\ g[k] = h[k] /\ (k # 0 => g[k - 1] = h[k - 1])
        BY <2>4, <3>2
      <4>2. h[k] = IF k = 0 THEN <<>>
                   ELSE IF f[k].part = "rest" THEN Append(h[k - 1], f[k]) ELSE h[k - 1]
        BY <2>3, <4>1 DEF LinesTo
      <4>. QED
        BY <4>1, <4>2
    <3>. QED
      BY <3>1, <3>2
  <2>9. LinesTo(g, f, m)
    BY <2>7, <2>8 DEF LinesTo
  <2>. QED
    BY <1>2, <2>9
<1>. QED
  BY <1>3, <1>4

\* Two such functions agree as long as the pieces do.
LEMMA LinesAgree ==
  ASSUME NEW f, NEW e, NEW n \in Nat, NEW m \in Nat, NEW p \in Nat, p <= n, p <= m,
         NEW g, NEW h, LinesTo(g, f, n), LinesTo(h, e, m), \A k \in 1..p : f[k] = e[k]
  PROVE  g[p] = h[p]
<1>. DEFINE Apart == {k \in Nat : k <= p /\ g[k] # h[k]}
<1>1. SUFFICES ASSUME Apart # {} PROVE FALSE
  OBVIOUS
<1>2. PICK k \in Apart : \A j \in Apart : <<j, k>> \notin OpToRel(<, Nat)
  BY <1>1, NatLessThanWellFounded, WFMin, Zenon
<1>3. k \in Nat /\ k \in 0..n /\ k \in 0..m /\ k <= p
  OBVIOUS
<1>4. k # 0
  BY <1>2, <1>3 DEF LinesTo
<1>5. k - 1 \in Nat /\ k \in 1..p
  BY <1>3, <1>4
<1>6. <<k - 1, k>> \in OpToRel(<, Nat)
  BY <1>3, <1>5 DEF OpToRel
<1>7. k - 1 \notin Apart
  BY <1>2, <1>6
<1>8. g[k - 1] = h[k - 1]
  BY <1>3, <1>5, <1>7
<1>9. f[k] = e[k]
  BY <1>5
<1>10. /\ g[k] = IF f[k].part = "rest" THEN Append(g[k - 1], f[k]) ELSE g[k - 1]
       /\ h[k] = IF e[k].part = "rest" THEN Append(h[k - 1], e[k]) ELSE h[k - 1]
  BY <1>3, <1>4 DEF LinesTo
<1>. QED
  BY <1>2, <1>8, <1>9, <1>10

\* The lines of an empty file.
LEMMA LinesOfNone == Lines(<<>>) = <<>>
<1>. DEFINE f == <<>>
            g == CHOOSE i : LinesTo(i, f, Len(f))
<1>1. Len(f) = 0
  OBVIOUS
<1>2. LinesTo(g, f, 0)
  BY <1>1, LinesExist
<1>3. Lines(f) = g[0]
  BY <1>1, LinesUnfold
<1>. HIDE DEF g
<1>. QED
  BY <1>2, <1>3 DEF LinesTo

\* One piece more: only the rest of a text completes one.
LEMMA LinesOfOneMore ==
  ASSUME NEW A, NEW f \in Seq(A), NEW x \in A
  PROVE  Lines(Append(f, x)) = IF x.part = "rest" THEN Append(Lines(f), x) ELSE Lines(f)
<1>. DEFINE a == Append(f, x)
            n == Len(f)
            g == CHOOSE i : LinesTo(i, f, n)
            h == CHOOSE i : LinesTo(i, a, n + 1)
<1>1. n \in Nat /\ n + 1 \in Nat /\ Len(a) = n + 1 /\ a[n + 1] = x /\ \A k \in 1..n : a[k] = f[k]
  BY AppendProperties
<1>2. LinesTo(g, f, n)
  BY <1>1, LinesExist
<1>3. LinesTo(h, a, n + 1)
  <2>1. \E i : LinesTo(i, a, n + 1)
    BY <1>1, LinesExist
  <2>. QED
    BY <2>1
<1>4. Lines(f) = g[n] /\ Lines(a) = h[n + 1]
  BY <1>1, LinesUnfold
<1>. HIDE DEF a, n, g, h
<1>5. h[n] = g[n]
  <2>1. n <= n /\ n <= n + 1
    BY <1>1
  <2>. QED
    BY <1>1, <1>2, <1>3, <2>1, LinesAgree
<1>6. h[n + 1] = IF x.part = "rest" THEN Append(h[n], x) ELSE h[n]
  <2>1. n + 1 \in 0..(n + 1) /\ n + 1 # 0 /\ (n + 1) - 1 = n
    BY <1>1
  <2>. QED
    BY <1>1, <1>3, <2>1 DEF LinesTo
<1>. QED
  BY <1>4, <1>5, <1>6 DEF a

\* The pieces of a file.
Pieces == [event : Events, previous : Seq(Events), part : Parts]

\* The first elements of a sequence are those of the sequence with one more.
LEMMA SubSeqOfAppend ==
  ASSUME NEW S, NEW q \in Seq(S), NEW x \in S, NEW m \in 0..Len(q)
  PROVE  SubSeq(Append(q, x), 1, m) = SubSeq(q, 1, m)
<1>. DEFINE a == Append(q, x)
            s == SubSeq(a, 1, m)
            t == SubSeq(q, 1, m)
<1>1. a \in Seq(S) /\ Len(a) = Len(q) + 1 /\ \A i \in 1..Len(q) : a[i] = q[i] /\ q[i] \in S
  BY AppendProperties
<1>2. /\ m \in Int /\ 1 \in Int /\ m \in Nat /\ (m - 1) + 1 = m
      /\ \A i \in 1..m : i \in 1..Len(q) /\ (1 + i) - 1 = i
  OBVIOUS
<1>3. \A i \in 1..m : a[i] \in S /\ q[i] \in S
  BY <1>1, <1>2
<1>. HIDE DEF a
<1>4. /\ s \in Seq(S) /\ Len(s) = (IF 1 <= m THEN m - 1 + 1 ELSE 0)
      /\ \A i \in 1..(m - 1 + 1) : s[i] = a[1 + i - 1]
  BY <1>2, <1>3, SubSeqProperties
<1>5. /\ t \in Seq(S) /\ Len(t) = (IF 1 <= m THEN m - 1 + 1 ELSE 0)
      /\ \A i \in 1..(m - 1 + 1) : t[i] = q[1 + i - 1]
  BY <1>2, <1>3, SubSeqProperties
<1>6. Len(s) = m /\ Len(t) = m /\ \A i \in 1..m : s[i] = t[i]
  BY <1>1, <1>2, <1>4, <1>5
<1>. HIDE DEF s, t
<1>7. s = t
  BY <1>4, <1>5, <1>6, SeqEqual
<1>. QED
  BY <1>7 DEF s, t, a

\* What is in a sequence.
Has(q, x) == \E k \in 1..Len(q) : q[k] = x

LEMMA HasAppend ==
  ASSUME NEW S, NEW q \in Seq(S), NEW x \in S, NEW y
  PROVE  Has(Append(q, x), y) <=> Has(q, y) \/ y = x
<1>1. /\ Len(q) \in Nat /\ Len(Append(q, x)) = Len(q) + 1
      /\ \A i \in 1..Len(q) : Append(q, x)[i] = q[i]
      /\ Append(q, x)[Len(q) + 1] = x
  BY AppendProperties
<1>2. 1..(Len(q) + 1) = (1..Len(q)) \cup {Len(q) + 1}
  BY <1>1
<1>. QED
  BY <1>1, <1>2 DEF Has

\* What the lines of a file are: its pieces that complete a text, and the lines of its
\* first pieces come first.
LinesLaws(f) ==
    /\ Lines(f) \in Seq(Pieces)
    /\ \A x : Has(Lines(f), x) <=> Has(f, x) /\ x.part = "rest"
    /\ \A k \in 0..Len(f) : \E m \in 0..Len(Lines(f)) :
          Lines(SubSeq(f, 1, k)) = SubSeq(Lines(f), 1, m)

LEMMA LinesLawsOfOneMore ==
  ASSUME NEW f \in Seq(Pieces), NEW x \in Pieces, LinesLaws(f)
  PROVE  LinesLaws(Append(f, x))
<1>. DEFINE a == Append(f, x)
            lines == Lines(f)
<1>1. Lines(a) = IF x.part = "rest" THEN Append(lines, x) ELSE lines
  BY LinesOfOneMore
<1>2. lines \in Seq(Pieces) /\ Len(lines) \in Nat
  BY DEF LinesLaws
<1>3. a \in Seq(Pieces) /\ Len(a) = Len(f) + 1 /\ Len(f) \in Nat
  BY AppendProperties
<1>4. Lines(a) \in Seq(Pieces)
  BY <1>1, <1>2, AppendProperties
<1>5. \A y : Has(Lines(a), y) <=> Has(a, y) /\ y.part = "rest"
  <2>1. \A y : Has(a, y) <=> Has(f, y) \/ y = x
    BY HasAppend
  <2>2. \A y : Has(Append(lines, x), y) <=> Has(lines, y) \/ y = x
    BY <1>2, HasAppend
  <2>. QED
    BY <1>1, <2>1, <2>2 DEF LinesLaws
<1>6. ASSUME NEW k \in 0..Len(a)
      PROVE  \E m \in 0..Len(Lines(a)) : Lines(SubSeq(a, 1, k)) = SubSeq(Lines(a), 1, m)
  <2>1. CASE k = Len(a)
    <3>1. SubSeq(a, 1, k) = a /\ SubSeq(Lines(a), 1, Len(Lines(a))) = Lines(a)
      BY <1>3, <1>4, <2>1, SubSeqFull
    <3>2. Len(Lines(a)) \in 0..Len(Lines(a))
      BY <1>4
    <3>. QED
      BY <3>1, <3>2
  <2>2. CASE k # Len(a)
    <3>1. k \in 0..Len(f)
      BY <1>3, <2>2
    <3>2. SubSeq(a, 1, k) = SubSeq(f, 1, k)
      BY <3>1, SubSeqOfAppend
    <3>3. PICK m \in 0..Len(lines) : Lines(SubSeq(f, 1, k)) = SubSeq(lines, 1, m)
      BY <3>1 DEF LinesLaws
    <3>4. SubSeq(Append(lines, x), 1, m) = SubSeq(lines, 1, m)
      BY <1>2, SubSeqOfAppend
    <3>5. m \in 0..Len(Lines(a)) /\ SubSeq(Lines(a), 1, m) = SubSeq(lines, 1, m)
      <4>1. Len(Append(lines, x)) = Len(lines) + 1
        BY <1>2, AppendProperties
      <4>. QED
        BY <1>1, <1>2, <3>4, <4>1
    <3>. QED
      BY <3>2, <3>3, <3>5
  <2>. QED
    BY <2>1, <2>2
<1>. QED
  BY <1>4, <1>5, <1>6 DEF LinesLaws

LEMMA LinesLawsOfNone == LinesLaws(<<>>)
<1>1. Len(<<>>) = 0 /\ <<>> \in Seq(Pieces) /\ Lines(<<>>) = <<>>
  BY EmptySeq, LinesOfNone
<1>2. \A x : ~Has(<<>>, x)
  BY <1>1 DEF Has
<1>3. SubSeq(<<>>, 1, 0) = <<>>
  BY SubSeqEmpty
<1>4. \A k \in 0..0 : k = 0
  OBVIOUS
<1>5. \A k \in 0..Len(<<>>) : \E m \in 0..Len(Lines(<<>>)) :
          Lines(SubSeq(<<>>, 1, k)) = SubSeq(Lines(<<>>), 1, m)
  <2>1. 0 \in 0..0
    OBVIOUS
  <2>. QED
    BY <1>1, <1>3, <1>4, <2>1
<1>. QED
  BY <1>1, <1>2, <1>5 DEF LinesLaws

LEMMA LinesLawsHold == ASSUME NEW f \in Seq(Pieces) PROVE LinesLaws(f)
<1>. DEFINE Against == {n \in Nat : \E q \in Seq(Pieces) : Len(q) = n /\ ~LinesLaws(q)}
<1>1. SUFFICES ASSUME Against # {} PROVE FALSE
  <2>1. Len(f) \in Nat
    OBVIOUS
  <2>. QED
    BY <2>1
<1>2. PICK n \in Against : \A k \in Against : <<k, n>> \notin OpToRel(<, Nat)
  BY <1>1, NatLessThanWellFounded, WFMin, Zenon
<1>3. PICK q \in Seq(Pieces) : Len(q) = n /\ ~LinesLaws(q)
  OBVIOUS
<1>4. q # <<>>
  BY <1>3, LinesLawsOfNone
<1>5. PICK p \in Seq(Pieces), x \in Pieces : q = Append(p, x)
  BY <1>4, SequenceEmptyOrAppend
<1>6. Len(p) \in Nat /\ n \in Nat /\ n = Len(p) + 1
  BY <1>3, <1>5, AppendProperties
<1>7. <<Len(p), n>> \in OpToRel(<, Nat)
  BY <1>6 DEF OpToRel
<1>8. LinesLaws(p)
  BY <1>2, <1>6, <1>7
<1>. QED
  BY <1>3, <1>5, <1>8, LinesLawsOfOneMore
-----------------------------------------------------------------------------
\* The signature that the next line continues.
LEMMA LastSignatureType ==
  ASSUME NEW f \in Seq(Pieces)
  PROVE  LastSignature(f) \in Seq(Events)
<1>. DEFINE lines == Lines(f)
<1>1. lines \in Seq(Pieces) /\ Len(lines) \in Nat
  BY LinesLawsHold DEF LinesLaws
<1>2. CASE lines = <<>>
  <2>1. LastSignature(f) = <<>>
    BY <1>2 DEF LastSignature
  <2>. QED
    BY <2>1, EmptySeq
<1>3. CASE lines # <<>>
  <2>1. Last(lines) \in Pieces
    BY <1>1, <1>3, EmptySeq DEF Last
  <2>2. LastSignature(f) = Append(Last(lines).previous, Last(lines).event)
    BY <1>3 DEF LastSignature, Signature
  <2>3. Last(lines).previous \in Seq(Events) /\ Last(lines).event \in Events
    BY <2>1 DEF Pieces
  <2>. QED
    BY <2>2, <2>3, AppendProperties
<1>. QED
  BY <1>2, <1>3

Stages == {"idle", "waiting", "writing"} \cup Ended

\* The append that holds the lock is the one that is writing.
FileTypes ==
    /\ file \in Seq(Pieces)
    /\ durable \in 0..Len(file)
    /\ previous \in Seq(Events)
    /\ holder \in Events \cup {None}
    /\ pc \in [Events -> Stages]
    /\ signed \in [Events -> Seq(Events)]
    /\ thread \in [Events -> ThreadStates]
    /\ \A e \in Events : pc[e] = "writing" <=> holder = e

LEMMA FileTypesStart == Init => FileTypes
<1>. SUFFICES ASSUME Init PROVE FileTypes
  OBVIOUS
<1>1. <<>> \in Seq(Pieces) /\ Len(<<>>) = 0 /\ <<>> \in Seq(Events) /\ 0 \in 0..0
  BY EmptySeq
<1>. QED
  BY <1>1, FileAssumption DEF Init, FileTypes, Stages, ThreadStates, FileAssumption

\* Three pieces more are one more, three times.
LEMMA ThreeMore ==
  ASSUME NEW S, NEW q \in Seq(S), NEW x \in S, NEW y \in S, NEW z \in S
  PROVE  q \o <<x, y, z>> = Append(Append(Append(q, x), y), z)
<1>. DEFINE t == <<x, y, z>>
            n == Len(q)
            a == Append(q, x)
            b == Append(a, y)
            c == Append(b, z)
<1>1. /\ t \in Seq(S) /\ Len(t) = 3 /\ t[1] = x /\ t[2] = y /\ t[3] = z /\ n \in Nat
  OBVIOUS
<1>2. /\ q \o t \in Seq(S) /\ Len(q \o t) = n + 3
      /\ \A i \in 1..(n + 3) : (q \o t)[i] = IF i <= n THEN q[i] ELSE t[i - n]
  BY <1>1, ConcatProperties
<1>3. a \in Seq(S) /\ Len(a) = n + 1 /\ a[n + 1] = x /\ \A i \in 1..n : a[i] = q[i]
  BY AppendProperties
<1>4. b \in Seq(S) /\ Len(b) = n + 2 /\ b[n + 2] = y /\ \A i \in 1..(n + 1) : b[i] = a[i]
  <2>1. /\ b \in Seq(S) /\ Len(b) = Len(a) + 1 /\ b[Len(a) + 1] = y
        /\ \A i \in 1..Len(a) : b[i] = a[i]
    BY <1>3, AppendProperties
  <2>2. (n + 1) + 1 = n + 2
    BY <1>1
  <2>. QED
    BY <1>3, <2>1, <2>2
<1>5. c \in Seq(S) /\ Len(c) = n + 3 /\ c[n + 3] = z /\ \A i \in 1..(n + 2) : c[i] = b[i]
  <2>1. /\ c \in Seq(S) /\ Len(c) = Len(b) + 1 /\ c[Len(b) + 1] = z
        /\ \A i \in 1..Len(b) : c[i] = b[i]
    BY <1>4, AppendProperties
  <2>2. (n + 2) + 1 = n + 3
    BY <1>1
  <2>. QED
    BY <1>4, <2>1, <2>2
<1>. HIDE DEF n, t, a, b, c
<1>6. ASSUME NEW i \in 1..(n + 3) PROVE c[i] = (q \o t)[i]
  <2>1. CASE i <= n
    <3>1. i \in 1..n /\ i \in 1..(n + 1) /\ i \in 1..(n + 2)
      BY <1>1, <2>1
    <3>. QED
      BY <1>2, <1>3, <1>4, <1>5, <2>1, <3>1
  <2>2. CASE i = n + 1
    <3>1. i - n = 1 /\ ~(i <= n) /\ i \in 1..(n + 1) /\ i \in 1..(n + 2)
      BY <1>1, <2>2
    <3>. QED
      BY <1>1, <1>2, <1>3, <1>4, <1>5, <2>2, <3>1
  <2>3. CASE i = n + 2
    <3>1. i - n = 2 /\ ~(i <= n) /\ i \in 1..(n + 2)
      BY <1>1, <2>3
    <3>. QED
      BY <1>1, <1>2, <1>4, <1>5, <2>3, <3>1
  <2>4. CASE i = n + 3
    <3>1. i - n = 3 /\ ~(i <= n)
      BY <1>1, <2>4
    <3>. QED
      BY <1>1, <1>2, <1>5, <2>4, <3>1
  <2>5. i <= n \/ i = n + 1 \/ i = n + 2 \/ i = n + 3
    BY <1>1
  <2>. QED
    BY <2>1, <2>2, <2>3, <2>4, <2>5
<1>7. c = q \o t
  BY <1>2, <1>5, <1>6, SeqEqual
<1>. QED
  BY <1>7 DEF c, b, a, t

\* The file g is f with pieces of e more, of the parts Q.
Grows(f, g, e, Q) ==
    /\ f \in Seq(Pieces) /\ g \in Seq(Pieces)
    /\ Len(f) \in Nat /\ Len(g) \in Nat /\ Len(f) < Len(g)
    /\ \A k \in 1..Len(f) : g[k] = f[k]
    /\ \A k \in 1..Len(g) : k \notin 1..Len(f) => g[k].event = e /\ g[k].part \in Q
    /\ \A p \in Q : \E k \in 1..Len(g) : g[k].event = e /\ g[k].part = p

LEMMA GrowsByOne ==
  ASSUME NEW f \in Seq(Pieces), NEW x \in Pieces
  PROVE  Grows(f, Append(f, x), x.event, {x.part})
<1>. DEFINE g == Append(f, x)
<1>1. /\ g \in Seq(Pieces) /\ Len(f) \in Nat /\ Len(g) = Len(f) + 1
      /\ g[Len(f) + 1] = x /\ \A k \in 1..Len(f) : g[k] = f[k]
  BY AppendProperties
<1>. HIDE DEF g
<1>2. \A k \in 1..Len(g) : k \notin 1..Len(f) => g[k] = x
  BY <1>1
<1>3. Len(f) + 1 \in 1..Len(g)
  BY <1>1
<1>. QED
  BY <1>1, <1>2, <1>3 DEF Grows, g

LEMMA GrowsAgain ==
  ASSUME NEW f, NEW g, NEW h, NEW e, NEW P, NEW Q, Grows(f, g, e, P), Grows(g, h, e, Q)
  PROVE  Grows(f, h, e, P \cup Q)
<1>1. /\ f \in Seq(Pieces) /\ h \in Seq(Pieces)
      /\ Len(f) \in Nat /\ Len(g) \in Nat /\ Len(h) \in Nat
      /\ Len(f) < Len(g) /\ Len(g) < Len(h)
      /\ \A k \in 1..Len(f) : g[k] = f[k] /\ k \in 1..Len(g)
      /\ \A k \in 1..Len(g) : h[k] = g[k] /\ k \in 1..Len(h)
  BY DEF Grows
<1>2. /\ Len(f) < Len(h) /\ \A k \in 1..Len(f) : h[k] = f[k]
  BY <1>1
<1>3. ASSUME NEW k \in 1..Len(h), k \notin 1..Len(f)
      PROVE  h[k].event = e /\ h[k].part \in P \cup Q
  BY <1>1, <1>3 DEF Grows
<1>4. ASSUME NEW p \in P \cup Q
      PROVE  \E k \in 1..Len(h) : h[k].event = e /\ h[k].part = p
  BY <1>1 DEF Grows
<1>. QED
  BY <1>1, <1>2, <1>3, <1>4 DEF Grows

\* What a thread that writes does: a whole line, or its next piece.
Writes(e, Q, at) ==
    /\ Grows(file, file', e, Q) /\ Q \subseteq Parts
    /\ thread' = [thread EXCEPT ![e] = at]
    /\ \/ thread[e] = "checked" /\ Q = Parts /\ at = "newline"
       \/ thread[e] = "checked" /\ Q = {"head"} /\ at = "head"
       \/ thread[e] = "head" /\ Q = {"rest"} /\ at = "rest"
       \/ thread[e] = "rest" /\ Q = {"newline"} /\ at = "newline"
    /\ Lines(file') = IF "rest" \in Q THEN Append(Lines(file), Piece(e, "rest")) ELSE Lines(file)
    /\ UNCHANGED <<durable, up, previous, holder, pc, signed, crashes>>

LEMMA WritesLine ==
  ASSUME FileTypes, NEW e \in Events, WriteLine(e)
  PROVE  Writes(e, Parts, "newline")
<1>. DEFINE h == Piece(e, "head")
            r == Piece(e, "rest")
            l == Piece(e, "newline")
            a == Append(file, h)
            b == Append(a, r)
            c == Append(b, l)
<1>1. /\ h \in Pieces /\ r \in Pieces /\ l \in Pieces
      /\ h.event = e /\ r.event = e /\ l.event = e
      /\ h.part = "head" /\ r.part = "rest" /\ l.part = "newline"
  BY DEF Piece, Pieces, Parts, FileTypes
<1>2. file \in Seq(Pieces)
  BY DEF FileTypes
<1>3. /\ thread[e] = "checked" /\ file' = file \o <<h, r, l>>
      /\ thread' = [thread EXCEPT ![e] = "newline"]
      /\ UNCHANGED <<durable, up, previous, holder, pc, signed, crashes>>
  BY DEF WriteLine
<1>. HIDE DEF h, r, l
<1>4. a \in Seq(Pieces) /\ b \in Seq(Pieces)
  BY <1>1, <1>2, AppendProperties
<1>5. Grows(file, c, e, Parts)
  <2>1. Grows(file, a, e, {"head"})
    BY <1>1, <1>2, GrowsByOne
  <2>2. Grows(a, b, e, {"rest"})
    <3>. HIDE DEF a
    <3>. QED
      BY <1>1, <1>4, GrowsByOne
  <2>3. Grows(b, c, e, {"newline"})
    <3>. HIDE DEF b
    <3>. QED
      BY <1>1, <1>4, GrowsByOne
  <2>. HIDE DEF a, b, c
  <2>4. Grows(file, b, e, {"head"} \cup {"rest"})
    BY <2>1, <2>2, GrowsAgain
  <2>5. Grows(file, c, e, ({"head"} \cup {"rest"}) \cup {"newline"})
    BY <2>3, <2>4, GrowsAgain
  <2>6. ({"head"} \cup {"rest"}) \cup {"newline"} = Parts
    BY DEF Parts
  <2>. QED
    BY <2>5, <2>6
<1>6. Lines(c) = Append(Lines(file), r)
  <2>1. Lines(a) = Lines(file)
    BY <1>1, <1>2, LinesOfOneMore
  <2>2. Lines(b) = Append(Lines(a), r)
    <3>. HIDE DEF a
    <3>. QED
      BY <1>1, <1>4, LinesOfOneMore
  <2>3. Lines(c) = Lines(b)
    <3>. HIDE DEF b
    <3>. QED
      BY <1>1, <1>4, LinesOfOneMore
  <2>. QED
    BY <2>1, <2>2, <2>3
<1>7. file' = c
  BY <1>1, <1>2, <1>3, ThreeMore
<1>8. "rest" \in Parts
  BY DEF Parts
<1>. HIDE DEF c
<1>. QED
  BY <1>3, <1>5, <1>6, <1>7, <1>8 DEF Writes, r

LEMMA WritesPiece ==
  ASSUME FileTypes, NEW e \in Events, WritePiece(e)
  PROVE  \E Q \in SUBSET Parts, at \in Parts : Writes(e, Q, at)
<1>1. PICK p \in Parts :
        /\ \/ thread[e] = "checked" /\ p = "head"
           \/ thread[e] = "head" /\ p = "rest"
           \/ thread[e] = "rest" /\ p = "newline"
        /\ file' = Append(file, Piece(e, p)) /\ thread' = [thread EXCEPT ![e] = p]
        /\ UNCHANGED <<durable, up, previous, holder, pc, signed, crashes>>
  <2>1. thread[e] \in {"checked", "head", "rest"}
    BY DEF WritePiece, Following
  <2>2. /\ Following["checked"] = "head" /\ Following["head"] = "rest"
        /\ Following["rest"] = "newline"
    BY DEF Following
  <2>3. Following[thread[e]] \in Parts
    BY <2>1, <2>2 DEF Parts
  <2>. QED
    BY <2>1, <2>2, <2>3 DEF WritePiece
<1>. DEFINE x == Piece(e, p)
<1>2. x \in Pieces /\ x.event = e /\ x.part = p /\ file \in Seq(Pieces)
  BY DEF Piece, Pieces, FileTypes
<1>. HIDE DEF x
<1>3. Grows(file, Append(file, x), e, {p})
  BY <1>2, GrowsByOne
<1>4. Lines(Append(file, x)) = IF p = "rest" THEN Append(Lines(file), x) ELSE Lines(file)
  BY <1>2, LinesOfOneMore
<1>5. {p} \subseteq Parts /\ (p = "rest" <=> "rest" \in {p}) /\ (p = "rest" => x = Piece(e, "rest"))
  BY DEF x
<1>6. file' = Append(file, x)
  BY <1>1 DEF x
<1>7. Lines(file') =
         IF "rest" \in {p} THEN Append(Lines(file), Piece(e, "rest")) ELSE Lines(file)
  BY <1>4, <1>5, <1>6
<1>8. Writes(e, {p}, p)
  BY <1>1, <1>3, <1>5, <1>6, <1>7 DEF Writes
<1>. QED
  BY <1>5, <1>8

LEMMA WritesHow ==
  ASSUME FileTypes, NEW e \in Events, WriteLine(e) \/ WritePiece(e)
  PROVE  \E Q \in SUBSET Parts, at \in Parts : Writes(e, Q, at)
<1>1. CASE WriteLine(e)
  <2>1. Writes(e, Parts, "newline") /\ Parts \in SUBSET Parts /\ "newline" \in Parts
    BY <1>1, WritesLine DEF Parts
  <2>. QED
    BY <2>1
<1>. QED
  BY <1>1, WritesPiece

\* A crash leaves the first pieces, all that an fsync covered among them.
LEMMA FirstPieces ==
  ASSUME FileTypes, NEW kept \in durable..Len(file), file' = SubSeq(file, 1, kept)
  PROVE  /\ kept \in Nat /\ Len(file) \in Nat /\ kept <= Len(file) /\ durable <= kept
         /\ file' \in Seq(Pieces) /\ Len(file') = kept
         /\ \A k \in 1..kept : file'[k] = file[k]
<1>1. kept \in Nat /\ Len(file) \in Nat /\ durable \in Nat /\ kept <= Len(file) /\ durable <= kept
  BY DEF FileTypes
<1>2. \A k \in 1..kept : file[k] \in Pieces
  BY <1>1 DEF FileTypes
<1>3. 1 \in Int /\ kept \in Int
  BY <1>1
<1>4. /\ SubSeq(file, 1, kept) \in Seq(Pieces)
      /\ Len(SubSeq(file, 1, kept)) = (IF 1 <= kept THEN kept - 1 + 1 ELSE 0)
      /\ \A i \in 1..(kept - 1 + 1) : SubSeq(file, 1, kept)[i] = file[1 + i - 1]
  BY <1>2, <1>3, SubSeqProperties
<1>. QED
  BY <1>1, <1>4

LEMMA FileTypesStep == FileTypes /\ [Next]_fileVars => FileTypes'
<1>. SUFFICES ASSUME FileTypes, [Next]_fileVars PROVE FileTypes'
  OBVIOUS
<1>. USE DEF Stages, ThreadStates, Ended
<1>0. file \in Seq(Pieces) /\ Len(file) \in Nat /\ durable \in 0..Len(file) /\ None \notin Events
  BY FileAssumption DEF FileTypes, FileAssumption
<1>1. ASSUME NEW e \in Events, Call(e) \/ CancelWaiting(e)
      PROVE  FileTypes'
  <2>1. /\ UNCHANGED <<file, durable, previous, holder, signed, thread>>
        /\ pc[e] # "writing"
        /\ pc' = [pc EXCEPT ![e] = "waiting"] \/ pc' = [pc EXCEPT ![e] = "raised"]
    BY <1>1 DEF Call, CancelWaiting, diskVars
  <2>. QED
    BY <2>1 DEF FileTypes
<1>2. ASSUME NEW e \in Events, Sign(e)
      PROVE  FileTypes'
  BY <1>0, <1>2 DEF Sign, FileTypes, diskVars
<1>3. ASSUME NEW e \in Events, CheckSize(e) \/ WriteFails(e)
      PROVE  FileTypes'
  <2>1. /\ UNCHANGED <<file, durable, previous, holder, signed, pc>>
        /\ thread' = [thread EXCEPT ![e] = "failed"] \/ thread' = [thread EXCEPT ![e] = "checked"]
    BY <1>3 DEF CheckSize, WriteFails, diskVars, Parts
  <2>. QED
    BY <2>1 DEF FileTypes
<1>4. ASSUME NEW e \in Events, WriteLine(e) \/ WritePiece(e)
      PROVE  FileTypes'
  <2>1. PICK Q \in SUBSET Parts, at \in Parts : Writes(e, Q, at)
    BY <1>4, WritesHow
  <2>2. /\ UNCHANGED <<durable, previous, holder, pc, signed>>
        /\ thread' = [thread EXCEPT ![e] = at]
        /\ file' \in Seq(Pieces) /\ Len(file') \in Nat /\ Len(file) < Len(file')
    BY <2>1 DEF Writes, Grows
  <2>3. durable' \in 0..Len(file')
    BY <1>0, <2>2
  <2>4. at \in ThreadStates
    OBVIOUS
  <2>. QED
    BY <2>2, <2>3, <2>4 DEF FileTypes
<1>5. ASSUME NEW e \in Events, Sync(e)
      PROVE  FileTypes'
  BY <1>0, <1>5 DEF Sync, FileTypes
<1>6. ASSUME NEW e \in Events, Return(e)
      PROVE  FileTypes'
  <2>1. /\ UNCHANGED <<file, durable, signed, thread>> /\ holder' = None /\ pc[e] = "writing"
        /\ previous' = Append(signed[e], e) /\ pc' = [pc EXCEPT ![e] = "returned"]
    BY <1>6 DEF Return, diskVars
  <2>2. previous' \in Seq(Events)
    BY <2>1 DEF FileTypes
  <2>. QED
    BY <1>0, <2>1, <2>2 DEF FileTypes
<1>7. ASSUME NEW e \in Events, Raise(e) \/ CancelWriting(e)
      PROVE  FileTypes'
  <2>1. /\ UNCHANGED <<file, durable, previous, signed>> /\ holder' = None /\ pc[e] = "writing"
        /\ pc' = [pc EXCEPT ![e] = "raised"]
        /\ UNCHANGED thread \/ thread' = [thread EXCEPT ![e] = "none"]
    BY <1>7 DEF Raise, CancelWriting, diskVars
  <2>. QED
    BY <1>0, <2>1 DEF FileTypes
<1>8. ASSUME NEW kept \in durable..Len(file), Crash(kept)
      PROVE  FileTypes'
  <2>1. /\ file' = SubSeq(file, 1, kept) /\ holder' = None
        /\ pc' = [e \in Events |-> IF pc[e] \in {"idle"} \cup Ended THEN pc[e] ELSE "raised"]
        /\ thread' = [e \in Events |-> "none"] /\ UNCHANGED <<durable, previous, signed>>
    BY <1>8 DEF Crash
  <2>2. file' \in Seq(Pieces) /\ durable' \in 0..Len(file')
    BY <1>0, <2>1, FirstPieces
  <2>3. pc' \in [Events -> Stages] /\ \A e \in Events : pc'[e] # "writing"
    BY <2>1 DEF FileTypes
  <2>. QED
    BY <1>0, <2>1, <2>2, <2>3 DEF FileTypes
<1>9. CASE Resume
  <2>1. /\ UNCHANGED <<file, durable, holder, pc, signed, thread>>
        /\ previous' = LastSignature(file)
    BY <1>9 DEF Resume, diskVars
  <2>2. LastSignature(file) \in Seq(Events)
    BY <1>0, LastSignatureType
  <2>. QED
    BY <2>1, <2>2 DEF FileTypes
<1>10. CASE UNCHANGED fileVars
  BY <1>10 DEF fileVars, diskVars, FileTypes
<1>. QED
  BY <1>1, <1>2, <1>3, <1>4, <1>5, <1>6, <1>7, <1>8, <1>9, <1>10 DEF Next, Work

LEMMA FileTypesHold == Spec => []FileTypes
BY FileTypesStart, FileTypesStep, PTL DEF Spec

-----------------------------------------------------------------------------
\* Whether this part of the line of the event is in the first n pieces.
Wrote(e, p, n) == \E k \in 1..n : file[k].event = e /\ file[k].part = p

\* What a thread at this stage has written.
Through(at) ==
    IF at = "head" THEN {"head"} ELSE IF at = "rest" THEN {"head", "rest"} ELSE Parts

\* A thread has written the parts up to its stage; the whole line is in what an fsync
\* covered once it synced it; and the text is not complete before.
WrittenInv ==
    \A e \in Events :
        /\ thread[e] \in Parts => \A p \in Through(thread[e]) : Wrote(e, p, Len(file))
        /\ thread[e] = "done" \/ pc[e] = "returned" => \A p \in Parts : Wrote(e, p, durable)
        /\ pc[e] \in {"idle", "waiting"} \/ thread[e] \in {"queued", "checked", "head"}
              => ~Wrote(e, "rest", Len(file))
        /\ pc[e] \in {"idle", "waiting"} => thread[e] = "none"

LEMMA WrittenStep == FileTypes /\ WrittenInv /\ [Next]_fileVars => WrittenInv'
<1>. SUFFICES ASSUME FileTypes, WrittenInv, [Next]_fileVars PROVE WrittenInv'
  OBVIOUS
<1>0. file \in Seq(Pieces) /\ Len(file) \in Nat /\ durable \in 0..Len(file)
  BY DEF FileTypes
<1>2. ASSUME NEW e \in Events, Call(e) \/ CancelWaiting(e) \/ Sign(e)
      PROVE  WrittenInv'
  <2>1. /\ UNCHANGED <<file, durable>>
        /\ \/ pc[e] = "idle" /\ pc' = [pc EXCEPT ![e] = "waiting"] /\ UNCHANGED thread
           \/ pc[e] = "waiting" /\ pc' = [pc EXCEPT ![e] = "raised"] /\ UNCHANGED thread
           \/ /\ pc[e] = "waiting" /\ pc' = [pc EXCEPT ![e] = "writing"]
              /\ thread' = [thread EXCEPT ![e] = "queued"]
    BY <1>2 DEF Call, CancelWaiting, Sign, diskVars
  <2>2. \A f \in Events, p \in Parts :
           /\ Wrote(f, p, Len(file))' <=> Wrote(f, p, Len(file))
           /\ Wrote(f, p, durable)' <=> Wrote(f, p, durable)
    BY <2>1 DEF Wrote
  <2>. QED
    BY <2>1, <2>2 DEF WrittenInv, FileTypes, Parts, Through
<1>3. ASSUME NEW e \in Events, CheckSize(e) \/ WriteFails(e)
      PROVE  WrittenInv'
  <2>1. /\ UNCHANGED <<file, durable, pc>>
        /\ \/ thread[e] = "queued" /\ thread' = [thread EXCEPT ![e] = "checked"]
           \/ thread[e] # "none" /\ thread' = [thread EXCEPT ![e] = "failed"]
    BY <1>3 DEF CheckSize, WriteFails, diskVars, Parts
  <2>2. \A f \in Events, p \in Parts :
           /\ Wrote(f, p, Len(file))' <=> Wrote(f, p, Len(file))
           /\ Wrote(f, p, durable)' <=> Wrote(f, p, durable)
    BY <2>1 DEF Wrote
  <2>. QED
    BY <2>1, <2>2 DEF WrittenInv, FileTypes, Parts, Through
<1>4. ASSUME NEW e \in Events, WriteLine(e) \/ WritePiece(e)
      PROVE  WrittenInv'
  <2>1. PICK Q \in SUBSET Parts, at \in Parts : Writes(e, Q, at)
    BY <1>4, WritesHow
  <2>2. Grows(file, file', e, Q)
    BY <2>1 DEF Writes
  <2>3. /\ thread' = [thread EXCEPT ![e] = at] /\ UNCHANGED <<durable, pc>>
        /\ \/ thread[e] = "checked" /\ Q = Parts /\ at = "newline"
           \/ thread[e] = "checked" /\ Q = {"head"} /\ at = "head"
           \/ thread[e] = "head" /\ Q = {"rest"} /\ at = "rest"
           \/ thread[e] = "rest" /\ Q = {"newline"} /\ at = "newline"
    BY <2>1 DEF Writes
  <2>4. /\ 1..durable \subseteq 1..Len(file) /\ 1..Len(file) \subseteq 1..Len(file')
        /\ \A k \in 1..Len(file) : file'[k] = file[k]
    BY <1>0, <2>2 DEF Grows
  <2>5. \A f \in Events, p \in Parts :
           /\ Wrote(f, p, Len(file))' <=> (Wrote(f, p, Len(file)) \/ (f = e /\ p \in Q))
           /\ Wrote(f, p, durable)' <=> Wrote(f, p, durable)
    BY <2>2, <2>3, <2>4 DEF Wrote, Grows
  <2>6. ~Wrote(e, "rest", Len(file)) \/ thread[e] = "rest"
    BY <2>3 DEF WrittenInv
  <2>7. pc[e] \notin {"idle", "waiting"}
    BY <2>3 DEF WrittenInv
  <2>8. \A p \in Through(at) : Wrote(e, p, Len(file))'
    BY <2>3, <2>5 DEF WrittenInv, Through, Parts
  <2>9. at = "head" => ~Wrote(e, "rest", Len(file))'
    BY <2>3, <2>5, <2>6 DEF Parts
  <2>10. thread'[e] = at /\ \A f \in Events : f # e => thread'[f] = thread[f]
    BY <2>3 DEF FileTypes
  <2>11. at \notin {"queued", "checked", "done", "none"} /\ "rest" \in Parts
    BY DEF Parts
  <2>12. ASSUME NEW f \in Events
         PROVE  /\ thread'[f] \in Parts => \A p \in Through(thread'[f]) : Wrote(f, p, Len(file))'
                /\ thread'[f] = "done" \/ pc'[f] = "returned" =>
                      \A p \in Parts : Wrote(f, p, durable)'
                /\ pc'[f] \in {"idle", "waiting"} \/ thread'[f] \in {"queued", "checked", "head"}
                      => ~Wrote(f, "rest", Len(file))'
                /\ pc'[f] \in {"idle", "waiting"} => thread'[f] = "none"
    <3>1. CASE f = e
      BY <2>3, <2>5, <2>7, <2>8, <2>9, <2>10, <2>11, <3>1 DEF WrittenInv
    <3>2. CASE f # e
      <4>1. thread'[f] = thread[f] /\ pc'[f] = pc[f]
        BY <2>3, <2>10, <3>2
      <4>2. Through(thread[f]) \subseteq Parts
        BY DEF Through, Parts
      <4>. QED
        BY <2>5, <2>11, <3>2, <4>1, <4>2 DEF WrittenInv
    <3>. QED
      BY <3>1, <3>2
  <2>. QED
    BY <2>12 DEF WrittenInv
<1>5. ASSUME NEW e \in Events, Sync(e)
      PROVE  WrittenInv'
  <2>1. /\ UNCHANGED <<file, pc>> /\ durable' = Len(file) /\ thread[e] = "newline"
        /\ thread' = [thread EXCEPT ![e] = "done"]
    BY <1>5 DEF Sync
  <2>2. 1..durable \subseteq 1..Len(file)
    BY <1>0
  <2>3. \A f \in Events, p \in Parts :
           /\ Wrote(f, p, Len(file))' <=> Wrote(f, p, Len(file))
           /\ Wrote(f, p, durable)' <=> Wrote(f, p, Len(file))
           /\ Wrote(f, p, durable) => Wrote(f, p, Len(file))
    BY <2>1, <2>2 DEF Wrote
  <2>. QED
    BY <2>1, <2>3 DEF WrittenInv, FileTypes, Parts, Through
<1>6. ASSUME NEW e \in Events, Return(e) \/ Raise(e) \/ CancelWriting(e)
      PROVE  WrittenInv'
  <2>1. /\ UNCHANGED <<file, durable>> /\ pc[e] = "writing"
        /\ \/ thread[e] = "done" /\ UNCHANGED thread /\ pc' = [pc EXCEPT ![e] = "returned"]
           \/ UNCHANGED thread /\ pc' = [pc EXCEPT ![e] = "raised"]
           \/ thread' = [thread EXCEPT ![e] = "none"] /\ pc' = [pc EXCEPT ![e] = "raised"]
    BY <1>6 DEF Return, Raise, CancelWriting, diskVars
  <2>2. \A f \in Events, p \in Parts :
           /\ Wrote(f, p, Len(file))' <=> Wrote(f, p, Len(file))
           /\ Wrote(f, p, durable)' <=> Wrote(f, p, durable)
    BY <2>1 DEF Wrote
  <2>. QED
    BY <2>1, <2>2 DEF WrittenInv, FileTypes, Parts, Through
<1>7. ASSUME NEW kept \in durable..Len(file), Crash(kept)
      PROVE  WrittenInv'
  <2>1. /\ file' = SubSeq(file, 1, kept) /\ UNCHANGED durable
        /\ pc' = [e \in Events |-> IF pc[e] \in {"idle"} \cup Ended THEN pc[e] ELSE "raised"]
        /\ thread' = [e \in Events |-> "none"]
    BY <1>7 DEF Crash
  <2>2. /\ Len(file') = kept /\ 1..kept \subseteq 1..Len(file) /\ 1..durable \subseteq 1..kept
        /\ \A k \in 1..kept : file'[k] = file[k]
    BY <1>0, <2>1, FirstPieces
  <2>3. \A f \in Events, p \in Parts :
           /\ Wrote(f, p, Len(file))' => Wrote(f, p, Len(file))
           /\ Wrote(f, p, durable)' <=> Wrote(f, p, durable)
    BY <2>1, <2>2 DEF Wrote
  <2>. QED
    BY <2>1, <2>3 DEF WrittenInv, FileTypes, Ended, Parts, Through
<1>8. CASE Resume \/ UNCHANGED fileVars
  <2>1. UNCHANGED <<file, durable, pc, thread>>
    BY <1>8 DEF Resume, fileVars, diskVars
  <2>2. \A f \in Events, p \in Parts :
           /\ Wrote(f, p, Len(file))' <=> Wrote(f, p, Len(file))
           /\ Wrote(f, p, durable)' <=> Wrote(f, p, durable)
    BY <2>1 DEF Wrote
  <2>. QED
    BY <2>1, <2>2 DEF WrittenInv, Parts, Through
<1>. QED
  BY <1>2, <1>3, <1>4, <1>5, <1>6, <1>7, <1>8 DEF Next, Work

LEMMA WrittenHolds == Spec => [](FileTypes /\ WrittenInv)
<1>1. Init => WrittenInv
  BY EmptySeq DEF Init, WrittenInv, Wrote, Parts
<1>. QED
  BY <1>1, FileTypesStart, FileTypesStep, WrittenStep, PTL DEF Spec

\* The whole line of an event whose append returned is in the part of the file that an
\* fsync covered, for any limit and number of crashes, and also when other appends fail or are
\* cancelled (AcknowledgedIsDurable).
THEOREM AcknowledgedStays == Spec => []AcknowledgedIsDurable
<1>1. FileTypes => TypeOK
  <2>. SUFFICES ASSUME FileTypes PROVE TypeOK
    OBVIOUS
  <2>1. \A k \in DOMAIN file : file[k] \in Pieces
    BY DEF FileTypes
  <2>. QED
    BY <2>1 DEF FileTypes, TypeOK, Pieces, Stages
<1>2. FileTypes /\ WrittenInv => AcknowledgedIsDurable
  BY <1>1 DEF WrittenInv, AcknowledgedIsDurable, Wrote
<1>. QED
  BY <1>2, WrittenHolds, PTL

-----------------------------------------------------------------------------
\* The file as the chain of the events of its lines.
FileChain == EventsOf(Lines(file))

FileAcknowledged == {e \in Events : pc[e] = "returned"}

LEMMA LinesEvents ==
  ASSUME NEW f \in Seq(Pieces)
  PROVE  /\ EventsOf(Lines(f)) \in Seq(Events)
         /\ \A e : e \in Chain!ToSet(EventsOf(Lines(f))) <=>
                      \E k \in 1..Len(f) : f[k].event = e /\ f[k].part = "rest"
<1>. DEFINE lines == Lines(f)
<1>1. LinesLaws(f)
  BY LinesLawsHold
<1>2. /\ lines \in Seq(Pieces) /\ DOMAIN lines = 1..Len(lines)
      /\ \A x : Has(lines, x) <=> Has(f, x) /\ x.part = "rest"
  BY <1>1 DEF LinesLaws
<1>3. EventsOf(lines) \in Seq(Events)
  <2>1. \A x \in Pieces : x.event \in Events
    BY DEF Pieces
  <2>. QED
    BY <1>2, <2>1, EventsType
<1>. HIDE DEF lines
<1>4. \A e : e \in Chain!ToSet(EventsOf(lines)) <=> \E k \in 1..Len(lines) : lines[k].event = e
  BY <1>2 DEF Chain!ToSet, EventsOf
<1>5. \A e : (\E k \in 1..Len(lines) : lines[k].event = e) <=>
                \E k \in 1..Len(f) : f[k].event = e /\ f[k].part = "rest"
  BY <1>2 DEF Has
<1>. QED
  BY <1>3, <1>4, <1>5 DEF lines

LEMMA FileChained ==
  FileTypes => \A e : e \in Chain!ToSet(FileChain) <=> Wrote(e, "rest", Len(file))
BY LinesEvents DEF FileTypes, FileChain, Wrote

LEMMA EventsSubSeq ==
  ASSUME NEW S, NEW A, NEW q \in Seq(S), \A x \in S : x.event \in A, NEW m \in 0..Len(q)
  PROVE  EventsOf(SubSeq(q, 1, m)) = SubSeq(EventsOf(q), 1, m)
<1>. DEFINE v == EventsOf(q)
            s == SubSeq(q, 1, m)
            t == SubSeq(v, 1, m)
<1>1. v \in Seq(A) /\ Len(v) = Len(q) /\ DOMAIN q = 1..Len(q)
  BY EventsType
<1>2. /\ m \in Int /\ 1 \in Int /\ m \in Nat
      /\ \A i \in 1..m : i \in 1..Len(q)
  OBVIOUS
<1>3. \A i \in 1..m : q[i] \in S /\ v[i] \in A /\ v[i] = q[i].event
  BY <1>1, <1>2 DEF EventsOf
<1>. HIDE DEF v
<1>4. /\ s \in Seq(S) /\ Len(s) = (IF 1 <= m THEN m - 1 + 1 ELSE 0)
      /\ \A i \in 1..(m - 1 + 1) : s[i] = q[1 + i - 1]
  BY <1>2, <1>3, SubSeqProperties
<1>5. /\ t \in Seq(A) /\ Len(t) = (IF 1 <= m THEN m - 1 + 1 ELSE 0)
      /\ \A i \in 1..(m - 1 + 1) : t[i] = v[1 + i - 1]
  BY <1>2, <1>3, SubSeqProperties
<1>6. Len(s) = m /\ Len(t) = m /\ \A i \in 1..m : t[i] = s[i].event
  BY <1>2, <1>3, <1>4, <1>5
<1>. HIDE DEF s, t
<1>7. EventsOf(s) \in Seq(A) /\ Len(EventsOf(s)) = m /\ \A i \in 1..m : EventsOf(s)[i] = s[i].event
  <2>1. DOMAIN s = 1..m
    BY <1>4, <1>6
  <2>. QED
    BY <1>4, <1>6, <2>1, EventsType DEF EventsOf
<1>8. EventsOf(s) = t
  BY <1>5, <1>6, <1>7, SeqEqual
<1>. QED
  BY <1>8 DEF s, t, v

\* A write that completes the text of an event adds it; another adds none.
LEMMA FileExtends ==
  ASSUME FileTypes, WrittenInv, NEW e \in Events,
         WriteLine(e) \/ WritePiece(e)
  PROVE  Chain!Extend(e) \/ UNCHANGED <<FileChain, FileAcknowledged>>
<1>1. PICK Q \in SUBSET Parts, at \in Parts : Writes(e, Q, at)
  BY WritesHow
<1>2. /\ Lines(file') = IF "rest" \in Q THEN Append(Lines(file), Piece(e, "rest")) ELSE Lines(file)
      /\ UNCHANGED pc
      /\ "rest" \in Q => thread[e] \in {"checked", "head"}
  BY <1>1 DEF Writes
<1>3. /\ Piece(e, "rest") \in Pieces /\ Piece(e, "rest").event = e
      /\ Lines(file) \in Seq(Pieces)
  BY LinesLawsHold DEF FileTypes, LinesLaws, Piece, Pieces, Parts
<1>4. FileChain' = EventsOf(Lines(file')) /\ UNCHANGED FileAcknowledged
  BY <1>2 DEF FileChain, FileAcknowledged, EventsOf, Lines
<1>5. CASE "rest" \notin Q
  BY <1>2, <1>4, <1>5 DEF FileChain
<1>6. CASE "rest" \in Q
  <2>1. \A x \in Pieces : x.event \in Events
    BY DEF Pieces
  <2>2. EventsOf(Append(Lines(file), Piece(e, "rest"))) =
           Append(EventsOf(Lines(file)), Piece(e, "rest").event)
    BY <1>3, <2>1, EventsAppend
  <2>3. FileChain' = Append(FileChain, e)
    BY <1>2, <1>3, <1>4, <1>6, <2>2 DEF FileChain
  <2>4. e \notin Chain!ToSet(FileChain)
    BY <1>2, <1>6, FileChained DEF WrittenInv
  <2>. QED
    BY <1>4, <2>3, <2>4 DEF Chain!Extend, FileChain, EventsOf, FileAcknowledged
<1>. QED
  BY <1>5, <1>6

LEMMA FileAcknowledges ==
  ASSUME FileTypes, WrittenInv, NEW e \in Events, Return(e)
  PROVE  Chain!Acknowledge(e)
<1>1. /\ UNCHANGED file /\ pc[e] = "writing" /\ thread[e] = "done"
      /\ pc' = [pc EXCEPT ![e] = "returned"]
  BY DEF Return, diskVars
<1>2. e \in Chain!ToSet(FileChain)
  <2>1. Wrote(e, "rest", durable)
    BY <1>1 DEF WrittenInv, Parts
  <2>2. 1..durable \subseteq 1..Len(file)
    BY DEF FileTypes
  <2>3. Wrote(e, "rest", Len(file))
    BY <2>1, <2>2 DEF Wrote
  <2>. QED
    BY <2>3, FileChained
<1>3. FileAcknowledged' = FileAcknowledged \cup {e} /\ e \notin FileAcknowledged
  BY <1>1 DEF FileAcknowledged, FileTypes
<1>4. FileChain' = FileChain
  BY <1>1 DEF FileChain, EventsOf, Lines
<1>. QED
  BY <1>2, <1>3, <1>4 DEF Chain!Acknowledge, FileChain, EventsOf, FileAcknowledged

LEMMA FileLoses ==
  ASSUME FileTypes, WrittenInv, NEW kept \in durable..Len(file), Crash(kept)
  PROVE  \E m \in 0..Len(FileChain) : Chain!Lose(m)
<1>1. /\ file' = SubSeq(file, 1, kept)
      /\ pc' = [e \in Events |-> IF pc[e] \in {"idle"} \cup Ended THEN pc[e] ELSE "raised"]
  BY DEF Crash
<1>2. /\ file' \in Seq(Pieces) /\ Len(file') = kept /\ kept \in 0..Len(file)
      /\ 1..durable \subseteq 1..kept /\ \A k \in 1..kept : file'[k] = file[k]
  BY <1>1, FirstPieces DEF FileTypes
<1>3. file \in Seq(Pieces) /\ LinesLaws(file)
  BY LinesLawsHold DEF FileTypes
<1>4. PICK m \in 0..Len(Lines(file)) : Lines(file') = SubSeq(Lines(file), 1, m)
  BY <1>1, <1>2, <1>3 DEF LinesLaws
<1>5. EventsOf(Lines(file')) = SubSeq(FileChain, 1, m) /\ Len(FileChain) = Len(Lines(file))
  <2>1. \A x \in Pieces : x.event \in Events
    BY DEF Pieces
  <2>2. Lines(file) \in Seq(Pieces)
    BY <1>3 DEF LinesLaws
  <2>. QED
    BY <1>4, <2>1, <2>2, EventsSubSeq, EventsType DEF FileChain
<1>6. FileChain' = SubSeq(FileChain, 1, m)
  <2>1. FileChain' = EventsOf(Lines(file'))
    BY DEF FileChain, EventsOf, Lines
  <2>. QED
    BY <1>5, <2>1
<1>7. FileAcknowledged' = FileAcknowledged
  BY <1>1 DEF FileAcknowledged, FileTypes, Ended
<1>8. FileAcknowledged \subseteq Chain!ToSet(SubSeq(FileChain, 1, m))
  <2>. SUFFICES ASSUME NEW e \in FileAcknowledged
                PROVE  e \in Chain!ToSet(EventsOf(Lines(file')))
    BY <1>5
  <2>1. PICK k \in 1..durable : file[k].event = e /\ file[k].part = "rest"
    BY DEF FileAcknowledged, WrittenInv, Wrote, Parts
  <2>2. \E j \in 1..Len(file') : file'[j].event = e /\ file'[j].part = "rest"
    BY <1>2, <2>1
  <2>. QED
    BY <1>2, <2>2, LinesEvents
<1>9. Chain!Lose(m)
  BY <1>6, <1>7, <1>8 DEF Chain!Lose, FileChain, EventsOf, FileAcknowledged
<1>. QED
  BY <1>4, <1>5, <1>9

LEMMA FileChainStep ==
  FileTypes /\ WrittenInv /\ [Next]_fileVars
    => [Chain!ChainNext]_<<FileChain, FileAcknowledged>>
<1>. SUFFICES ASSUME FileTypes, WrittenInv, [Next]_fileVars
              PROVE  Chain!ChainNext \/ UNCHANGED <<FileChain, FileAcknowledged>>
  OBVIOUS
<1>1. ASSUME NEW e \in Events,
             \/ Call(e) \/ Sign(e) \/ CheckSize(e) \/ Sync(e) \/ WriteFails(e) \/ Raise(e)
             \/ CancelWaiting(e) \/ CancelWriting(e)
      PROVE  UNCHANGED <<FileChain, FileAcknowledged>>
  <2>1. /\ UNCHANGED file
        /\ \/ UNCHANGED pc
           \/ \E s \in {"waiting", "writing", "raised"} :
                 pc[e] # "returned" /\ pc' = [pc EXCEPT ![e] = s]
    BY <1>1 DEF Call, Sign, CheckSize, Sync, WriteFails, Raise, CancelWaiting, CancelWriting,
                diskVars
  <2>2. FileAcknowledged' = FileAcknowledged
    BY <2>1 DEF FileAcknowledged, FileTypes
  <2>3. FileChain' = FileChain
    BY <2>1 DEF FileChain, EventsOf, Lines
  <2>. QED
    BY <2>2, <2>3
<1>2. CASE Resume \/ UNCHANGED fileVars
  <2>1. UNCHANGED <<file, pc>>
    BY <1>2 DEF Resume, fileVars, diskVars
  <2>. QED
    BY <2>1 DEF FileChain, EventsOf, Lines, FileAcknowledged
<1>3. ASSUME NEW e \in Events, WriteLine(e) \/ WritePiece(e)
      PROVE  Chain!ChainNext \/ UNCHANGED <<FileChain, FileAcknowledged>>
  BY <1>3, FileExtends DEF Chain!ChainNext
<1>4. ASSUME NEW e \in Events, Return(e)
      PROVE  Chain!ChainNext
  BY <1>4, FileAcknowledges DEF Chain!ChainNext
<1>5. ASSUME NEW kept \in durable..Len(file), Crash(kept)
      PROVE  Chain!ChainNext
  <2>1. \E m \in 0..Len(FileChain) : Chain!Lose(m)
    BY <1>5, FileLoses
  <2>. QED
    BY <2>1 DEF Chain!ChainNext, FileChain, EventsOf
<1>. QED
  BY <1>1, <1>2, <1>3, <1>4, <1>5 DEF Next, Work

\* Every step of the trail in a file is one of an audit chain, or none that it knows of:
\* a complete text adds its event, once, a return acknowledges it, and a crash takes back
\* at most what was not acknowledged (ImplementsChain).
THEOREM FileImplementsChain == Spec => ImplementsChain
<1>1. Init => Chain!ChainInit
  <2>. SUFFICES ASSUME Init PROVE FileChain = <<>> /\ FileAcknowledged = {}
    BY DEF Chain!ChainInit, FileChain, EventsOf, FileAcknowledged
  <2>1. FileAcknowledged = {}
    BY DEF Init, FileAcknowledged
  <2>2. Lines(file) = <<>>
    BY LinesOfNone DEF Init
  <2>3. EventsOf(<<>>) = <<>>
    BY DEF EventsOf
  <2>. QED
    BY <2>1, <2>2, <2>3 DEF FileChain
<1>2. FileTypes /\ WrittenInv /\ [Next]_fileVars => [Chain!ChainNext]_(Chain!chainVars)
  BY FileChainStep DEF Chain!chainVars, FileChain, EventsOf, FileAcknowledged
<1>. QED
  BY <1>1, <1>2, WrittenHolds, PTL DEF Spec, ImplementsChain, Chain!ChainSpec

-----------------------------------------------------------------------------
\* The last signature of a file is that of its last line.
LEMMA LastSignatureOfOneMore ==
  ASSUME NEW f \in Seq(Pieces), NEW x \in Pieces
  PROVE  LastSignature(Append(f, x)) =
            IF x.part = "rest" THEN Append(x.previous, x.event) ELSE LastSignature(f)
<1>. DEFINE lines == Lines(f)
<1>1. lines \in Seq(Pieces)
      /\ Lines(Append(f, x)) = IF x.part = "rest" THEN Append(lines, x) ELSE lines
  BY LinesLawsHold, LinesOfOneMore DEF LinesLaws
<1>2. CASE x.part # "rest"
  BY <1>1, <1>2 DEF LastSignature
<1>3. CASE x.part = "rest"
  <2>1. Append(lines, x) # <<>> /\ Last(Append(lines, x)) = x
    BY <1>1, AppendProperties DEF Last
  <2>. QED
    BY <1>1, <1>3, <2>1 DEF LastSignature, Signature
<1>. QED
  BY <1>2, <1>3

\* A line continues the last signature.
LEMMA ChainedWithOneMore ==
  ASSUME NEW f \in Seq(Pieces), NEW x \in Pieces, Chained(f),
         x.part = "rest" => x.previous = LastSignature(f)
  PROVE  Chained(Append(f, x))
<1>. DEFINE lines == Lines(f)
            n == Len(lines)
            more == Append(lines, x)
<1>1. lines \in Seq(Pieces) /\ Lines(Append(f, x)) = IF x.part = "rest" THEN more ELSE lines
  BY LinesLawsHold, LinesOfOneMore DEF LinesLaws
<1>2. CASE x.part # "rest"
  BY <1>1, <1>2 DEF Chained
<1>3. CASE x.part = "rest"
  <2>1. /\ n \in Nat /\ DOMAIN lines = 1..n /\ DOMAIN more = 1..(n + 1)
        /\ more[n + 1] = x /\ \A k \in 1..n : more[k] = lines[k]
    BY <1>1, AppendProperties
  <2>2. lines = <<>> <=> n = 0
    BY <1>1, EmptySeq
  <2>3. x.previous = IF n = 0 THEN <<>> ELSE Signature(lines[n])
    BY <1>3, <2>2 DEF LastSignature, Last
  <2>4. \A k \in 1..n : lines[k].previous = IF k = 1 THEN <<>> ELSE Signature(lines[k - 1])
    BY <2>1 DEF Chained
  <2>. HIDE DEF lines, n, more
  <2>5. ASSUME NEW k \in 1..(n + 1)
        PROVE  more[k].previous = IF k = 1 THEN <<>> ELSE Signature(more[k - 1])
    <3>1. CASE k = n + 1
      <4>1. n # 0 => n \in 1..n /\ k - 1 = n
        BY <2>1, <3>1
      <4>2. n = 0 <=> k = 1
        BY <2>1, <3>1
      <4>. QED
        BY <2>1, <2>3, <3>1, <4>1, <4>2
    <3>2. CASE k # n + 1
      <4>1. k \in 1..n /\ (k # 1 => k - 1 \in 1..n)
        BY <2>1, <3>2
      <4>. QED
        BY <2>1, <2>4, <4>1
    <3>. QED
      BY <3>1, <3>2
  <2>. QED
    BY <1>1, <1>3, <2>1, <2>5 DEF Chained
<1>. QED
  BY <1>2, <1>3

LEMMA ChainedFirst ==
  ASSUME NEW f \in Seq(Pieces), NEW m \in 0..Len(f), Chained(f)
  PROVE  Chained(SubSeq(f, 1, m))
<1>. DEFINE lines == Lines(f)
<1>1. LinesLaws(f)
  BY LinesLawsHold
<1>2. PICK p \in 0..Len(lines) : Lines(SubSeq(f, 1, m)) = SubSeq(lines, 1, p)
  BY <1>1 DEF LinesLaws
<1>3. lines \in Seq(Pieces) /\ DOMAIN lines = 1..Len(lines) /\ Len(lines) \in Nat
  BY <1>1 DEF LinesLaws
<1>. DEFINE s == SubSeq(lines, 1, p)
<1>4. /\ 1 \in Int /\ p \in Int /\ p \in Nat
      /\ \A i \in 1..p : i \in 1..Len(lines) /\ lines[i] \in Pieces
  BY <1>3
<1>5. /\ s \in Seq(Pieces) /\ Len(s) = (IF 1 <= p THEN p - 1 + 1 ELSE 0)
      /\ \A i \in 1..(p - 1 + 1) : s[i] = lines[1 + i - 1]
  BY <1>4, SubSeqProperties
<1>6. DOMAIN s = 1..p /\ \A i \in 1..p : s[i] = lines[i]
  BY <1>4, <1>5
<1>7. \A k \in 1..Len(lines) : lines[k].previous = IF k = 1 THEN <<>> ELSE Signature(lines[k - 1])
  BY <1>3 DEF Chained
<1>. HIDE DEF s, lines
<1>8. ASSUME NEW k \in 1..p
      PROVE  s[k].previous = IF k = 1 THEN <<>> ELSE Signature(s[k - 1])
  <2>1. k \in 1..Len(lines) /\ (k # 1 => k - 1 \in 1..p)
    BY <1>4
  <2>. QED
    BY <1>6, <1>7, <2>1
<1>. QED
  BY <1>2, <1>6, <1>8 DEF Chained, s
-----------------------------------------------------------------------------
(* The journal when writes do not fail and appends are not cancelled while they *)
(* write: what is known of the file while a thread is at a stage of its line.   *)

\* The pieces of a line follow each other, and only the last line can be torn.
Shape(f) ==
    \A k \in 1..Len(f) :
        /\ f[k].part = "head" =>
              k = Len(f) \/ (f[k + 1].part = "rest" /\ f[k + 1].event = f[k].event)
        /\ f[k].part = "rest" => k > 1 /\ f[k - 1].part = "head"
        /\ f[k].part = "newline" => k > 1 /\ f[k - 1].part = "rest"

\* A head that joins a line joins it to one of R.
JoinedTo(f, R) ==
    \A k \in 1..Len(f) :
        k > 1 /\ f[k].part = "head" /\ f[k - 1].part = "rest" => f[k - 1].event \in R

\* A text that lacks its newline is one of R, or the last piece, being written.
OpenIn(f, R, at) ==
    \A k \in 1..Len(f) :
        f[k].part = "rest" /\ (k = Len(f) \/ f[k + 1].part # "newline") =>
            f[k].event \in R \/ (at = "rest" /\ k = Len(f))

Left(at) == IF at = "checked" THEN 3 ELSE IF at = "head" THEN 2 ELSE IF at = "rest" THEN 1 ELSE 0

\* What holds of the file while a thread is at this stage, R having failed.
Sound(f, R, at) ==
    /\ Chained(f)
    /\ Shape(f)
    /\ JoinedTo(f, R)
    /\ OpenIn(f, R, at)
    /\ Len(f) + Left(at) <= MaxSize

\* How the file ends while the thread of e is at this stage, its line continuing sig.
Ends(f, at, e, sig) ==
    /\ Len(f) > 0 /\ f[Len(f)].part = "head" => at = "head" /\ f[Len(f)].event = e
    /\ at = "head" => Len(f) > 0 /\ f[Len(f)].part = "head"
    /\ at = "rest" => Len(f) > 0 /\ f[Len(f)].part = "rest"
    /\ at = "newline" => Len(f) > 0 /\ f[Len(f)].part = "newline"
    /\ LastSignature(f) = IF at \in {"rest", "newline", "done"} THEN Append(sig, e) ELSE sig

\* One piece more keeps both.
LEMMA SoundWithOneMore ==
  ASSUME NEW f \in Seq(Pieces), NEW x \in Pieces, NEW R, NEW at,
         NEW e \in Events, NEW sig, x.event = e, x.previous = sig,
         \/ at = "checked" /\ x.part = "head"
         \/ at = "head" /\ x.part = "rest"
         \/ at = "rest" /\ x.part = "newline",
         Sound(f, R, at), Ends(f, at, e, sig)
  PROVE  Sound(Append(f, x), R, x.part) /\ Ends(Append(f, x), x.part, e, sig)
<1>. DEFINE a == Append(f, x)
            n == Len(f)
            p == x.part
<1>1. /\ n \in Nat /\ a \in Seq(Pieces) /\ Len(a) = n + 1
      /\ a[n + 1] = x /\ \A k \in 1..n : a[k] = f[k]
  BY AppendProperties
<1>2. LastSignature(a) = IF p \in {"rest", "newline", "done"} THEN Append(sig, e) ELSE sig
  <2>1. LastSignature(a) = IF p = "rest" THEN Append(sig, e) ELSE LastSignature(f)
    BY LastSignatureOfOneMore
  <2>2. LastSignature(f) = IF at \in {"rest", "newline", "done"} THEN Append(sig, e) ELSE sig
    BY DEF Ends
  <2>. QED
    BY <2>1, <2>2
<1>3. Chained(a)
  <2>1. p = "rest" => x.previous = LastSignature(f)
    BY DEF Ends
  <2>. QED
    BY <2>1, ChainedWithOneMore DEF Sound
<1>4. Len(a) + Left(p) <= MaxSize
  <2>1. n + Left(at) <= MaxSize /\ MaxSize \in Nat
    BY FileAssumption DEF Sound, FileAssumption
  <2>2. Left(p) + 1 = Left(at) /\ Left(p) \in Nat /\ Left(at) \in Nat
    BY DEF Left
  <2>3. (n + 1) + Left(p) = n + Left(at)
    <3>. HIDE DEF n, p
    <3>. QED
      BY <1>1, <2>2
  <2>. QED
    BY <1>1, <2>1, <2>3
<1>5. /\ p \in {"rest", "newline"} => n > 0
      /\ p = "rest" => f[n].part = "head" /\ f[n].event = e
      /\ p = "newline" => f[n].part = "rest"
      /\ p = "head" /\ n > 0 => f[n].part # "head"
  BY DEF Ends
<1>6. n > 0 => n \in 1..n /\ (n + 1) - 1 = n
  BY <1>1
<1>7. x.event = e /\ p \in {"head", "rest", "newline"} /\ a[n + 1].part = p
  BY <1>1
<1>8. Shape(f) /\ JoinedTo(f, R) /\ OpenIn(f, R, at)
  BY DEF Sound
<1>. HIDE DEF a, n, p
<1>9. Shape(a)
  <2>. SUFFICES ASSUME NEW k \in 1..(n + 1)
       PROVE  /\ a[k].part = "head" =>
                    k = n + 1 \/ (a[k + 1].part = "rest" /\ a[k + 1].event = a[k].event)
              /\ a[k].part = "rest" => k > 1 /\ a[k - 1].part = "head"
              /\ a[k].part = "newline" => k > 1 /\ a[k - 1].part = "rest"
    BY <1>1 DEF Shape
  <2>1. CASE k = n + 1
    <3>1. n > 0 => a[k - 1] = f[n] /\ k > 1
      BY <1>1, <1>6, <2>1
    <3>. QED
      BY <1>5, <1>7, <2>1, <3>1
  <2>2. CASE k = n
    <3>1. k \in 1..n /\ a[k] = f[k] /\ a[k + 1] = x /\ n > 0
      BY <1>1, <2>2
    <3>2. k > 1 => a[k - 1] = f[k - 1]
      BY <1>1, <2>2
    <3>3. a[k].part = "head" => p = "rest" /\ a[k].event = e
      BY <1>5, <1>7, <2>2, <3>1
    <3>. QED
      BY <1>1, <1>7, <1>8, <3>1, <3>2, <3>3 DEF Shape, n, p
  <2>3. CASE k # n /\ k # n + 1
    <3>1. k \in 1..n /\ k + 1 \in 1..n /\ a[k] = f[k] /\ a[k + 1] = f[k + 1]
      BY <1>1, <2>3
    <3>2. k > 1 => a[k - 1] = f[k - 1]
      BY <1>1, <3>1
    <3>3. /\ f[k].part = "head" =>
                k = n \/ (f[k + 1].part = "rest" /\ f[k + 1].event = f[k].event)
          /\ f[k].part = "rest" => k > 1 /\ f[k - 1].part = "head"
          /\ f[k].part = "newline" => k > 1 /\ f[k - 1].part = "rest"
      BY <1>8, <3>1 DEF Shape, n
    <3>. QED
      BY <2>3, <3>1, <3>2, <3>3
  <2>. QED
    BY <2>1, <2>2, <2>3
<1>10. JoinedTo(a, R)
  <2>. SUFFICES ASSUME NEW k \in 1..(n + 1), k > 1, a[k].part = "head", a[k - 1].part = "rest"
       PROVE  a[k - 1].event \in R
    BY <1>1 DEF JoinedTo
  <2>1. CASE k = n + 1
    <3>1. n > 0 /\ n \in 1..n /\ a[k - 1] = f[n]
      BY <1>1, <2>1
    <3>2. p = "head" /\ at = "checked"
      BY <1>7, <2>1 DEF p
    <3>. QED
      BY <1>8, <3>1, <3>2 DEF OpenIn, n
  <2>2. CASE k # n + 1
    <3>1. k \in 1..n /\ k - 1 \in 1..n /\ a[k] = f[k] /\ a[k - 1] = f[k - 1]
      BY <1>1, <2>2
    <3>. QED
      BY <1>8, <3>1 DEF JoinedTo, n
  <2>. QED
    BY <2>1, <2>2
<1>11. OpenIn(a, R, p)
  <2>. SUFFICES ASSUME NEW k \in 1..(n + 1), a[k].part = "rest",
                       k = n + 1 \/ a[k + 1].part # "newline"
       PROVE  a[k].event \in R \/ (p = "rest" /\ k = n + 1)
    BY <1>1 DEF OpenIn
  <2>1. CASE k = n + 1
    BY <1>7, <2>1
  <2>2. CASE k = n
    <3>1. k \in 1..n /\ a[k] = f[k] /\ a[k + 1].part = p
      BY <1>1, <1>7, <2>2
    <3>2. at # "rest"
      BY <1>1, <2>2, <3>1 DEF p
    <3>. QED
      BY <1>8, <2>2, <3>1, <3>2 DEF OpenIn, n
  <2>3. CASE k # n /\ k # n + 1
    <3>1. k \in 1..n /\ k + 1 \in 1..n /\ a[k] = f[k] /\ a[k + 1] = f[k + 1]
      BY <1>1, <2>3
    <3>. QED
      BY <1>8, <2>3, <3>1 DEF OpenIn, n
  <2>. QED
    BY <2>1, <2>2, <2>3
<1>12. Ends(a, p, e, sig)
  BY <1>1, <1>2, <1>7 DEF Ends
<1>. QED
  BY <1>3, <1>4, <1>9, <1>10, <1>11, <1>12 DEF Sound, a, p

\* More appends that failed, and a stage that writes nothing.
LEMMA SoundElsewhere ==
  ASSUME NEW f \in Seq(Pieces), NEW R, NEW S, R \subseteq S, NEW at, NEW then,
         Sound(f, R, at), at # "rest", Len(f) + Left(then) <= MaxSize
  PROVE  Sound(f, S, then)
BY DEF Sound, JoinedTo, OpenIn

\* The first pieces of a file whose events that returned keep their newlines.
LEMMA SoundFirst ==
  ASSUME NEW f \in Seq(Pieces), NEW g \in Seq(Pieces), NEW m \in 0..Len(f),
         g = SubSeq(f, 1, m), Len(g) = m, \A k \in 1..m : g[k] = f[k],
         NEW R, NEW S, R \subseteq S, NEW at, Sound(f, R, at),
         \A k \in 1..m : f[k].part = "rest" =>
            f[k].event \in S \/ (k + 1 <= m /\ f[k + 1].part = "newline")
  PROVE  Sound(g, S, "none")
<1>. DEFINE n == Len(f)
<1>1. n \in Nat /\ m \in Nat /\ m <= n /\ Left("none") = 0
  BY DEF Left
<1>2. Chained(g)
  BY ChainedFirst DEF Sound
<1>3. Shape(f) /\ JoinedTo(f, R)
  BY DEF Sound
<1>4. Len(g) + Left("none") <= MaxSize
  <2>1. n + Left(at) <= MaxSize /\ Left(at) \in Nat /\ MaxSize \in Nat
    BY FileAssumption DEF Sound, Left, FileAssumption
  <2>. QED
    BY <1>1, <2>1
<1>. HIDE DEF n
<1>5. \A k \in 1..m : /\ k \in 1..n
                      /\ k > 1 => k - 1 \in 1..m
                      /\ k # m => k + 1 \in 1..m /\ k # n
  BY <1>1
<1>6. Shape(g)
  <2>. SUFFICES ASSUME NEW k \in 1..m
       PROVE  /\ g[k].part = "head" =>
                    k = m \/ (g[k + 1].part = "rest" /\ g[k + 1].event = g[k].event)
              /\ g[k].part = "rest" => k > 1 /\ g[k - 1].part = "head"
              /\ g[k].part = "newline" => k > 1 /\ g[k - 1].part = "rest"
    BY DEF Shape
  <2>1. /\ f[k].part = "head" =>
              k = n \/ (f[k + 1].part = "rest" /\ f[k + 1].event = f[k].event)
        /\ f[k].part = "rest" => k > 1 /\ f[k - 1].part = "head"
        /\ f[k].part = "newline" => k > 1 /\ f[k - 1].part = "rest"
    BY <1>3, <1>5 DEF Shape, n
  <2>2. /\ g[k] = f[k] /\ (k > 1 => g[k - 1] = f[k - 1])
        /\ k # m => g[k + 1] = f[k + 1] /\ k # n
    BY <1>5
  <2>. QED
    BY <2>1, <2>2
<1>7. JoinedTo(g, S)
  <2>. SUFFICES ASSUME NEW k \in 1..m, k > 1, g[k].part = "head", g[k - 1].part = "rest"
       PROVE  g[k - 1].event \in S
    BY DEF JoinedTo
  <2>1. k \in 1..n /\ g[k] = f[k] /\ g[k - 1] = f[k - 1]
    BY <1>5
  <2>. QED
    BY <1>3, <2>1 DEF JoinedTo, n
<1>8. OpenIn(g, S, "none")
  <2>. SUFFICES ASSUME NEW k \in 1..m, g[k].part = "rest", k = m \/ g[k + 1].part # "newline"
       PROVE  g[k].event \in S
    BY DEF OpenIn
  <2>1. g[k] = f[k] /\ (k # m => g[k + 1] = f[k + 1])
    BY <1>5
  <2>2. k = m => ~(k + 1 <= m)
    BY <1>1
  <2>. QED
    BY <2>1, <2>2
<1>. QED
  BY <1>2, <1>4, <1>6, <1>7, <1>8 DEF Sound

-----------------------------------------------------------------------------
Raised == {e \in Events : pc[e] = "raised"}

Quiet == \A e \in Events : pc[e] # "writing"

\* The thread of the append that is writing, and the file it writes.
WriterInv ==
    \A e \in Events :
        /\ pc[e] = "waiting" => up
        /\ thread[e] \in {"queued", "checked"} \cup Parts => pc[e] = "writing"
        /\ pc[e] = "writing" =>
              /\ up
              /\ signed[e] = previous
              /\ Sound(file, Raised, thread[e])
              /\ Ends(file, thread[e], e, previous)

\* The file that nobody writes.
QuietInv ==
    Quiet => /\ Sound(file, Raised, "none")
             /\ up => Ends(file, "none", None, previous)

\* The text of an event that was acknowledged, or is about to be, is not the last piece
\* that an fsync covered.
ClosedInv ==
    \A k \in 1..Len(file) :
        /\ file[k].part = "rest"
        /\ pc[file[k].event] = "returned" \/ thread[file[k].event] = "done"
        => k + 1 <= durable

JournalInv == WriterInv /\ QuietInv /\ ClosedInv

LEMMA OneWriter ==
  ASSUME FileTypes, NEW e \in Events, NEW d \in Events, pc[e] = "writing", pc[d] = "writing"
  PROVE  e = d
BY DEF FileTypes

LEMMA SoundMore ==
  ASSUME NEW f, NEW R, NEW S, R \subseteq S, NEW at, Sound(f, R, at)
  PROVE  Sound(f, S, at)
BY DEF Sound, JoinedTo, OpenIn

\* The thread that writes goes to another stage.
LEMMA WriterStep ==
  ASSUME FileTypes, WriterInv, NEW e \in Events, pc[e] = "writing", NEW at,
         thread' = [thread EXCEPT ![e] = at], UNCHANGED <<up, previous, pc, signed>>,
         Sound(file', Raised, at), Ends(file', at, e, previous)
  PROVE  WriterInv' /\ QuietInv'
<1>1. Raised' = Raised
  BY DEF Raised
<1>2. thread'[e] = at /\ \A d \in Events : d # e => thread'[d] = thread[d]
  BY DEF FileTypes
<1>3. \A d \in Events : pc[d] = "writing" => d = e
  BY OneWriter
<1>4. up /\ signed[e] = previous
  BY DEF WriterInv
<1>5. WriterInv'
  <2>. SUFFICES ASSUME NEW d \in Events
       PROVE  /\ pc'[d] = "waiting" => up'
              /\ thread'[d] \in {"queued", "checked"} \cup Parts => pc'[d] = "writing"
              /\ pc'[d] = "writing" =>
                    /\ up'
                    /\ signed'[d] = previous'
                    /\ Sound(file', Raised', thread'[d])
                    /\ Ends(file', thread'[d], d, previous')
    BY DEF WriterInv
  <2>1. CASE d = e
    BY <1>1, <1>2, <1>4, <2>1
  <2>2. CASE d # e
    BY <1>2, <1>3, <2>2 DEF WriterInv
  <2>. QED
    BY <2>1, <2>2
<1>. QED
  BY <1>5 DEF QuietInv, Quiet


\* Nobody writes any more.
LEMMA QuietStep ==
  ASSUME \A d \in Events : pc'[d] # "writing",
         \A d \in Events : pc'[d] = "waiting" => up',
         \A d \in Events : thread'[d] \notin {"queued", "checked"} \cup Parts,
         Sound(file', Raised', "none"), up' => Ends(file', "none", None, previous')
  PROVE  WriterInv' /\ QuietInv'
BY DEF WriterInv, QuietInv, Quiet

LEMMA PieceEvents ==
  ASSUME FileTypes PROVE \A k \in 1..Len(file) : file[k].event \in Events
<1>1. \A k \in 1..Len(file) : file[k] \in Pieces
  BY DEF FileTypes
<1>2. \A x \in Pieces : x.event \in Events
  BY DEF Pieces
<1>. QED
  BY <1>1, <1>2

LEMMA JournalAtCall ==
  ASSUME FileTypes, JournalInv, NEW e \in Events, Call(e) \/ CancelWaiting(e)
  PROVE  JournalInv'
<1>1. /\ UNCHANGED <<file, durable, up, previous, signed, thread>>
      /\ \/ pc[e] = "idle" /\ up /\ pc' = [pc EXCEPT ![e] = "waiting"]
         \/ pc[e] = "waiting" /\ pc' = [pc EXCEPT ![e] = "raised"]
  BY DEF Call, CancelWaiting, diskVars
<1>2. /\ \A d \in Events : d # e => pc'[d] = pc[d]
      /\ pc[e] # "writing" /\ pc'[e] \in {"waiting", "raised"}
      /\ pc'[e] = "waiting" => up
  BY <1>1 DEF FileTypes
<1>3. Raised \subseteq Raised'
  BY <1>1, <1>2 DEF Raised
<1>4. \A at : Sound(file, Raised, at) => Sound(file', Raised', at)
  BY <1>1, <1>3, SoundMore
<1>5. WriterInv'
  <2>. SUFFICES ASSUME NEW d \in Events
       PROVE  /\ pc'[d] = "waiting" => up'
              /\ thread'[d] \in {"queued", "checked"} \cup Parts => pc'[d] = "writing"
              /\ pc'[d] = "writing" =>
                    /\ up'
                    /\ signed'[d] = previous'
                    /\ Sound(file', Raised', thread'[d])
                    /\ Ends(file', thread'[d], d, previous')
    BY DEF WriterInv
  <2>1. CASE d = e
    BY <1>1, <1>2, <2>1 DEF JournalInv, WriterInv
  <2>2. CASE d # e
    BY <1>1, <1>2, <1>4, <2>2 DEF JournalInv, WriterInv
  <2>. QED
    BY <2>1, <2>2
<1>6. QuietInv'
  BY <1>1, <1>2, <1>4 DEF JournalInv, QuietInv, Quiet
<1>7. ClosedInv'
  <2>1. \A d \in Events : pc'[d] = "returned" => pc[d] = "returned"
    BY <1>2
  <2>2. \A k \in 1..Len(file) : file[k].event \in Events
    BY PieceEvents
  <2>. QED
    BY <1>1, <2>1, <2>2 DEF JournalInv, ClosedInv
<1>. QED
  BY <1>5, <1>6, <1>7 DEF JournalInv

LEMMA JournalAtSign ==
  ASSUME FileTypes, JournalInv, NEW e \in Events, Sign(e)
  PROVE  JournalInv'
<1>1. /\ UNCHANGED <<file, durable, up, previous>>
      /\ pc[e] = "waiting" /\ pc' = [pc EXCEPT ![e] = "writing"] /\ holder = None
      /\ signed' = [signed EXCEPT ![e] = previous] /\ thread' = [thread EXCEPT ![e] = "queued"]
  BY DEF Sign, diskVars
<1>2. /\ \A d \in Events : d # e => pc'[d] = pc[d] /\ thread'[d] = thread[d]
      /\ pc'[e] = "writing" /\ thread'[e] = "queued" /\ signed'[e] = previous
  BY <1>1 DEF FileTypes
<1>3. Raised = Raised'
  BY <1>1, <1>2 DEF Raised
<1>4. Quiet /\ up
  BY <1>1, FileAssumption DEF FileTypes, Quiet, JournalInv, WriterInv, FileAssumption
<1>5. Sound(file, Raised, "none") /\ Ends(file, "none", None, previous)
  BY <1>4 DEF JournalInv, QuietInv
<1>6. Sound(file, Raised, "queued")
  BY <1>5 DEF Sound, OpenIn, Left
<1>7. Ends(file, "queued", e, previous)
  BY <1>5 DEF Ends
<1>8. \A d \in Events : d # e =>
         pc'[d] # "writing" /\ thread'[d] \notin {"queued", "checked"} \cup Parts
  BY <1>2, <1>4 DEF Quiet, JournalInv, WriterInv
<1>9. WriterInv'
  BY <1>1, <1>2, <1>3, <1>4, <1>6, <1>7, <1>8 DEF WriterInv
<1>10. QuietInv'
  BY <1>2 DEF QuietInv, Quiet
<1>11. ClosedInv'
  <2>1. \A d \in Events : /\ pc'[d] = "returned" => pc[d] = "returned"
                          /\ thread'[d] = "done" => thread[d] = "done"
    BY <1>2
  <2>2. \A k \in 1..Len(file) : file[k].event \in Events
    BY PieceEvents
  <2>. QED
    BY <1>1, <2>1, <2>2 DEF JournalInv, ClosedInv
<1>. QED
  BY <1>9, <1>10, <1>11 DEF JournalInv

\* A line is three pieces.
LEMMA ThreeParts == Cardinality(Parts) = 3
<1>1. Cardinality({"head"}) = 1 /\ IsFiniteSet({"head"})
  BY FS_Singleton
<1>2. Cardinality({"head"} \cup {"rest"}) = 2 /\ IsFiniteSet({"head"} \cup {"rest"})
  BY <1>1, FS_AddElement
<1>3. Cardinality(({"head"} \cup {"rest"}) \cup {"newline"}) = 3
  BY <1>2, FS_AddElement
<1>4. Parts = ({"head"} \cup {"rest"}) \cup {"newline"}
  BY DEF Parts
<1>. QED
  BY <1>3, <1>4

\* A stage that writes nothing.
LEMMA JournalAtCheck ==
  ASSUME ~WriteFailures, FileTypes, JournalInv, NEW e \in Events, CheckSize(e) \/ WriteFails(e)
  PROVE  JournalInv'
<1>1. PICK at \in {"checked", "failed"} :
         /\ UNCHANGED <<file, durable, up, previous, pc, signed>>
         /\ thread[e] \in {"queued", "checked"} /\ thread' = [thread EXCEPT ![e] = at]
         /\ at = "checked" => Len(file) + Left("checked") <= MaxSize
  <2>1. CASE CheckSize(e)
    <3>1. Len(file) \in Nat /\ MaxSize \in Nat /\ Left("checked") = 3
      BY FileAssumption DEF FileTypes, FileAssumption, Left
    <3>2. ~(Len(file) + Cardinality(Parts) > MaxSize) => Len(file) + Left("checked") <= MaxSize
      BY <3>1, ThreeParts
    <3>. QED
      BY <2>1, <3>2 DEF CheckSize, diskVars
  <2>2. CASE WriteFails(e)
    BY <2>2 DEF WriteFails, diskVars
  <2>. QED
    BY <2>1, <2>2
<1>2. /\ pc[e] = "writing" /\ Sound(file, Raised, thread[e])
      /\ Ends(file, thread[e], e, previous)
  BY <1>1 DEF JournalInv, WriterInv
<1>3. Sound(file, Raised, at)
  <2>1. Len(file) + Left(at) <= MaxSize
    <3>1. CASE at = "checked"
      BY <1>1, <3>1
    <3>2. CASE at = "failed"
      <4>1. Len(file) \in Nat /\ MaxSize \in Nat /\ Left(at) = 0 /\ Left(thread[e]) \in Nat
        BY <3>2, FileAssumption DEF FileTypes, FileAssumption, Left
      <4>2. Len(file) + Left(thread[e]) <= MaxSize
        BY <1>2 DEF Sound
      <4>. QED
        BY <4>1, <4>2
    <3>. QED
      BY <3>1, <3>2
  <2>2. thread[e] # "rest"
    BY <1>1
  <2>. QED
    BY <1>2, <2>1, <2>2 DEF Sound, OpenIn
<1>4. Ends(file, at, e, previous)
  BY <1>1, <1>2 DEF Ends
<1>5. WriterInv' /\ QuietInv'
  <2>1. Sound(file', Raised, at) /\ Ends(file', at, e, previous)
    BY <1>1, <1>3, <1>4
  <2>. QED
    BY <1>1, <1>2, <2>1, WriterStep DEF JournalInv
<1>6. ClosedInv'
  <2>1. \A d \in Events : thread'[d] = "done" => thread[d] = "done"
    BY <1>1 DEF FileTypes
  <2>2. \A k \in 1..Len(file) : file[k].event \in Events
    BY PieceEvents
  <2>. QED
    BY <1>1, <2>1, <2>2 DEF JournalInv, ClosedInv
<1>. QED
  BY <1>5, <1>6 DEF JournalInv

LEMMA JournalAtSync ==
  ASSUME FileTypes, JournalInv, NEW e \in Events, Sync(e)
  PROVE  JournalInv'
<1>1. /\ UNCHANGED <<file, up, previous, pc, signed>> /\ durable' = Len(file)
      /\ thread[e] = "newline" /\ thread' = [thread EXCEPT ![e] = "done"]
  BY DEF Sync
<1>2. /\ pc[e] = "writing" /\ Sound(file, Raised, "newline")
      /\ Ends(file, "newline", e, previous)
  BY <1>1 DEF JournalInv, WriterInv, Parts
<1>3. Sound(file, Raised, "done")
  BY <1>2 DEF Sound, OpenIn, Left
<1>4. Ends(file, "done", e, previous)
  BY <1>2 DEF Ends
<1>5. WriterInv' /\ QuietInv'
  <2>1. Sound(file', Raised, "done") /\ Ends(file', "done", e, previous)
    BY <1>1, <1>3, <1>4
  <2>. QED
    BY <1>1, <1>2, <2>1, WriterStep DEF JournalInv
<1>6. ClosedInv'
  <2>1. Len(file) \in Nat /\ file[Len(file)].part = "newline"
    BY <1>2 DEF FileTypes, Ends
  <2>2. \A k \in 1..Len(file) : file[k].part = "rest" => k + 1 <= Len(file)
    BY <2>1
  <2>. QED
    BY <1>1, <2>2 DEF ClosedInv
<1>. QED
  BY <1>5, <1>6 DEF JournalInv


\* The pieces that a thread writes keep what holds of the file.
LEMMA SoundWhenWritten ==
  ASSUME FileTypes, JournalInv, NEW e \in Events, WriteLine(e) \/ WritePiece(e)
  PROVE  \E at \in Parts :
            /\ thread' = [thread EXCEPT ![e] = at]
            /\ UNCHANGED <<durable, up, previous, pc, signed>>
            /\ pc[e] = "writing"
            /\ Sound(file', Raised, at) /\ Ends(file', at, e, previous)
<1>1. thread[e] \in {"checked"} \cup Parts /\ file \in Seq(Pieces)
  BY DEF WriteLine, WritePiece, Following, Parts, FileTypes
<1>2. /\ pc[e] = "writing" /\ signed[e] = previous
      /\ Sound(file, Raised, thread[e]) /\ Ends(file, thread[e], e, previous)
  BY <1>1 DEF JournalInv, WriterInv
<1>3. \A p \in Parts :
         /\ Piece(e, p) \in Pieces /\ Piece(e, p).event = e /\ Piece(e, p).part = p
         /\ Piece(e, p).previous = previous
  BY <1>2 DEF Piece, Pieces, FileTypes
<1>4. CASE WriteLine(e)
  <2>. DEFINE h == Piece(e, "head")
              r == Piece(e, "rest")
              l == Piece(e, "newline")
              a == Append(file, h)
              b == Append(a, r)
              c == Append(b, l)
  <2>1. /\ h \in Pieces /\ h.event = e /\ h.previous = previous /\ h.part = "head"
        /\ r \in Pieces /\ r.event = e /\ r.previous = previous /\ r.part = "rest"
        /\ l \in Pieces /\ l.event = e /\ l.previous = previous /\ l.part = "newline"
    BY <1>3 DEF Parts
  <2>2. /\ thread[e] = "checked" /\ file' = file \o <<h, r, l>>
        /\ thread' = [thread EXCEPT ![e] = "newline"]
        /\ UNCHANGED <<durable, up, previous, pc, signed>>
    BY <1>4 DEF WriteLine
  <2>. HIDE DEF h, r, l
  <2>3. Sound(a, Raised, "head") /\ Ends(a, "head", e, previous) /\ a \in Seq(Pieces)
    <3>1. Sound(file, Raised, "checked") /\ Ends(file, "checked", e, previous)
      BY <1>2, <2>2
    <3>2. Sound(a, Raised, h.part) /\ Ends(a, h.part, e, previous)
      BY <1>1, <2>1, <3>1, SoundWithOneMore
    <3>. QED
      BY <1>1, <2>1, <3>2, AppendProperties
  <2>4. Sound(b, Raised, "rest") /\ Ends(b, "rest", e, previous) /\ b \in Seq(Pieces)
    <3>. HIDE DEF a
    <3>1. Sound(b, Raised, r.part) /\ Ends(b, r.part, e, previous)
      BY <2>1, <2>3, SoundWithOneMore
    <3>. QED
      BY <2>1, <2>3, <3>1, AppendProperties
  <2>5. Sound(c, Raised, "newline") /\ Ends(c, "newline", e, previous)
    <3>. HIDE DEF b
    <3>1. Sound(c, Raised, l.part) /\ Ends(c, l.part, e, previous)
      BY <2>1, <2>4, SoundWithOneMore
    <3>. QED
      BY <2>1, <3>1
  <2>6. file' = c
    BY <1>1, <2>1, <2>2, ThreeMore
  <2>. HIDE DEF c
  <2>7. "newline" \in Parts
    BY DEF Parts
  <2>. QED
    BY <1>2, <2>2, <2>5, <2>6, <2>7
<1>5. CASE WritePiece(e)
  <2>1. PICK p \in Parts :
          /\ \/ thread[e] = "checked" /\ p = "head"
             \/ thread[e] = "head" /\ p = "rest"
             \/ thread[e] = "rest" /\ p = "newline"
          /\ file' = Append(file, Piece(e, p)) /\ thread' = [thread EXCEPT ![e] = p]
          /\ UNCHANGED <<durable, up, previous, pc, signed>>
    <3>1. thread[e] \in {"checked", "head", "rest"}
      BY <1>5 DEF WritePiece, Following
    <3>2. /\ Following["checked"] = "head" /\ Following["head"] = "rest"
          /\ Following["rest"] = "newline"
      BY DEF Following
    <3>3. Following[thread[e]] \in Parts
      BY <3>1, <3>2 DEF Parts
    <3>. QED
      BY <1>5, <3>1, <3>2, <3>3 DEF WritePiece
  <2>. DEFINE x == Piece(e, p)
  <2>2. x \in Pieces /\ x.event = e /\ x.previous = previous /\ x.part = p
    BY <1>3
  <2>. HIDE DEF x
  <2>3. \/ thread[e] = "checked" /\ x.part = "head"
        \/ thread[e] = "head" /\ x.part = "rest"
        \/ thread[e] = "rest" /\ x.part = "newline"
    BY <2>1, <2>2
  <2>4. Sound(Append(file, x), Raised, x.part) /\ Ends(Append(file, x), x.part, e, previous)
    BY <1>1, <1>2, <2>2, <2>3, SoundWithOneMore
  <2>5. file' = Append(file, x)
    BY <2>1 DEF x
  <2>. QED
    BY <1>2, <2>1, <2>2, <2>4, <2>5
<1>. QED
  BY <1>4, <1>5

LEMMA JournalAtWrite ==
  ASSUME FileTypes, JournalInv, NEW e \in Events, WriteLine(e) \/ WritePiece(e)
  PROVE  JournalInv'
<1>1. PICK at \in Parts :
         /\ thread' = [thread EXCEPT ![e] = at]
         /\ UNCHANGED <<durable, up, previous, pc, signed>>
         /\ pc[e] = "writing"
         /\ Sound(file', Raised, at) /\ Ends(file', at, e, previous)
  BY SoundWhenWritten
<1>2. WriterInv' /\ QuietInv'
  BY <1>1, WriterStep DEF JournalInv
<1>3. ClosedInv'
  <2>1. PICK Q \in SUBSET Parts : Grows(file, file', e, Q)
    BY WritesHow DEF Writes
  <2>2. at # "done" /\ thread'[e] = at /\ \A d \in Events : d # e => thread'[d] = thread[d]
    BY <1>1 DEF FileTypes, Parts
  <2>. SUFFICES ASSUME NEW k \in 1..Len(file'), file'[k].part = "rest",
                       pc[file'[k].event] = "returned" \/ thread'[file'[k].event] = "done"
       PROVE  k + 1 <= durable
    BY <1>1 DEF ClosedInv
  <2>3. file'[k].event # e
    BY <1>1, <2>2
  <2>4. k \in 1..Len(file) /\ file'[k] = file[k]
    BY <2>1, <2>3 DEF Grows
  <2>5. file[k].event \in Events
    BY <2>4, PieceEvents
  <2>. QED
    BY <2>2, <2>3, <2>4, <2>5 DEF JournalInv, ClosedInv
<1>. QED
  BY <1>2, <1>3 DEF JournalInv

LEMMA JournalAtReturn ==
  ASSUME FileTypes, JournalInv, NEW e \in Events, Return(e) \/ Raise(e)
  PROVE  JournalInv'
<1>1. /\ UNCHANGED <<file, durable, up, signed, thread>> /\ pc[e] = "writing"
      /\ \/ thread[e] = "done" /\ pc' = [pc EXCEPT ![e] = "returned"]
            /\ previous' = Append(signed[e], e)
         \/ thread[e] = "failed" /\ pc' = [pc EXCEPT ![e] = "raised"] /\ UNCHANGED previous
  BY DEF Return, Raise, diskVars
<1>2. /\ signed[e] = previous /\ Sound(file, Raised, thread[e])
      /\ Ends(file, thread[e], e, previous) /\ up
  BY <1>1 DEF JournalInv, WriterInv
<1>3. /\ \A d \in Events : d # e => pc'[d] = pc[d]
      /\ pc'[e] = IF thread[e] = "done" THEN "returned" ELSE "raised"
  BY <1>1 DEF FileTypes
<1>4. \A d \in Events : d # e => pc[d] # "writing"
  BY <1>1, OneWriter
<1>5. Sound(file', Raised', "none")
  <2>1. Raised \subseteq Raised'
    BY <1>1, <1>3 DEF Raised
  <2>2. Sound(file, Raised, "none")
    BY <1>1, <1>2 DEF Sound, OpenIn, Left
  <2>. QED
    BY <1>1, <2>1, <2>2, SoundMore
<1>6. Ends(file', "none", None, previous')
  <2>1. previous' = IF thread[e] = "done" THEN Append(previous, e) ELSE previous
    BY <1>1, <1>2
  <2>2. thread[e] \in {"done", "failed"}
    BY <1>1
  <2>. QED
    BY <1>1, <1>2, <2>1, <2>2 DEF Ends
<1>7. \A d \in Events : /\ pc'[d] # "writing"
                        /\ pc'[d] = "waiting" => up'
                        /\ thread'[d] \notin {"queued", "checked"} \cup Parts
  <2>. SUFFICES ASSUME NEW d \in Events
       PROVE  /\ pc'[d] # "writing"
              /\ pc'[d] = "waiting" => up'
              /\ thread'[d] \notin {"queued", "checked"} \cup Parts
    OBVIOUS
  <2>1. CASE d = e
    BY <1>1, <1>3, <2>1 DEF Parts
  <2>2. CASE d # e
    BY <1>1, <1>2, <1>3, <1>4, <2>2 DEF JournalInv, WriterInv
  <2>. QED
    BY <2>1, <2>2
<1>8. WriterInv' /\ QuietInv'
  BY <1>5, <1>6, <1>7, QuietStep
<1>9. ClosedInv'
  <2>1. \A d \in Events : pc'[d] = "returned" => pc[d] = "returned" \/ thread[d] = "done"
    BY <1>1, <1>3
  <2>. QED
    BY <1>1, <2>1, PieceEvents DEF JournalInv, ClosedInv
<1>. QED
  BY <1>8, <1>9 DEF JournalInv


\* Whoever writes, the file is sound at some stage.
LEMMA SoundAtSomeStage ==
  ASSUME JournalInv PROVE \E at : Sound(file, Raised, at)
<1>1. CASE Quiet
  BY <1>1 DEF JournalInv, QuietInv
<1>2. CASE ~Quiet
  BY <1>2 DEF Quiet, JournalInv, WriterInv
<1>. QED
  BY <1>1, <1>2

\* A crash interrupts every append that has not ended, and leaves the newline of those
\* that were acknowledged.
LEMMA JournalAtCrash ==
  ASSUME FileTypes, WrittenInv, JournalInv, NEW kept \in durable..Len(file), Crash(kept)
  PROVE  JournalInv'
<1>1. /\ file' = SubSeq(file, 1, kept) /\ ~up' /\ UNCHANGED <<durable, previous, signed>>
      /\ pc' = [e \in Events |-> IF pc[e] \in {"idle"} \cup Ended THEN pc[e] ELSE "raised"]
      /\ thread' = [e \in Events |-> "none"]
  BY DEF Crash
<1>2. /\ kept \in Nat /\ Len(file) \in Nat /\ kept <= Len(file) /\ durable <= kept
      /\ file' \in Seq(Pieces) /\ Len(file') = kept /\ \A k \in 1..kept : file'[k] = file[k]
  BY <1>1, FirstPieces
<1>3. \A d \in Events : /\ pc'[d] \in {"idle", "raised"} \/ pc[d] = "returned"
                        /\ pc'[d] = "idle" => pc[d] = "idle"
                        /\ pc'[d] = "returned" => pc[d] = "returned"
                        /\ pc[d] = "raised" => pc'[d] = "raised"
                        /\ pc[d] = "returned" => pc'[d] = "returned"
                        /\ thread'[d] = "none"
  BY <1>1 DEF Ended
<1>4. PICK at : Sound(file, Raised, at)
  BY SoundAtSomeStage
<1>5. Raised \subseteq Raised'
  BY <1>3 DEF Raised
<1>6. ASSUME NEW k \in 1..kept, file[k].part = "rest"
      PROVE  file[k].event \in Raised' \/ (k + 1 <= kept /\ file[k + 1].part = "newline")
  <2>. DEFINE e == file[k].event
  <2>1. k \in 1..Len(file)
    BY <1>2
  <2>2. e \in Events
    BY <2>1, PieceEvents
  <2>3. Wrote(e, "rest", Len(file))
    BY <1>6, <2>1 DEF Wrote
  <2>4. pc[e] # "idle"
    BY <2>2, <2>3 DEF WrittenInv
  <2>5. CASE pc[e] = "returned"
    <3>1. k + 1 <= durable /\ durable \in Nat
      BY <1>6, <2>1, <2>5 DEF JournalInv, ClosedInv, FileTypes
    <3>2. k + 1 <= kept /\ k # Len(file)
      BY <1>2, <3>1
    <3>3. e \notin Raised
      BY <2>5 DEF Raised
    <3>4. file[k + 1].part = "newline"
      BY <1>4, <1>6, <2>1, <3>2, <3>3 DEF Sound, OpenIn
    <3>. QED
      BY <3>2, <3>4
  <2>6. CASE pc[e] # "returned"
    <3>1. pc'[e] = "raised"
      BY <1>3, <2>2, <2>4, <2>6
    <3>. QED
      BY <2>2, <3>1 DEF Raised
  <2>. QED
    BY <2>5, <2>6
<1>7. Sound(file', Raised', "none")
  <2>1. file \in Seq(Pieces) /\ kept \in 0..Len(file)
    BY <1>2 DEF FileTypes
  <2>. QED
    BY <1>1, <1>2, <1>4, <1>5, <1>6, <2>1, SoundFirst
<1>8. WriterInv' /\ QuietInv'
  <2>1. \A d \in Events : /\ pc'[d] # "writing" /\ pc'[d] # "waiting"
                          /\ thread'[d] \notin {"queued", "checked"} \cup Parts
    BY <1>3 DEF Parts
  <2>. QED
    BY <1>1, <1>7, <2>1, QuietStep
<1>9. ClosedInv'
  <2>. SUFFICES ASSUME NEW k \in 1..Len(file'), file'[k].part = "rest",
                       pc'[file'[k].event] = "returned" \/ thread'[file'[k].event] = "done"
       PROVE  k + 1 <= durable
    BY <1>1 DEF ClosedInv
  <2>1. k \in 1..Len(file) /\ file'[k] = file[k]
    BY <1>2
  <2>2. file[k].event \in Events
    BY <2>1, PieceEvents
  <2>. QED
    BY <1>3, <2>1, <2>2 DEF JournalInv, ClosedInv
<1>. QED
  BY <1>8, <1>9 DEF JournalInv

\* A file that resume reads has no torn line, and the trail continues its last event.
LEMMA JournalAtResume ==
  ASSUME FileTypes, JournalInv, Resume
  PROVE  JournalInv'
<1>1. /\ UNCHANGED <<file, durable, holder, pc, signed, thread>>
      /\ ~up /\ up' /\ previous' = LastSignature(file) /\ Readable(file)
  BY DEF Resume, diskVars
<1>2. Raised' = Raised /\ Quiet
  BY <1>1 DEF Raised, Quiet, JournalInv, WriterInv
<1>3. Sound(file', Raised', "none")
  BY <1>1, <1>2 DEF JournalInv, QuietInv
<1>4. Ends(file', "none", None, previous')
  <2>1. Len(file) \in Nat
    BY DEF FileTypes
  <2>2. Len(file) > 0 => file[Len(file)].part # "head"
    <3>. SUFFICES ASSUME Len(file) > 0, file[Len(file)].part = "head" PROVE FALSE
      OBVIOUS
    <3>1. Len(file) \in DOMAIN file
      BY <2>1 DEF FileTypes
    <3>. QED
      BY <1>1, <2>1, <3>1 DEF Readable
  <2>. QED
    BY <1>1, <2>2 DEF Ends
<1>5. WriterInv' /\ QuietInv'
  <2>1. \A d \in Events : /\ pc'[d] # "writing"
                          /\ thread'[d] \notin {"queued", "checked"} \cup Parts
    BY <1>1, <1>2 DEF Quiet, JournalInv, WriterInv
  <2>. QED
    BY <1>1, <1>3, <1>4, <2>1, QuietStep
<1>6. ClosedInv'
  BY <1>1 DEF JournalInv, ClosedInv
<1>. QED
  BY <1>5, <1>6 DEF JournalInv

LEMMA JournalStep ==
  ASSUME ~WriteFailures, ~CancelWrites
  PROVE  FileTypes /\ WrittenInv /\ JournalInv /\ [Next]_fileVars => JournalInv'
<1>. SUFFICES ASSUME FileTypes, WrittenInv, JournalInv, [Next]_fileVars PROVE JournalInv'
  OBVIOUS
<1>1. CASE UNCHANGED fileVars
  <2>1. UNCHANGED <<file, durable, up, previous, pc, signed, thread>>
    BY <1>1 DEF fileVars, diskVars
  <2>2. Raised' = Raised /\ Quiet' = Quiet
    BY <2>1 DEF Raised, Quiet
  <2>. QED
    BY <2>1, <2>2 DEF JournalInv, WriterInv, QuietInv, ClosedInv
<1>2. ASSUME NEW e \in Events, CancelWriting(e) PROVE FALSE
  BY <1>2 DEF CancelWriting
<1>. QED
  BY <1>1, <1>2, JournalAtCall, JournalAtSign, JournalAtCheck, JournalAtSync, JournalAtWrite,
     JournalAtReturn, JournalAtCrash, JournalAtResume DEF Next, Work

LEMMA JournalStart == Init => FileTypes /\ JournalInv
<1>. SUFFICES ASSUME Init PROVE JournalInv
  BY FileTypesStart
<1>1. /\ file = <<>> /\ Len(file) = 0 /\ previous = <<>>
      /\ \A e \in Events : pc[e] = "idle" /\ thread[e] = "none"
  BY EmptySeq DEF Init
<1>2. Lines(<<>>) = <<>> /\ LastSignature(<<>>) = <<>>
  BY LinesOfNone DEF LastSignature
<1>3. Chained(file)
  BY <1>1, <1>2, EmptySeq DEF Chained
<1>4. Sound(file, Raised, "none")
  BY <1>1, <1>3, FileAssumption DEF Sound, Shape, JoinedTo, OpenIn, Left, FileAssumption
<1>5. Ends(file, "none", None, previous)
  BY <1>1, <1>2 DEF Ends
<1>6. WriterInv /\ QuietInv
  BY <1>1, <1>4, <1>5 DEF WriterInv, QuietInv, Parts
<1>7. ClosedInv
  BY <1>1 DEF ClosedInv
<1>. QED
  BY <1>6, <1>7 DEF JournalInv

\* A file is readable unless its last line is torn or lines were joined.
LEMMA ReadableUnless ==
  ASSUME NEW f \in Seq(Pieces), Shape(f),
         Len(f) > 0 => f[Len(f)].part # "head",
         \A k \in 1..Len(f) : k > 1 /\ f[k].part = "head" => f[k - 1].part # "rest"
  PROVE  Readable(f)
<1>. DEFINE n == Len(f)
<1>1. n \in Nat /\ DOMAIN f = 1..n /\ \A k \in 1..n : f[k].part \in Parts
  <2>1. \A x \in Pieces : x.part \in Parts
    BY DEF Pieces
  <2>2. \A k \in 1..n : f[k] \in Pieces
    OBVIOUS
  <2>. QED
    BY <2>1, <2>2
<1>2. \A k \in 1..n :
        /\ f[k].part = "head" =>
              k = n \/ (f[k + 1].part = "rest" /\ f[k + 1].event = f[k].event)
        /\ f[k].part = "rest" => k > 1 /\ f[k - 1].part = "head"
        /\ f[k].part = "newline" => k > 1 /\ f[k - 1].part = "rest"
  BY DEF Shape
<1>3. n > 0 => f[n].part # "head"
  OBVIOUS
<1>. HIDE DEF n
<1>4. ASSUME NEW k \in 1..n, f[k].part = "head"
      PROVE  /\ k > 1 => f[k - 1].part = "newline"
             /\ k < n /\ f[k + 1].part = "rest" /\ f[k + 1].event = f[k].event
  <2>1. k # n /\ k < n
    BY <1>1, <1>3, <1>4
  <2>2. k > 1 => k - 1 \in 1..n /\ (k - 1) + 1 = k /\ k - 1 # n
    BY <1>1, <2>1
  <2>3. k > 1 => f[k - 1].part # "rest"
    BY <1>4 DEF n
  <2>4. k > 1 => f[k - 1].part # "head"
    BY <1>2, <1>4, <2>2
  <2>. QED
    BY <1>1, <1>2, <1>4, <2>1, <2>2, <2>3, <2>4 DEF Parts
<1>5. ASSUME NEW k \in 1..n, f[k].part = "rest"
      PROVE  k > 1 /\ f[k - 1].part = "head" /\ (k < n => f[k + 1].part = "newline")
  <2>1. k < n => k + 1 \in 1..n /\ (k + 1) - 1 = k /\ k + 1 > 1
    BY <1>1
  <2>2. k < n => f[k + 1].part # "head"
    BY <1>5, <2>1 DEF n
  <2>3. k < n => f[k + 1].part # "rest"
    BY <1>2, <1>5, <2>1
  <2>. QED
    BY <1>1, <1>2, <1>5, <2>1, <2>2, <2>3 DEF Parts
<1>. QED
  BY <1>1, <1>4, <1>5 DEF Readable, n

\* When writes do not fail and appends are not cancelled while they write, the journal
\* always passes the tests of resume on its size and chain, whatever crashed; it is
\* unreadable only if its last line is torn or lines were joined, and a line is joined
\* only to one whose append a crash interrupted; and a trail that is not writing has a
\* file without a torn line and continues its last event (JournalContinues).
THEOREM JournalStays ==
  ASSUME ~WriteFailures, ~CancelWrites
  PROVE  Spec => []JournalContinues
<1>1. FileTypes /\ JournalInv => JournalContinues
  <2>. SUFFICES ASSUME FileTypes, JournalInv PROVE JournalContinues
    OBVIOUS
  <2>1. PICK at : Sound(file, Raised, at)
    BY SoundAtSomeStage
  <2>2. file \in Seq(Pieces) /\ Len(file) \in Nat /\ DOMAIN file = 1..Len(file)
    BY DEF FileTypes
  <2>3. JournalVerifies
    BY <2>1 DEF Sound, JournalVerifies
  <2>4. Len(file) <= MaxSize
    <3>1. Len(file) + Left(at) <= MaxSize /\ Left(at) \in Nat /\ MaxSize \in Nat
      BY <2>1, FileAssumption DEF Sound, Left, FileAssumption
    <3>. QED
      BY <2>2, <3>1
  <2>5. Readable(file) \/ Torn \/ Joined # {}
    <3>. SUFFICES ASSUME ~Torn, Joined = {} PROVE Readable(file)
      OBVIOUS
    <3>1. Len(file) > 0 => file[Len(file)].part # "head"
      BY <2>2, EmptySeq DEF Torn, Last
    <3>2. \A k \in 1..Len(file) : k > 1 /\ file[k].part = "head" => file[k - 1].part # "rest"
      BY <2>2 DEF Joined
    <3>. QED
      BY <2>1, <2>2, <3>1, <3>2, ReadableUnless DEF Sound
  <2>6. \A k \in Joined : pc[file[k - 1].event] = "raised"
    BY <2>1, <2>2 DEF Sound, JoinedTo, Joined, Raised
  <2>7. up /\ Quiet => ~Torn /\ previous = LastSignature(file)
    <3>. SUFFICES ASSUME up, Quiet PROVE ~Torn /\ previous = LastSignature(file)
      OBVIOUS
    <3>1. Ends(file, "none", None, previous)
      BY DEF JournalInv, QuietInv
    <3>2. file # <<>> => Len(file) > 0
      BY <2>2, EmptySeq
    <3>. QED
      BY <3>1, <3>2 DEF Ends, Torn, Last
  <2>. QED
    BY <2>3, <2>4, <2>5, <2>6, <2>7 DEF JournalContinues, Quiet
<1>2. FileTypes /\ WrittenInv /\ JournalInv /\ [Next]_fileVars => JournalInv'
  BY JournalStep
<1>. QED
  BY <1>1, <1>2, JournalStart, WrittenHolds, PTL DEF Spec
=============================================================================
