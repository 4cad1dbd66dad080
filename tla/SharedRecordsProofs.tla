------------------------- MODULE SharedRecordsProofs -------------------------
(***************************************************************************)
(* Theorems about SharedRecords, for any number of workers, records,        *)
(* transitions and crashes.                                                 *)
(*                                                                          *)
(* The first part is about records alone: what register(), update() and     *)
(* deprecate() build is sound if what they started from is.  The second     *)
(* carries that over to files: whatever a handler holds may become the      *)
(* text of a file at any later time, so it has to be sound as well.         *)
(***************************************************************************)
EXTENDS SharedRecords, TLAPS

-----------------------------------------------------------------------------
(* Records                                                                  *)

\* The transition that Extended appends.
Entry(rec, id, action) == [id |-> id, version |-> rec.version + 1, action |-> action]

\* A sound record whose text is at least as long as its payload.
WellBuilt(rec) == Sound(rec) /\ rec.size >= rec.payload.len

\* register() builds a sound record of the right type.
LEMMA RegisteredFact ==
  ASSUME NEW id \in Nat, NEW x \in Payload
  PROVE  /\ Registered(id, x) \in SharedRecord
         /\ WellBuilt(Registered(id, x))
         /\ Newest(Registered(id, x)).id = id
  <1> DEFINE t == [id |-> id, version |-> 1, action |-> "REGISTERED"]
             new == Registered(id, x)
  <1>1. x.len \in Nat
    BY LensAssumption DEF Payload
  <1>2. t \in SharedRecordTransition
    BY DEF SharedRecordTransition
  <1>3. /\ new.payload = x /\ new.version = 1 /\ new.deprecated = FALSE
        /\ new.history = <<t>> /\ new.size = x.len + 1
    BY DEF Registered
  <1>4. new \in SharedRecord
    <2>1. <<t>> \in Seq(SharedRecordTransition)
      BY <1>2
    <2> HIDE DEF t
    <2>2. x.len + 1 \in Nat
      BY <1>1
    <2> QED
      BY <2>1, <2>2 DEF Registered, SharedRecord, t
  <1>5. Len(new.history) = 1 /\ new.history[1] = t
    BY <1>3
  <1>6. t.id = id /\ t.version = 1 /\ t.action = "REGISTERED"
    OBVIOUS
  <1> HIDE DEF t, new
  <1>7. new.history # <<>>
    BY <1>3
  <1>8. Sound(new)
    <2>1. ~(\E i \in 1..Len(new.history) : new.history[i].action = "DEPRECATED")
      BY <1>5, <1>6
    <2>2. new.deprecated = (\E i \in 1..Len(new.history) : new.history[i].action = "DEPRECATED")
      BY <1>3, <2>1, Zenon
    <2>3. /\ \A i \in 1..Len(new.history) : new.history[i].version = i
          /\ new.version = Len(new.history)
      BY <1>3, <1>5, <1>6
    <2>4. /\ \A i \in 1..Len(new.history) :
               /\ new.history[i].action = "REGISTERED" <=> i = 1
               /\ new.history[i].action = "DEPRECATED" => i = Len(new.history)
          /\ \A i \in 2..Len(new.history) : new.history[i - 1].id < new.history[i].id
      BY <1>5, <1>6
    <2>5. ReplayConsistent(new)
      BY <2>2, <2>3, Zenon DEF ReplayConsistent
    <2> QED
      BY <1>7, <2>4, <2>5, Zenon DEF Sound
  <1>9. new.size >= new.payload.len
    BY <1>1, <1>3
  <1> QED
    BY <1>4, <1>5, <1>6, <1>8, <1>9 DEF WellBuilt, Newest, new

\* One more transition on a record that is not deprecated.
LEMMA AppendedFact ==
  ASSUME NEW rec \in SharedRecord, NEW id \in Nat, NEW action \in {"UPDATED", "DEPRECATED"},
         Sound(rec), ~rec.deprecated, Newest(rec).id < id, NEW new \in SharedRecord,
         new.history = Append(rec.history, Entry(rec, id, action)),
         new.version = rec.version + 1,
         new.deprecated <=> action = "DEPRECATED"
  PROVE  /\ Sound(new)
         /\ Newest(new).id = id
         /\ Recorded(rec) \subseteq Recorded(new)
  <1> DEFINE h == rec.history
             t == Entry(rec, id, action)
             g == Append(h, t)
             n == Len(h)
  <1>1. h \in Seq(SharedRecordTransition) /\ rec.version \in Nat
    BY DEF SharedRecord
  <1>2. n \in Nat /\ n # 0 /\ Len(g) = n + 1 /\ g[n + 1] = t /\ g # <<>>
    BY <1>1 DEF Sound
  <1>3. \A i \in 1..n : g[i] = h[i]
    BY <1>1
  <1>4. t.id = id /\ t.version = rec.version + 1 /\ t.action = action
    BY DEF Entry
  <1>5. rec.version = n /\ \A i \in 1..n : h[i].version = i
    BY DEF Sound, ReplayConsistent
  <1>6. \A i \in 1..n : h[i].action # "DEPRECATED"
    BY DEF Sound, ReplayConsistent
  <1>7. \A i \in 1..n : h[i].action = "REGISTERED" <=> i = 1
    BY DEF Sound
  <1>8. \A i \in 2..n : h[i - 1].id < h[i].id
    BY DEF Sound
  <1>9. h[n].id < id
    BY DEF Newest
  <1>10. new.history = g
    OBVIOUS
  <1> HIDE DEF h, t, g, n
  <1>11. ReplayConsistent(new)
    <2>1. \A i \in 1..(n + 1) : g[i].version = i
      BY <1>2, <1>3, <1>4, <1>5
    <2>2. new.version = n + 1
      BY <1>5
    <2>3. (\E i \in 1..(n + 1) : g[i].action = "DEPRECATED") <=> action = "DEPRECATED"
      <3>1. ASSUME NEW i \in 1..(n + 1), g[i].action = "DEPRECATED"
            PROVE  action = "DEPRECATED"
        BY <1>2, <1>3, <1>4, <1>6, <3>1
      <3>2. n + 1 \in 1..(n + 1) /\ g[n + 1].action = action
        BY <1>2, <1>4
      <3> QED
        BY <3>1, <3>2
    <2>4. new.deprecated = (\E i \in 1..(n + 1) : g[i].action = "DEPRECATED")
      <3>1. CASE new.deprecated = TRUE
        BY <2>3, <3>1, Zenon
      <3>2. CASE new.deprecated = FALSE
        BY <2>3, <3>2, Zenon
      <3> QED
        BY <3>1, <3>2 DEF SharedRecord
    <2> QED
      BY <1>2, <1>10, <2>1, <2>2, <2>4 DEF ReplayConsistent
  <1>12. ASSUME NEW i \in 1..(n + 1)
         PROVE  /\ g[i].action = "REGISTERED" <=> i = 1
                /\ g[i].action = "DEPRECATED" => i = n + 1
    <2>1. CASE i = n + 1
      BY <1>2, <1>4, <2>1
    <2>2. CASE i # n + 1
      <3>1. i \in 1..n /\ g[i] = h[i]
        BY <1>2, <1>3, <2>2
      <3> QED
        BY <1>6, <1>7, <3>1
    <2> QED
      BY <2>1, <2>2
  <1>13. ASSUME NEW i \in 2..(n + 1) PROVE g[i - 1].id < g[i].id
    <2>1. CASE i = n + 1
      BY <1>2, <1>3, <1>4, <1>9, <2>1
    <2>2. CASE i # n + 1
      <3>1. i \in 2..n /\ g[i] = h[i] /\ g[i - 1] = h[i - 1]
        BY <1>2, <1>3, <2>2
      <3> QED
        BY <1>8, <3>1
    <2> QED
      BY <2>1, <2>2
  <1>14. Sound(new)
    BY <1>2, <1>10, <1>11, <1>12, <1>13 DEF Sound
  <1>15. Newest(new).id = id
    BY <1>2, <1>4, <1>10 DEF Newest
  <1>16. Recorded(rec) = {h[i] : i \in 1..n} /\ Recorded(new) = {g[i] : i \in 1..(n + 1)}
    BY <1>2, <1>10 DEF Recorded, h, n
  <1>17. {h[i] : i \in 1..n} \subseteq {g[i] : i \in 1..(n + 1)}
    BY <1>2, <1>3
  <1> QED
    BY <1>14, <1>15, <1>16, <1>17

\* A record with one more transition.
LEMMA ExtendedFact ==
  ASSUME NEW rec \in SharedRecord, NEW id \in Nat, NEW action \in {"UPDATED", "DEPRECATED"}
  PROVE  LET new == Extended(rec, id, action) IN
         /\ new \in SharedRecord
         /\ new.payload = rec.payload
         /\ new.version = rec.version + 1
         /\ new.deprecated = rec.deprecated
         /\ new.history = Append(rec.history, Entry(rec, id, action))
         /\ new.size = rec.size + 1
  <1> DEFINE g == Append(rec.history, Entry(rec, id, action))
             v == rec.version + 1
             s == rec.size + 1
  <1>1. Entry(rec, id, action) \in SharedRecordTransition
    BY DEF Entry, SharedRecordTransition, SharedRecord
  <1>2. g \in Seq(SharedRecordTransition) /\ v \in Nat \ {0} /\ s \in Nat
    BY <1>1 DEF SharedRecord
  <1>3. Extended(rec, id, action) =
          [rec EXCEPT !.version = v, !.history = g, !.size = s]
    BY DEF Extended, Entry
  <1> HIDE DEF g, v, s
  <1>4. Extended(rec, id, action) \in SharedRecord
    BY <1>2, <1>3 DEF SharedRecord
  <1>5. /\ Extended(rec, id, action).payload = rec.payload
        /\ Extended(rec, id, action).version = v
        /\ Extended(rec, id, action).deprecated = rec.deprecated
        /\ Extended(rec, id, action).history = g
        /\ Extended(rec, id, action).size = s
    BY <1>3 DEF SharedRecord
  <1> QED
    BY <1>4, <1>5 DEF g, v, s

\* update() keeps a record sound and everything it has recorded.
LEMMA UpdatedFact ==
  ASSUME NEW rec \in SharedRecord, NEW id \in Nat, NEW x \in Payload,
         WellBuilt(rec), ~rec.deprecated, Newest(rec).id < id
  PROVE  LET new == Updated(rec, id, x) IN
         /\ new \in SharedRecord
         /\ WellBuilt(new)
         /\ Newest(new).id = id
         /\ Recorded(rec) \subseteq Recorded(new)
  <1> DEFINE e == Extended(rec, id, "UPDATED")
             s == rec.size + 1 - rec.payload.len + x.len
             new == Updated(rec, id, x)
  <1>1. rec.payload.len \in Nat /\ x.len \in Nat /\ rec.size \in Nat
    BY LensAssumption DEF SharedRecord, Payload
  <1>2. s \in Nat /\ s >= x.len
    BY <1>1 DEF WellBuilt
  <1>3. /\ e \in SharedRecord
        /\ e.version = rec.version + 1
        /\ e.deprecated = rec.deprecated
        /\ e.history = Append(rec.history, Entry(rec, id, "UPDATED"))
        /\ e.size = rec.size + 1
    BY ExtendedFact
  <1>4. new = [e EXCEPT !.payload = x, !.size = s]
    <2>1. new = [e EXCEPT !.payload = x, !.size = e.size - rec.payload.len + x.len]
      BY Zenon DEF Updated
    <2> HIDE DEF new, e
    <2>2. e.size = rec.size + 1
      BY <1>3
    <2>3. e.size - rec.payload.len + x.len = s
      BY <1>1, <2>2
    <2> HIDE DEF s
    <2> QED
      BY <2>1, <2>3
  <1>5. rec.deprecated = FALSE
    BY DEF SharedRecord
  <1> HIDE DEF e, s, new
  <1>6. new \in SharedRecord
    BY <1>2, <1>3, <1>4 DEF SharedRecord
  <1>7. /\ new.payload = x /\ new.version = e.version /\ new.deprecated = e.deprecated
        /\ new.history = e.history /\ new.size = s
    BY <1>3, <1>4 DEF SharedRecord
  <1>8. /\ new.history = Append(rec.history, Entry(rec, id, "UPDATED"))
        /\ new.version = rec.version + 1 /\ new.deprecated = FALSE
    BY <1>3, <1>5, <1>7
  <1>9. /\ Sound(new) /\ Newest(new).id = id /\ Recorded(rec) \subseteq Recorded(new)
    BY <1>6, <1>8, AppendedFact DEF WellBuilt
  <1> QED
    BY <1>2, <1>6, <1>7, <1>9 DEF WellBuilt, new

\* So does deprecate().
LEMMA DeprecatedFact ==
  ASSUME NEW rec \in SharedRecord, NEW id \in Nat,
         WellBuilt(rec), ~rec.deprecated, Newest(rec).id < id
  PROVE  LET new == DeprecatedOf(rec, id) IN
         /\ new \in SharedRecord
         /\ WellBuilt(new)
         /\ Newest(new).id = id
         /\ Recorded(rec) \subseteq Recorded(new)
  <1> DEFINE e == Extended(rec, id, "DEPRECATED")
             new == DeprecatedOf(rec, id)
  <1>1. rec.payload.len \in Nat /\ rec.size \in Nat
    BY LensAssumption DEF SharedRecord, Payload
  <1>2. /\ e \in SharedRecord
        /\ e.payload = rec.payload
        /\ e.version = rec.version + 1
        /\ e.history = Append(rec.history, Entry(rec, id, "DEPRECATED"))
        /\ e.size = rec.size + 1
    BY ExtendedFact
  <1>3. new = [e EXCEPT !.deprecated = TRUE]
    BY DEF DeprecatedOf
  <1> HIDE DEF e, new
  <1>4. new \in SharedRecord
    BY <1>2, <1>3 DEF SharedRecord
  <1>5. /\ new.payload = e.payload /\ new.version = e.version /\ new.deprecated = TRUE
        /\ new.history = e.history /\ new.size = e.size
    BY <1>2, <1>3 DEF SharedRecord
  <1>6. new.size >= new.payload.len
    BY <1>1, <1>2, <1>5 DEF WellBuilt
  <1>7. /\ new.history = Append(rec.history, Entry(rec, id, "DEPRECATED"))
        /\ new.version = rec.version + 1
    BY <1>2, <1>5
  <1>8. /\ Sound(new) /\ Newest(new).id = id /\ Recorded(rec) \subseteq Recorded(new)
    BY <1>4, <1>5, <1>7, AppendedFact DEF WellBuilt
  <1> QED
    BY <1>4, <1>6, <1>8 DEF WellBuilt, new

\* A sound record has a newest transition, and has recorded it.
LEMMA NewestFact ==
  ASSUME NEW rec \in SharedRecord, Sound(rec)
  PROVE  Newest(rec) \in SharedRecordTransition /\ Newest(rec) \in Recorded(rec)
  <1>1. rec.history \in Seq(SharedRecordTransition) /\ rec.history # <<>>
    BY DEF SharedRecord, Sound
  <1>2. Len(rec.history) \in 1..Len(rec.history)
    BY <1>1
  <1> QED
    BY <1>1, <1>2 DEF Newest, Recorded

-----------------------------------------------------------------------------
(* Types                                                                    *)

Texts == SharedRecord \cup NotAText

\* The fields of what a busy handler holds.
LEMMA JobType ==
  ASSUME TypeOK, NEW w \in Workers, phase[w] # "idle"
  PROVE  /\ job[w] \in Job
         /\ job[w].id \in Records
         /\ job[w].rec \in SharedRecord
         /\ job[w].solo \in BOOLEAN
  BY DEF TypeOK, Job

\* A file that parses holds a record.
LEMMA ParsedType ==
  ASSUME TypeOK, NEW r \in Records, Parses(files[r])
  PROVE  files[r].text \in SharedRecord
  BY DEF TypeOK, Parses

\* Saving puts a record, or garbage, where a file was.
LEMMA WrittenType ==
  ASSUME NEW file \in [text : Texts, extent : Nat], NEW rec \in SharedRecord
  PROVE  /\ Written(file, rec) \in [text : Texts, extent : Nat]
         /\ Parses(Written(file, rec)) => Written(file, rec).text = rec
         /\ Exists(Written(file, rec))
  <1>1. rec.size \in Nat
    BY DEF SharedRecord
  <1>2. rec \notin NotAText /\ Absent \in NotAText
    BY SentinelAssumption DEF NotAText
  <1>3. CASE rec.size >= file.extent
    <2>1. Written(file, rec) = [text |-> rec, extent |-> rec.size]
      BY <1>3 DEF Written
    <2> QED
      BY <1>1, <1>2, <2>1 DEF Exists, Texts
  <1>4. CASE ~(rec.size >= file.extent)
    <2>1. Written(file, rec) = [text |-> Garbled, extent |-> file.extent]
      BY <1>4 DEF Written, Texts
    <2> QED
      BY <2>1, ArtifactStoreAssumption DEF Exists, Parses, NotAText, Texts
  <1> QED
    BY <1>3, <1>4

-----------------------------------------------------------------------------
(* Every stored record and every record a handler holds is well built, and  *)
(* its newest transition is older than the next one.                        *)

GoodRecord(rec) == WellBuilt(rec) /\ Newest(rec).id < nextTxn

IInv ==
  /\ TypeOK
  /\ \A r \in Records : Parses(files[r]) => GoodRecord(files[r].text)
  /\ \A w \in Workers : phase[w] # "idle" => GoodRecord(job[w].rec)

LEMMA InitIInv == Init => IInv
  <1> SUFFICES ASSUME Init PROVE IInv
    OBVIOUS
  <1>1. NoFile \in [text : SharedRecord \cup NotAText, extent : Nat]
    BY DEF NoFile, NotAText
  <1>2. TypeOK
    BY <1>1 DEF Init, TypeOK
  <1>3. \A r \in Records : ~Parses(files[r])
    BY DEF Init, Parses, NoFile, NotAText
  <1> QED
    BY <1>2, <1>3 DEF Init, IInv

\* A good record stays good while transitions are added elsewhere.
LEMMA GoodStays ==
  ASSUME NEW rec \in SharedRecord, GoodRecord(rec), nextTxn \in Nat, nextTxn' \in Nat,
         nextTxn' >= nextTxn
  PROVE  GoodRecord(rec)'
  <1>1. Newest(rec).id \in Nat
    BY NewestFact DEF GoodRecord, WellBuilt, SharedRecordTransition
  <1> QED
    BY <1>1 DEF GoodRecord

\* A handler that has built a good record may carry it on.
LEMMA BeginIInv ==
  ASSUME IInv, NEW w \in Workers, NEW r \in Records,
         NEW base \in SharedRecord \cup {Absent}, NEW rec \in SharedRecord,
         WellBuilt(rec), Newest(rec).id = nextTxn,
         Begin(w, r, base, rec)
  PROVE  IInv'
  <1> USE DEF IInv, Begin
  <1>1. nextTxn \in Nat \ {0} /\ nextTxn' = nextTxn + 1
    BY DEF TypeOK
  <1>2. ASSUME NEW v \in Workers
        PROVE  /\ job'[v] \in Job \cup {NoJob}
               /\ phase'[v] # "idle" => job'[v] \in Job /\ GoodRecord(job[v].rec)'
    <2>1. CASE v = w
      <3>1. job'[v] = [id |-> r, base |-> base, rec |-> rec, solo |-> ~Busy(r)]
        BY <2>1
      <3>2. (~Busy(r)) \in BOOLEAN
        BY DEF Busy
      <3>3. PICK b \in BOOLEAN :
              job'[v] = [id |-> r, base |-> base, rec |-> rec, solo |-> b]
        BY <3>1, <3>2, Zenon
      <3>4. job'[v] \in Job /\ job'[v].rec = rec
        BY <3>3 DEF Job
      <3> QED
        BY <1>1, <3>4 DEF GoodRecord
    <2>2. CASE v # w
      <3>1. phase'[v] = phase[v]
        BY <2>2 DEF TypeOK
      <3>2. job[v] \in Job \cup {NoJob}
        BY DEF TypeOK
      <3>3. ASSUME phase[v] # "idle"
            PROVE  /\ job[v] \in Job /\ job[v].rec \in SharedRecord
                   /\ GoodRecord(job[v].rec)
        BY <3>3, JobType
      <3>4. CASE v \in MutatorsOf(r)
        <4>1. phase[v] # "idle"
          BY <3>4 DEF MutatorsOf
        <4>2. job'[v] = [job[v] EXCEPT !.solo = FALSE]
          BY <2>2, <3>4
        <4>3. job'[v] \in Job /\ job'[v].rec = job[v].rec
          BY <3>3, <4>1, <4>2 DEF Job
        <4>4. GoodRecord(job[v].rec)'
          <5> DEFINE kept == job[v].rec
          <5>1. kept \in SharedRecord /\ GoodRecord(kept)
            BY <3>3, <4>1
          <5>2. job'[v].rec = job[v].rec
            BY <4>3
          <5>3. Newest(kept).id \in Nat
            BY <5>1, NewestFact DEF GoodRecord, WellBuilt, SharedRecordTransition
          <5> QED
            BY <1>1, <5>1, <5>2, <5>3 DEF GoodRecord
        <4> QED
          BY <4>3, <4>4
      <3>5. CASE v \notin MutatorsOf(r)
        <4>1. job'[v] = job[v]
          BY <2>2, <3>5
        <4>2. ASSUME phase[v] # "idle" PROVE GoodRecord(job[v].rec)'
          <5>1. job[v].rec \in SharedRecord /\ GoodRecord(job[v].rec)
            BY <3>3, <4>2
          <5>2. Newest(job[v].rec).id \in Nat
            BY <5>1, NewestFact DEF GoodRecord, WellBuilt, SharedRecordTransition
          <5> QED
            BY <1>1, <4>1, <5>1, <5>2 DEF GoodRecord
        <4> QED
          BY <3>1, <3>2, <3>3, <4>1, <4>2
      <3> QED
        BY <3>4, <3>5
    <2> QED
      BY <2>1, <2>2
  <1>3. TypeOK'
    <2>1. job' \in [Workers -> Job \cup {NoJob}]
      BY <1>2
    <2>2. phase' \in [Workers -> {"idle", "loaded", "opened", "resolving"}]
      BY DEF TypeOK
    <2>3. disturbed' \subseteq Records
      BY DEF TypeOK
    <2> QED
      BY <1>1, <1>2, <2>1, <2>2, <2>3 DEF TypeOK
  <1>4. ASSUME NEW q \in Records, Parses(files[q])' PROVE GoodRecord(files[q].text)'
    <2>1. files' = files /\ files[q].text \in SharedRecord /\ GoodRecord(files[q].text)
      BY <1>4, ParsedType
    <2>2. Newest(files[q].text).id \in Nat
      BY <2>1, NewestFact DEF GoodRecord, WellBuilt, SharedRecordTransition
    <2> QED
      BY <1>1, <2>1, <2>2 DEF GoodRecord
  <1> QED
    BY <1>2, <1>3, <1>4

\* Answers that save nothing.
LEMMA AnswerIInv ==
  ASSUME IInv, NEW w \in Workers,
         NEW status \in {"200", "400", "404", "409", "500", "alarm", "resolved"},
         AnswerNow(w, status)
  PROVE  IInv'
  BY DEF AnswerNow, IInv, TypeOK, GoodRecord, Parses, storeVars, ghostVars

LEMMA OpenIInv ==
  ASSUME IInv, NEW w \in Workers, Open(w)
  PROVE  IInv'
  <1> USE DEF IInv, Open, ghostVars
  <1>1. job[w].id \in Records
    BY JobType
  <1>2. Truncated \in [text : SharedRecord \cup NotAText, extent : Nat]
    BY DEF Truncated, NotAText
  <1>3. TypeOK'
    BY <1>1, <1>2 DEF TypeOK
  <1>4. ASSUME NEW r \in Records, Parses(files[r])' PROVE GoodRecord(files[r].text)'
    <2>1. r # job[w].id /\ files'[r] = files[r]
      BY <1>1, <1>4 DEF TypeOK, Truncated, Parses, NotAText
    <2> QED
      BY <1>4, <2>1 DEF Parses, GoodRecord
  <1>5. ASSUME NEW v \in Workers, phase'[v] # "idle" PROVE GoodRecord(job[v].rec)'
    <2>1. phase[v] # "idle"
      BY <1>5 DEF TypeOK
    <2> QED
      BY <2>1 DEF GoodRecord
  <1> QED
    BY <1>3, <1>4, <1>5

LEMMA FlushIInv ==
  ASSUME IInv, NEW w \in Workers, Flush(w)
  PROVE  IInv'
  <1> DEFINE r == job[w].id
             rec == job[w].rec
  <1>1. r \in Records /\ rec \in SharedRecord /\ GoodRecord(rec)
    BY JobType DEF IInv, Flush
  <1>2. Newest(rec) \in SharedRecordTransition
    BY <1>1, NewestFact DEF GoodRecord, WellBuilt
  <1>3. files \in [Records -> [text : Texts, extent : Nat]]
    BY DEF IInv, TypeOK, Texts
  <1>4. files' \in [Records -> [text : Texts, extent : Nat]]
    BY <1>1, <1>3, WrittenType DEF Flush
  <1>5. TypeOK'
    <2>1. /\ acked' \in [Records -> SUBSET SharedRecordTransition]
          /\ soloAcked' \in [Records -> SUBSET SharedRecordTransition]
      BY <1>1, <1>2 DEF IInv, TypeOK, Flush
    <2>2. /\ phase' \in [Workers -> {"idle", "loaded", "opened", "resolving"}]
          /\ job' \in [Workers -> Job \cup {NoJob}]
          /\ \A v \in Workers : phase'[v] # "idle" => job'[v] \in Job
          /\ answer' = "200"
      BY DEF IInv, TypeOK, Flush
    <2> QED
      BY <1>4, <2>1, <2>2 DEF IInv, TypeOK, Flush, Texts
  <1>6. ASSUME NEW q \in Records, Parses(files[q])' PROVE GoodRecord(files[q].text)'
    <2>1. CASE q = r
      <3>1. files'[q] = Written(files[r], rec)
        BY <1>1, <1>3, <2>1 DEF Flush
      <3>2. files'[q].text = rec
        BY <1>1, <1>3, <1>6, <3>1, WrittenType DEF Parses
      <3> QED
        BY <1>1, <3>2 DEF Flush, GoodRecord
    <2>2. CASE q # r
      <3>1. files'[q] = files[q]
        BY <1>3, <2>2 DEF Flush
      <3> QED
        BY <1>6, <3>1 DEF IInv, Flush, GoodRecord, Parses
    <2> QED
      BY <2>1, <2>2
  <1>7. ASSUME NEW v \in Workers, phase'[v] # "idle" PROVE GoodRecord(job[v].rec)'
    <2>1. v # w /\ phase[v] # "idle" /\ job'[v] = job[v]
      BY <1>7 DEF IInv, TypeOK, Flush
    <2> QED
      BY <2>1 DEF GoodRecord, IInv, Flush
  <1> QED
    BY <1>5, <1>6, <1>7 DEF IInv

LEMMA ResolveIInv ==
  ASSUME IInv, NEW w \in Workers,
         \/ \E r \in Records : ResolveBegin(w, r)
         \/ ResolveEnd(w)
  PROVE  IInv'
  <1>1. ASSUME NEW r \in Records, ResolveBegin(w, r) PROVE IInv'
    <2>1. files[r].text \in SharedRecord /\ GoodRecord(files[r].text)
      BY <1>1, ParsedType DEF IInv, ResolveBegin
    <2>2. [id |-> r, base |-> Absent, rec |-> files[r].text, solo |-> FALSE] \in Job
      BY <2>1 DEF Job
    <2> QED
      BY <1>1, <2>1, <2>2
      DEF ResolveBegin, IInv, TypeOK, GoodRecord, Parses, storeVars, ghostVars
  <1>2. CASE ResolveEnd(w)
    BY <1>2 DEF ResolveEnd, IInv, TypeOK, GoodRecord, Parses, storeVars, ghostVars
  <1> QED
    BY <1>1, <1>2

LEMMA CrashIInv ==
  ASSUME IInv, Crash
  PROVE  IInv'
  <1>1. ASSUME NEW w \in Workers, phase[w] = "opened" PROVE job[w].id \in Records
    BY <1>1, JobType DEF IInv
  <1>2. disturbed' \subseteq Records
    BY <1>1 DEF Crash, IInv, TypeOK
  <1> QED
    BY <1>2 DEF Crash, IInv, TypeOK, GoodRecord, Parses

\* register(), update() and deprecate() build good records from good ones.
LEMMA MutationIInv ==
  ASSUME IInv, NEW w \in Workers, NEW r \in Records,
         Register(w, r) \/ Update(w, r) \/ Deprecate(w, r)
  PROVE  IInv'
  <1> DEFINE rec == files[r].text
  <1>1. nextTxn \in Nat
    BY DEF IInv, TypeOK
  <1>2. CASE Register(w, r)
    <2>1. PICK x \in PayloadsOf(r) : Begin(w, r, Absent, Registered(nextTxn, x))
      BY <1>2 DEF Register
    <2>2. x \in Payload
      BY DEF PayloadsOf
    <2> QED
      BY <1>1, <2>1, <2>2, RegisteredFact, BeginIInv
  <1>3. ASSUME Parses(files[r])
        PROVE  rec \in SharedRecord /\ WellBuilt(rec) /\ Newest(rec).id < nextTxn
    BY <1>3, ParsedType DEF IInv, GoodRecord
  <1>4. CASE Update(w, r)
    <2>1. PICK x \in PayloadsOf(r) : Begin(w, r, rec, Updated(rec, nextTxn, x))
      BY <1>4 DEF Update
    <2>2. x \in Payload
      BY DEF PayloadsOf
    <2>3. /\ rec \in SharedRecord /\ WellBuilt(rec) /\ Newest(rec).id < nextTxn
          /\ ~rec.deprecated
      BY <1>3, <1>4 DEF Update
    <2> HIDE DEF rec
    <2> QED
      BY <1>1, <2>1, <2>2, <2>3, UpdatedFact, BeginIInv
  <1>5. CASE Deprecate(w, r)
    <2>1. Begin(w, r, rec, DeprecatedOf(rec, nextTxn))
      BY <1>5 DEF Deprecate
    <2>2. /\ rec \in SharedRecord /\ WellBuilt(rec) /\ Newest(rec).id < nextTxn
          /\ ~rec.deprecated
      BY <1>3, <1>5 DEF Deprecate
    <2> HIDE DEF rec
    <2> QED
      BY <1>1, <2>1, <2>2, DeprecatedFact, BeginIInv
  <1> QED
    BY <1>2, <1>4, <1>5

\* Every request that is answered at once.
AnsweredAtOnce(w, r) ==
  \/ RegisterExisting(w, r) \/ Incomplete(w, r) \/ MutationRefused(w, r)
  \/ NotFound(w, r) \/ Unreadable(w, r) \/ Read(w, r) \/ ResolveNothing(w, r)

LEMMA AnsweredFact ==
  ASSUME NEW w \in Workers, NEW r \in Records, AnsweredAtOnce(w, r)
  PROVE  \E status \in {"200", "400", "404", "409", "500", "alarm", "resolved"} :
           AnswerNow(w, status)
  BY DEF AnsweredAtOnce, RegisterExisting, Incomplete, MutationRefused, NotFound,
         Unreadable, Read, ResolveNothing

LEMMA NextIInv == IInv /\ [Next]_vars => IInv'
  <1> SUFFICES ASSUME IInv, [Next]_vars PROVE IInv'
    OBVIOUS
  <1>1. ASSUME NEW w \in Workers, NEW r \in Records, Request(w, r) PROVE IInv'
    <2>1. CASE Register(w, r) \/ Update(w, r) \/ Deprecate(w, r)
      BY <2>1, MutationIInv
    <2>2. CASE ResolveBegin(w, r)
      BY <2>2, ResolveIInv
    <2>3. CASE AnsweredAtOnce(w, r)
      BY <2>3, AnsweredFact, AnswerIInv
    <2> QED
      BY <1>1, <2>1, <2>2, <2>3 DEF Request, AnsweredAtOnce
  <1>2. ASSUME NEW w \in Workers, Step(w) PROVE IInv'
    BY <1>2, OpenIInv, FlushIInv, ResolveIInv DEF Step
  <1>3. CASE Crash
    BY <1>3, CrashIInv
  <1>4. CASE UNCHANGED vars
    BY <1>4 DEF vars, storeVars, ghostVars, IInv, TypeOK, GoodRecord, Parses
  <1> QED
    BY <1>1, <1>2, <1>3, <1>4 DEF Next

\* The invariant holds in every behaviour of the unlocked, crashing stores.
THEOREM InvariantHolds == Spec => []IInv
  BY InitIInv, NextIInv, PTL DEF Spec

\* Every variable of the shared stores keeps its type, through every
\* interleaving of handlers and every crash.
THEOREM TypeCorrect == Spec => []TypeOK
  <1>1. IInv => TypeOK
    BY DEF IInv
  <1> QED
    BY <1>1, InvariantHolds, PTL

\* A record that parses was registered once, counts its versions from 1
\* without a gap and ends with its deprecation if it has one, however
\* registrations, updates, deprecations and crashes interleave.
THEOREM StoredReplayable == Spec => []StoredIsReplayable
  <1>1. IInv => StoredIsReplayable
    BY DEF IInv, StoredIsReplayable, GoodRecord, WellBuilt
  <1> QED
    BY <1>1, InvariantHolds, PTL

-----------------------------------------------------------------------------
(* Undisturbed writes survive.  What a solo handler had acknowledged is in  *)
(* the file and in what every later handler built from it; a handler that   *)
(* still runs when it answers has lost its own claim to be solo.            *)

Mutating(w) == phase[w] \in {"loaded", "opened"}

SoloInv ==
  /\ \A r \in Records :
       /\ Parses(files[r]) => soloAcked[r] \subseteq Recorded(files[r].text)
       /\ ~Exists(files[r]) => soloAcked[r] = {}
  /\ \A w \in Workers : Mutating(w) =>
       soloAcked[job[w].id] \subseteq Recorded(job[w].rec)
  /\ \A w, v \in Workers :
       w # v /\ Mutating(w) /\ Mutating(v) /\ job[w].id = job[v].id => ~job[w].solo

LEMMA BeginSolo ==
  ASSUME IInv, SoloInv, NEW w \in Workers, NEW r \in Records,
         NEW base, NEW rec, Begin(w, r, base, rec),
         soloAcked[r] \subseteq Recorded(rec)
  PROVE  SoloInv'
  <1> USE DEF Begin
  <1>1. /\ files' = files /\ soloAcked' = soloAcked
        /\ job'[w] = [id |-> r, base |-> base, rec |-> rec, solo |-> ~Busy(r)]
    OBVIOUS
  <1>2. ASSUME NEW v \in Workers, v # w, Mutating(v)'
        PROVE  /\ Mutating(v)
               /\ job'[v].id = job[v].id /\ job'[v].rec = job[v].rec
               /\ job[v].id = r => ~job'[v].solo
               /\ job[v].id # r => job'[v].solo = job[v].solo
    <2>1. Mutating(v) /\ job[v] \in Job
      BY <1>2, JobType DEF Mutating, IInv, TypeOK
    <2>2. CASE job[v].id = r
      <3>1. job'[v] = [job[v] EXCEPT !.solo = FALSE]
        BY <1>2, <2>1, <2>2 DEF MutatorsOf, Mutating
      <3> QED
        BY <2>1, <2>2, <3>1 DEF Job
    <2>3. CASE job[v].id # r
      <3>1. job'[v] = job[v]
        BY <1>2, <2>3 DEF MutatorsOf
      <3> QED
        BY <2>1, <2>3, <3>1
    <2> QED
      BY <2>2, <2>3
  <1>3. ASSUME NEW v \in Workers, Mutating(v)'
        PROVE  (soloAcked[job[v].id] \subseteq Recorded(job[v].rec))'
    <2>1. CASE v = w
      BY <1>1, <2>1 DEF Recorded
    <2>2. CASE v # w
      <3>1. Mutating(v) /\ job'[v].id = job[v].id /\ job'[v].rec = job[v].rec
        BY <1>2, <1>3, <2>2
      <3> QED
        BY <1>1, <3>1 DEF SoloInv, Recorded
    <2> QED
      BY <2>1, <2>2
  <1>4. ASSUME NEW v \in Workers, NEW u \in Workers, v # u, Mutating(v)', Mutating(u)',
               job'[v].id = job'[u].id
        PROVE  ~job'[v].solo
    <2>1. CASE v = w
      <3>1. Mutating(u) /\ job[u].id = r
        BY <1>1, <1>2, <1>4, <2>1
      <3>2. Busy(r)
        BY <3>1 DEF Busy, MutatorsOf, Mutating
      <3> QED
        BY <1>1, <2>1, <3>2
    <2>2. CASE v # w
      <3>1. CASE job[v].id = r
        BY <1>2, <1>4, <2>2, <3>1
      <3>2. CASE job[v].id # r
        <4>1. u # w /\ Mutating(u) /\ job[u].id = job[v].id
          BY <1>1, <1>2, <1>4, <2>2, <3>2
        <4> QED
          BY <1>2, <1>4, <2>2, <3>2, <4>1 DEF SoloInv
      <3> QED
        BY <3>1, <3>2
    <2> QED
      BY <2>1, <2>2
  <1>5. \A q \in Records :
          /\ Parses(files[q])' => (soloAcked[q] \subseteq Recorded(files[q].text))'
          /\ ~Exists(files[q])' => soloAcked'[q] = {}
    BY <1>1 DEF SoloInv, Parses, Exists, Recorded
  <1> QED
    BY <1>3, <1>4, <1>5 DEF SoloInv

LEMMA OpenSolo ==
  ASSUME IInv, SoloInv, NEW w \in Workers, Open(w)
  PROVE  SoloInv'
  <1> USE DEF Open, ghostVars
  <1>1. job[w].id \in Records /\ job' = job /\ soloAcked' = soloAcked
    BY JobType DEF IInv
  <1>2. \A v \in Workers : Mutating(v)' => Mutating(v)
    BY DEF Mutating, IInv, TypeOK
  <1>3. ASSUME NEW r \in Records
        PROVE  /\ Parses(files[r])' => (soloAcked[r] \subseteq Recorded(files[r].text))'
               /\ ~Exists(files[r])' => soloAcked'[r] = {}
    <2>1. CASE r = job[w].id
      <3>1. files'[r] = Truncated
        BY <1>1, <2>1 DEF IInv, TypeOK
      <3> QED
        BY <3>1, ArtifactStoreAssumption DEF Truncated, Parses, Exists, NotAText
    <2>2. CASE r # job[w].id
      <3>1. files'[r] = files[r]
        BY <2>2 DEF IInv, TypeOK
      <3> QED
        BY <1>1, <3>1 DEF SoloInv, Parses, Exists, Recorded
    <2> QED
      BY <2>1, <2>2
  <1>4. \A v \in Workers : Mutating(v)' =>
          (soloAcked[job[v].id] \subseteq Recorded(job[v].rec))'
    BY <1>1, <1>2 DEF SoloInv, Recorded
  <1>5. (\A u, v \in Workers : u # v /\ Mutating(u) /\ Mutating(v)
           /\ job[u].id = job[v].id => ~job[u].solo)'
    BY <1>1, <1>2 DEF SoloInv
  <1> QED
    BY <1>3, <1>4, <1>5 DEF SoloInv

LEMMA FlushSolo ==
  ASSUME IInv, SoloInv, NEW w \in Workers, Flush(w)
  PROVE  SoloInv'
  <1> DEFINE r == job[w].id
             rec == job[w].rec
  <1>1. r \in Records /\ rec \in SharedRecord /\ GoodRecord(rec) /\ Mutating(w)
    BY JobType DEF IInv, Flush, Mutating
  <1>2. Newest(rec) \in Recorded(rec) /\ soloAcked[r] \subseteq Recorded(rec)
    BY <1>1, NewestFact DEF GoodRecord, WellBuilt, SoloInv
  <1>3. soloAcked'[r] \subseteq Recorded(rec)
    BY <1>1, <1>2 DEF IInv, TypeOK, Flush
  <1>4. \A q \in Records : q # r => files'[q] = files[q] /\ soloAcked'[q] = soloAcked[q]
    BY <1>1 DEF IInv, TypeOK, Flush
  <1>5. \A v \in Workers : Mutating(v)' => v # w /\ Mutating(v) /\ job'[v] = job[v]
    BY DEF IInv, TypeOK, Flush, Mutating
  <1>6. ASSUME NEW q \in Records
        PROVE  /\ Parses(files[q])' => (soloAcked[q] \subseteq Recorded(files[q].text))'
               /\ ~Exists(files[q])' => soloAcked'[q] = {}
    <2>1. CASE q = r
      <3>1. files'[q] = Written(files[r], rec)
        BY <1>1, <2>1 DEF IInv, TypeOK, Flush
      <3>2. files[r] \in [text : Texts, extent : Nat]
        BY <1>1 DEF IInv, TypeOK, Texts
      <3>3. Exists(files[q])' /\ (Parses(files[q])' => files'[q].text = rec)
        BY <1>1, <3>1, <3>2, WrittenType DEF Parses, Exists
      <3> QED
        BY <1>3, <2>1, <3>3 DEF Recorded
    <2>2. CASE q # r
      BY <1>4, <2>2 DEF SoloInv, Parses, Exists, Recorded
    <2> QED
      BY <2>1, <2>2
  <1>7. ASSUME NEW v \in Workers, Mutating(v)'
        PROVE  (soloAcked[job[v].id] \subseteq Recorded(job[v].rec))'
    <2>1. v # w /\ Mutating(v) /\ job'[v] = job[v]
      BY <1>5, <1>7
    <2>2. job[v].id \in Records
      BY <2>1, JobType DEF IInv, Mutating
    <2>3. CASE job[v].id = r
      <3>1. ~job[w].solo
        BY <1>1, <2>1, <2>3 DEF SoloInv
      <3>2. soloAcked' = soloAcked
        BY <3>1 DEF Flush
      <3> QED
        BY <2>1, <3>2 DEF SoloInv, Recorded
    <2>4. CASE job[v].id # r
      BY <1>4, <2>1, <2>2, <2>4 DEF SoloInv, Recorded
    <2> QED
      BY <2>3, <2>4
  <1>8. (\A u, v \in Workers : u # v /\ Mutating(u) /\ Mutating(v)
           /\ job[u].id = job[v].id => ~job[u].solo)'
    BY <1>5 DEF SoloInv
  <1> QED
    BY <1>6, <1>7, <1>8 DEF SoloInv

\* Steps that change neither files nor the mutations in flight, other than
\* by ending them.
LEMMA QuietSolo ==
  ASSUME SoloInv, files' = files, soloAcked' = soloAcked,
         \A v \in Workers : Mutating(v)' => Mutating(v) /\ job'[v] = job[v]
  PROVE  SoloInv'
  BY DEF SoloInv, Parses, Exists, Recorded

\* A mutation begins with a record that holds all that was acknowledged.
LEMMA MutationSolo ==
  ASSUME IInv, SoloInv, NEW w \in Workers, NEW r \in Records,
         Register(w, r) \/ Update(w, r) \/ Deprecate(w, r)
  PROVE  SoloInv'
  <1> DEFINE rec == files[r].text
  <1>1. nextTxn \in Nat
    BY DEF IInv, TypeOK
  <1>2. CASE Register(w, r)
    <2>1. PICK x \in PayloadsOf(r) : Begin(w, r, Absent, Registered(nextTxn, x))
      BY <1>2 DEF Register
    <2>2. soloAcked[r] = {}
      BY <1>2 DEF Register, SoloInv
    <2> QED
      BY <2>1, <2>2, BeginSolo
  <1>3. ASSUME Parses(files[r])
        PROVE  /\ rec \in SharedRecord /\ WellBuilt(rec) /\ Newest(rec).id < nextTxn
               /\ soloAcked[r] \subseteq Recorded(rec)
    BY <1>3, ParsedType DEF IInv, GoodRecord, SoloInv
  <1>4. CASE Update(w, r)
    <2>1. PICK x \in PayloadsOf(r) : Begin(w, r, rec, Updated(rec, nextTxn, x))
      BY <1>4 DEF Update
    <2>2. x \in Payload
      BY DEF PayloadsOf
    <2>3. /\ rec \in SharedRecord /\ WellBuilt(rec) /\ Newest(rec).id < nextTxn
          /\ ~rec.deprecated /\ soloAcked[r] \subseteq Recorded(rec)
      BY <1>3, <1>4 DEF Update
    <2> HIDE DEF rec
    <2>4. soloAcked[r] \subseteq Recorded(Updated(rec, nextTxn, x))
      BY <1>1, <2>2, <2>3, UpdatedFact
    <2> QED
      BY <2>1, <2>4, BeginSolo
  <1>5. CASE Deprecate(w, r)
    <2>1. Begin(w, r, rec, DeprecatedOf(rec, nextTxn))
      BY <1>5 DEF Deprecate
    <2>2. /\ rec \in SharedRecord /\ WellBuilt(rec) /\ Newest(rec).id < nextTxn
          /\ ~rec.deprecated /\ soloAcked[r] \subseteq Recorded(rec)
      BY <1>3, <1>5 DEF Deprecate
    <2> HIDE DEF rec
    <2>3. soloAcked[r] \subseteq Recorded(DeprecatedOf(rec, nextTxn))
      BY <1>1, <2>2, DeprecatedFact
    <2> QED
      BY <2>1, <2>3, BeginSolo
  <1> QED
    BY <1>2, <1>4, <1>5

LEMMA NextSolo == IInv /\ SoloInv /\ [Next]_vars => SoloInv'
  <1> SUFFICES ASSUME IInv, SoloInv, [Next]_vars PROVE SoloInv'
    OBVIOUS
  <1>1. ASSUME NEW w \in Workers, NEW r \in Records, Request(w, r) PROVE SoloInv'
    <2>1. CASE Register(w, r) \/ Update(w, r) \/ Deprecate(w, r)
      BY <2>1, MutationSolo
    <2>2. CASE ResolveBegin(w, r)
      BY <2>2, QuietSolo DEF ResolveBegin, storeVars, ghostVars, Mutating, IInv, TypeOK
    <2>3. CASE AnsweredAtOnce(w, r)
      BY <2>3, AnsweredFact, QuietSolo DEF AnswerNow, storeVars, ghostVars, Mutating
    <2> QED
      BY <1>1, <2>1, <2>2, <2>3 DEF Request, AnsweredAtOnce
  <1>2. ASSUME NEW w \in Workers, ResolveEnd(w) PROVE SoloInv'
    BY <1>2, QuietSolo DEF ResolveEnd, storeVars, ghostVars, Mutating, IInv, TypeOK
  <1>3. ASSUME NEW w \in Workers, Step(w) PROVE SoloInv'
    BY <1>2, <1>3, OpenSolo, FlushSolo DEF Step
  <1>4. CASE Crash
    BY <1>4, QuietSolo DEF Crash, Mutating
  <1>5. CASE UNCHANGED vars
    BY <1>5, QuietSolo DEF vars, storeVars, ghostVars, Mutating
  <1> QED
    BY <1>1, <1>3, <1>4, <1>5 DEF Next

\* An acknowledged registration, update or deprecation that overlapped no
\* other mutation of its record is in every readable version of the record
\* from then on, whatever races and crashes follow.
THEOREM SoloSurvives == Spec => []SoloWritesSurvive
  <1>1. Init => SoloInv
    BY DEF Init, SoloInv, Mutating, NoFile, Parses, NotAText
  <1>2. Spec => []SoloInv
    BY <1>1, InvariantHolds, NextSolo, PTL DEF Spec
  <1>3. SoloInv => SoloWritesSurvive
    BY DEF SoloInv, SoloWritesSurvive
  <1> QED
    BY <1>2, <1>3, PTL

-----------------------------------------------------------------------------
(* Resolving.  A file once created is never removed, and what was answered  *)
(* with 200 has a file.                                                     *)

AckInv ==
  /\ \A r \in Records : ~Exists(files[r]) => acked[r] = {}
  /\ \A w \in Workers : phase[w] = "resolving" => job[w].rec.payload.ref \in Identities

LEMMA NextAck == IInv /\ AckInv /\ [Next]_vars => AckInv'
  <1> SUFFICES ASSUME IInv, AckInv, [Next]_vars PROVE AckInv'
    OBVIOUS
  <1>1. ASSUME files' = files, acked' = acked,
               \A v \in Workers : phase'[v] = "resolving" =>
                 phase[v] = "resolving" /\ job'[v] = job[v]
        PROVE  AckInv'
    BY <1>1 DEF AckInv, Exists
  <1>2. ASSUME NEW w \in Workers, NEW r \in Records, NEW base, NEW rec,
               Begin(w, r, base, rec)
        PROVE  AckInv'
    <2>1. \A v \in Workers : phase'[v] = "resolving" =>
            phase[v] = "resolving" /\ job'[v] = job[v]
      BY <1>2 DEF Begin, MutatorsOf, IInv, TypeOK
    <2> QED
      BY <1>1, <1>2, <2>1 DEF Begin
  <1>3. ASSUME NEW w \in Workers, NEW r \in Records, ResolveBegin(w, r) PROVE AckInv'
    <2>1. files[r].text \in SharedRecord /\ files[r].text.payload.ref # NoRef
      BY <1>3, ParsedType DEF IInv, ResolveBegin
    <2>2. files[r].text.payload.ref \in Identities
      BY <2>1 DEF SharedRecord, Payload
    <2>3. files' = files /\ acked' = acked
      BY <1>3 DEF ResolveBegin, storeVars, ghostVars
    <2>4. ASSUME NEW v \in Workers, phase'[v] = "resolving"
          PROVE  job'[v].rec.payload.ref \in Identities
      <3>1. CASE v = w
        BY <1>3, <2>2, <3>1 DEF ResolveBegin, IInv, TypeOK
      <3>2. CASE v # w
        BY <1>3, <2>4, <3>2 DEF ResolveBegin, AckInv, IInv, TypeOK
      <3> QED
        BY <3>1, <3>2
    <2> QED
      BY <2>3, <2>4 DEF AckInv, Exists
  <1>4. ASSUME NEW w \in Workers, NEW r \in Records, Request(w, r) PROVE AckInv'
    <2>1. CASE Register(w, r) \/ Update(w, r) \/ Deprecate(w, r)
      BY <1>2, <2>1 DEF Register, Update, Deprecate
    <2>2. CASE AnsweredAtOnce(w, r)
      BY <1>1, <2>2, AnsweredFact DEF AnswerNow, storeVars, ghostVars
    <2> QED
      BY <1>3, <1>4, <2>1, <2>2 DEF Request, AnsweredAtOnce
  <1>5. ASSUME NEW w \in Workers, Open(w) PROVE AckInv'
    <2>1. \A v \in Workers : phase'[v] = "resolving" =>
            phase[v] = "resolving" /\ job'[v] = job[v]
      BY <1>5 DEF Open, IInv, TypeOK
    <2>2. \A r \in Records : Exists(files[r]) => Exists(files[r])'
      BY <1>5, ArtifactStoreAssumption DEF Open, Exists, Truncated, IInv, TypeOK
    <2>3. acked' = acked
      BY <1>5 DEF Open, ghostVars
    <2> QED
      BY <2>1, <2>2, <2>3 DEF AckInv
  <1>6. ASSUME NEW w \in Workers, Flush(w) PROVE AckInv'
    <2>1. PICK r \in Records, rec \in SharedRecord : r = job[w].id /\ rec = job[w].rec
      BY <1>6, JobType DEF Flush, IInv
    <2>2. files[r] \in [text : Texts, extent : Nat]
      BY DEF IInv, TypeOK, Texts
    <2>3. files'[r] = Written(files[r], rec)
      BY <1>6, <2>1 DEF Flush, IInv, TypeOK
    <2>4. Exists(files[r])'
      BY <2>2, <2>3, WrittenType DEF Exists
    <2>5. \A q \in Records : q # r => files'[q] = files[q] /\ acked'[q] = acked[q]
      BY <1>6, <2>1 DEF Flush, IInv, TypeOK
    <2>6. \A v \in Workers : phase'[v] = "resolving" =>
            phase[v] = "resolving" /\ job'[v] = job[v]
      BY <1>6 DEF Flush, IInv, TypeOK
    <2> QED
      BY <2>4, <2>5, <2>6 DEF AckInv, Exists
  <1>7. ASSUME NEW w \in Workers, ResolveEnd(w) PROVE AckInv'
    BY <1>1, <1>7 DEF ResolveEnd, storeVars, ghostVars, IInv, TypeOK
  <1>8. CASE Crash
    BY <1>1, <1>8 DEF Crash
  <1>9. CASE UNCHANGED vars
    BY <1>1, <1>9 DEF vars, storeVars, ghostVars
  <1> QED
    BY <1>4, <1>5, <1>6, <1>7, <1>8, <1>9 DEF Next, Step

\* No step of a resolve() reports missing an identity that a client was ever
\* told of, also while that identity is being saved.
LEMMA MissingStep ==
  ASSUME IInv, AckInv, [Next]_vars, NEW w \in Workers,
         phase[w] = "resolving", phase'[w] = "idle", answer' = "missing"
  PROVE  acked[job[w].rec.payload.ref] = {}
  <1>1. CASE ResolveEnd(w)
    <2>1. ~Exists(files[job[w].rec.payload.ref])
      BY <1>1 DEF ResolveEnd
    <2>2. job[w].rec.payload.ref \in Records
      BY DEF AckInv, Records
    <2> QED
      BY <2>1, <2>2 DEF AckInv
  <1>2. ASSUME NEW v \in Workers, NEW r \in Records, Request(v, r) PROVE FALSE
    <2>1. CASE Register(v, r) \/ Update(v, r) \/ Deprecate(v, r)
      BY <2>1 DEF Register, Update, Deprecate, Begin, IInv, TypeOK
    <2>2. CASE ResolveBegin(v, r)
      BY <2>2 DEF ResolveBegin, IInv, TypeOK
    <2>3. CASE AnsweredAtOnce(v, r)
      BY <2>3, AnsweredFact DEF AnswerNow
    <2> QED
      BY <1>2, <2>1, <2>2, <2>3 DEF Request, AnsweredAtOnce
  <1>3. ASSUME NEW v \in Workers, Open(v) PROVE FALSE
    BY <1>3 DEF Open, IInv, TypeOK
  <1>4. ASSUME NEW v \in Workers, Flush(v) PROVE FALSE
    BY <1>4 DEF Flush
  <1>5. ASSUME NEW v \in Workers, v # w, ResolveEnd(v) PROVE FALSE
    BY <1>5 DEF ResolveEnd, IInv, TypeOK
  <1>6. CASE Crash
    BY <1>6 DEF Crash
  <1>7. CASE UNCHANGED vars
    BY <1>7 DEF vars
  <1> QED
    BY <1>1, <1>2, <1>3, <1>4, <1>5, <1>6, <1>7 DEF Next, Step

\* What resolve() reports missing was never registered.
THEOREM MissingNeverRegistered == Spec => MissingWasNeverRegistered
  <1>1. Init => AckInv
    BY DEF Init, AckInv
  <1>2. Spec => []AckInv
    BY <1>1, InvariantHolds, NextAck, PTL DEF Spec
  <1>3. IInv /\ AckInv /\ [Next]_vars =>
          [\A w \in Workers :
             phase[w] = "resolving" /\ phase'[w] = "idle" /\ answer' = "missing" =>
               acked[job[w].rec.payload.ref] = {}]_vars
    BY MissingStep
  <1> QED
    BY <1>2, <1>3, InvariantHolds, PTL DEF Spec, MissingWasNeverRegistered

-----------------------------------------------------------------------------
(* The refinement.  A handler on an undisturbed record is alone there; what *)
(* it read is what everybody sees until its save is complete, and what it   *)
(* saves is one atomic operation on that.                                   *)

\* rec is what one operation of the abstract registry makes of base.
Builds(r, base, rec) ==
  \E id \in 1..MaxTxn :
    \/ base = Absent /\ \E x \in PayloadsOf(r) : rec = Registered(id, x)
    \/ /\ base \in SharedRecord /\ ~base.deprecated /\ Newest(base).id < id
       /\ \/ \E x \in PayloadsOf(r) : rec = Updated(base, id, x)
          \/ rec = DeprecatedOf(base, id)

RefInv ==
  /\ \A u, v \in Workers :
       Mutating(u) /\ Mutating(v) /\ job[u].id = job[v].id /\ job[u].id \notin disturbed =>
         u = v
  /\ \A w \in Workers : Mutating(w) /\ job[w].id \notin disturbed =>
       /\ Builds(job[w].id, job[w].base, job[w].rec)
       /\ phase[w] = "loaded" => files[job[w].id].text = job[w].base
       /\ phase[w] = "opened" => files[job[w].id] = Truncated

\* Steps that change no file, and mutations only by ending them.
LEMMA QuietRef ==
  ASSUME RefInv, files' = files, disturbed \subseteq disturbed',
         \A v \in Workers : Mutating(v)' =>
           Mutating(v) /\ phase'[v] = phase[v] /\ job'[v] = job[v]
  PROVE  RefInv'
  BY DEF RefInv

\* What a handler that begins leaves of the others.
LEMMA BeginOthers ==
  ASSUME IInv, NEW w \in Workers, NEW r \in Records, NEW base, NEW rec,
         Begin(w, r, base, rec)
  PROVE  /\ job'[w] = [id |-> r, base |-> base, rec |-> rec, solo |-> ~Busy(r)]
         /\ phase[w] = "idle" /\ phase'[w] = "loaded"
         /\ \A v \in Workers : v # w /\ Mutating(v)' =>
              /\ Mutating(v) /\ phase'[v] = phase[v]
              /\ job'[v].id = job[v].id /\ job'[v].base = job[v].base
              /\ job'[v].rec = job[v].rec
  <1> USE DEF Begin
  <1>1. /\ job'[w] = [id |-> r, base |-> base, rec |-> rec, solo |-> ~Busy(r)]
        /\ phase[w] = "idle" /\ phase'[w] = "loaded"
    BY DEF IInv, TypeOK
  <1>2. ASSUME NEW v \in Workers, v # w, Mutating(v)'
        PROVE  /\ Mutating(v) /\ phase'[v] = phase[v]
               /\ job'[v].id = job[v].id /\ job'[v].base = job[v].base
               /\ job'[v].rec = job[v].rec
    <2>1. Mutating(v) /\ phase'[v] = phase[v] /\ job[v] \in Job
      BY <1>2, JobType DEF Mutating, IInv, TypeOK
    <2>2. CASE v \in MutatorsOf(r)
      <3>1. job'[v] = [job[v] EXCEPT !.solo = FALSE]
        BY <1>2, <2>2
      <3> QED
        BY <2>1, <3>1 DEF Job
    <2>3. CASE v \notin MutatorsOf(r)
      <3>1. job'[v] = job[v]
        BY <1>2, <2>3
      <3> QED
        BY <2>1, <3>1
    <2> QED
      BY <2>2, <2>3
  <1> QED
    BY <1>1, <1>2

LEMMA BeginRef ==
  ASSUME IInv, RefInv, NEW w \in Workers, NEW r \in Records, NEW rec,
         Builds(r, files[r].text, rec),
         Begin(w, r, files[r].text, rec)
  PROVE  RefInv'
  <1> DEFINE base == files[r].text
  <1>1. /\ job'[w] = [id |-> r, base |-> base, rec |-> rec, solo |-> ~Busy(r)]
        /\ phase[w] = "idle" /\ phase'[w] = "loaded"
        /\ \A v \in Workers : v # w /\ Mutating(v)' =>
              /\ Mutating(v) /\ phase'[v] = phase[v]
              /\ job'[v].id = job[v].id /\ job'[v].base = job[v].base
              /\ job'[v].rec = job[v].rec
    BY BeginOthers
  <1>2. /\ files' = files /\ disturbed \subseteq disturbed'
        /\ Busy(r) => r \in disturbed'
    BY DEF Begin
  <1>3. job'[w].id = r /\ job'[w].base = base /\ job'[w].rec = rec
    BY <1>1
  <1>4. ASSUME NEW v \in Workers, v # w, Mutating(v), job[v].id = r PROVE Busy(r)
    BY <1>4 DEF Busy, MutatorsOf, Mutating
  <1> HIDE DEF base
  <1>5. ASSUME NEW u \in Workers, NEW v \in Workers, Mutating(u)', Mutating(v)',
               job'[u].id = job'[v].id, job'[u].id \notin disturbed'
        PROVE  u = v
    <2>1. CASE u # w /\ v # w
      BY <1>1, <1>2, <1>5, <2>1 DEF RefInv
    <2>2. CASE u = w \/ v = w
      BY <1>1, <1>2, <1>3, <1>4, <1>5, <2>2
    <2> QED
      BY <2>1, <2>2
  <1>6. ASSUME NEW v \in Workers, Mutating(v)', job'[v].id \notin disturbed'
        PROVE  /\ Builds(job'[v].id, job'[v].base, job'[v].rec)
               /\ phase'[v] = "loaded" => files'[job'[v].id].text = job'[v].base
               /\ phase'[v] = "opened" => files'[job'[v].id] = Truncated
    <2>1. CASE v = w
      BY <1>1, <1>2, <1>3, <2>1 DEF base
    <2>2. CASE v # w
      BY <1>1, <1>2, <1>6, <2>2 DEF RefInv
    <2> QED
      BY <2>1, <2>2
  <1> QED
    BY <1>5, <1>6 DEF RefInv, Builds

\* register(), update() and deprecate() build on what they read.
LEMMA MutationRef ==
  ASSUME IInv, RefInv, NEW w \in Workers, NEW r \in Records,
         Register(w, r) \/ Update(w, r) \/ Deprecate(w, r)
  PROVE  RefInv'
  <1> DEFINE rec == files[r].text
  <1>1. nextTxn \in 1..MaxTxn
    BY MaxTxnAssumption DEF IInv, TypeOK, Register, Update, Deprecate, Begin
  <1>2. CASE Register(w, r)
    <2>1. PICK x \in PayloadsOf(r) : Begin(w, r, Absent, Registered(nextTxn, x))
      BY <1>2 DEF Register
    <2>2. rec = Absent
      BY <1>2 DEF Register, Exists
    <2>3. Builds(r, rec, Registered(nextTxn, x))
      BY <1>1, <2>2 DEF Builds
    <2> QED
      BY <2>1, <2>2, <2>3, BeginRef
  <1>3. ASSUME Parses(files[r])
        PROVE  rec \in SharedRecord /\ Newest(rec).id < nextTxn
    BY <1>3, ParsedType DEF IInv, GoodRecord
  <1>4. CASE Update(w, r)
    <2>1. PICK x \in PayloadsOf(r) : Begin(w, r, rec, Updated(rec, nextTxn, x))
      BY <1>4 DEF Update
    <2>2. rec \in SharedRecord /\ Newest(rec).id < nextTxn /\ ~rec.deprecated
      BY <1>3, <1>4 DEF Update
    <2>3. Builds(r, rec, Updated(rec, nextTxn, x))
      <3> HIDE DEF rec
      <3> QED
        BY <1>1, <2>2 DEF Builds
    <2> QED
      BY <2>1, <2>3, BeginRef
  <1>5. CASE Deprecate(w, r)
    <2>1. Begin(w, r, rec, DeprecatedOf(rec, nextTxn))
      BY <1>5 DEF Deprecate
    <2>2. rec \in SharedRecord /\ Newest(rec).id < nextTxn /\ ~rec.deprecated
      BY <1>3, <1>5 DEF Deprecate
    <2>3. Builds(r, rec, DeprecatedOf(rec, nextTxn))
      <3> HIDE DEF rec
      <3> QED
        BY <1>1, <2>2 DEF Builds
    <2> QED
      BY <2>1, <2>3, BeginRef
  <1> QED
    BY <1>2, <1>4, <1>5

LEMMA OpenRef ==
  ASSUME IInv, RefInv, NEW w \in Workers, Open(w)
  PROVE  RefInv'
  <1>1. job[w].id \in Records /\ Mutating(w)
    BY JobType DEF IInv, Open, Mutating
  <1>2. /\ job' = job /\ disturbed' = disturbed
        /\ files' = [files EXCEPT ![job[w].id] = Truncated]
        /\ phase'[w] = "opened"
        /\ \A v \in Workers : v # w => phase'[v] = phase[v]
    BY DEF Open, ghostVars, IInv, TypeOK
  <1>3. \A v \in Workers : Mutating(v)' => Mutating(v)
    BY <1>1, <1>2 DEF Mutating
  <1>4. \A u, v \in Workers :
          Mutating(u)' /\ Mutating(v)' /\ job'[u].id = job'[v].id
          /\ job'[u].id \notin disturbed' => u = v
    BY <1>2, <1>3 DEF RefInv
  <1>5. ASSUME NEW v \in Workers, Mutating(v)', job'[v].id \notin disturbed'
        PROVE  /\ Builds(job'[v].id, job'[v].base, job'[v].rec)
               /\ phase'[v] = "loaded" => files'[job'[v].id].text = job'[v].base
               /\ phase'[v] = "opened" => files'[job'[v].id] = Truncated
    <2>1. Mutating(v) /\ job[v].id \notin disturbed /\ job[v].id \in Records
      BY <1>2, <1>3, <1>5, JobType DEF Mutating, IInv
    <2>2. Builds(job'[v].id, job'[v].base, job'[v].rec)
      BY <1>2, <2>1 DEF RefInv
    <2>3. CASE v = w
      BY <1>1, <1>2, <2>2, <2>3 DEF IInv, TypeOK
    <2>4. CASE v # w
      <3>1. job[v].id # job[w].id
        BY <1>1, <2>1, <2>4 DEF RefInv
      <3>2. files'[job[v].id] = files[job[v].id]
        BY <1>2, <2>1, <3>1 DEF IInv, TypeOK
      <3> QED
        BY <1>2, <2>1, <2>2, <2>4, <3>2 DEF RefInv
    <2> QED
      BY <2>3, <2>4
  <1> QED
    BY <1>4, <1>5 DEF RefInv, Builds

LEMMA FlushRef ==
  ASSUME IInv, RefInv, NEW w \in Workers, Flush(w)
  PROVE  RefInv'
  <1>1. job[w].id \in Records /\ Mutating(w)
    BY JobType DEF IInv, Flush, Mutating
  <1>2. /\ disturbed' = disturbed
        /\ \A q \in Records : q # job[w].id => files'[q] = files[q]
    BY <1>1 DEF Flush, IInv, TypeOK
  <1>3. \A v \in Workers : Mutating(v)' =>
          v # w /\ Mutating(v) /\ phase'[v] = phase[v] /\ job'[v] = job[v]
    BY DEF IInv, TypeOK, Flush, Mutating
  <1>4. \A u, v \in Workers :
          Mutating(u)' /\ Mutating(v)' /\ job'[u].id = job'[v].id
          /\ job'[u].id \notin disturbed' => u = v
    BY <1>2, <1>3 DEF RefInv
  <1>5. ASSUME NEW v \in Workers, Mutating(v)', job'[v].id \notin disturbed'
        PROVE  /\ Builds(job'[v].id, job'[v].base, job'[v].rec)
               /\ phase'[v] = "loaded" => files'[job'[v].id].text = job'[v].base
               /\ phase'[v] = "opened" => files'[job'[v].id] = Truncated
    <2>1. /\ v # w /\ Mutating(v) /\ job[v].id \notin disturbed /\ job[v].id \in Records
          /\ phase'[v] = phase[v] /\ job'[v] = job[v]
      BY <1>2, <1>3, <1>5, JobType DEF Mutating, IInv
    <2>2. files'[job[v].id] = files[job[v].id]
      BY <1>1, <1>2, <2>1 DEF RefInv
    <2> QED
      BY <2>1, <2>2 DEF RefInv
  <1> QED
    BY <1>4, <1>5 DEF RefInv, Builds

LEMMA NextRef == IInv /\ RefInv /\ [Next]_vars => RefInv'
  <1> SUFFICES ASSUME IInv, RefInv, [Next]_vars PROVE RefInv'
    OBVIOUS
  <1>1. ASSUME NEW w \in Workers, NEW r \in Records, Request(w, r) PROVE RefInv'
    <2>1. CASE Register(w, r) \/ Update(w, r) \/ Deprecate(w, r)
      BY <2>1, MutationRef
    <2>2. CASE ResolveBegin(w, r)
      BY <2>2, QuietRef DEF ResolveBegin, storeVars, ghostVars, Mutating, IInv, TypeOK
    <2>3. CASE AnsweredAtOnce(w, r)
      BY <2>3, AnsweredFact, QuietRef DEF AnswerNow, storeVars, ghostVars, Mutating
    <2> QED
      BY <1>1, <2>1, <2>2, <2>3 DEF Request, AnsweredAtOnce
  <1>2. ASSUME NEW w \in Workers, ResolveEnd(w) PROVE RefInv'
    BY <1>2, QuietRef DEF ResolveEnd, storeVars, ghostVars, Mutating, IInv, TypeOK
  <1>3. ASSUME NEW w \in Workers, Step(w) PROVE RefInv'
    BY <1>2, <1>3, OpenRef, FlushRef DEF Step
  <1>4. CASE Crash
    BY <1>4, QuietRef DEF Crash, Mutating
  <1>5. CASE UNCHANGED vars
    BY <1>5, QuietRef DEF vars, storeVars, ghostVars, Mutating
  <1> QED
    BY <1>1, <1>3, <1>4, <1>5 DEF Next

\* Visible, as a function of the state, so that one lemma speaks of the
\* state before a step and of the one after it.
See(f, ph, jb, ds, r) ==
  IF r \in ds THEN NoJob
  ELSE LET mutators == {v \in Workers : ph[v] \in {"loaded", "opened"} /\ jb[v].id = r}
       IN  IF \E w \in mutators : ph[w] = "opened"
             THEN jb[CHOOSE w \in mutators : ph[w] = "opened"].base
             ELSE f[r].text

\* An undisturbed record is what its one saver started from, or its file.
LEMMA SeeFact ==
  ASSUME NEW f, NEW ph, NEW jb, NEW ds, NEW r, r \notin ds,
         \A u, v \in Workers :
           ph[u] = "opened" /\ ph[v] = "opened" /\ jb[u].id = r /\ jb[v].id = r => u = v
  PROVE  /\ \A w \in Workers : ph[w] = "opened" /\ jb[w].id = r =>
              See(f, ph, jb, ds, r) = jb[w].base
         /\ (\A w \in Workers : ~(ph[w] = "opened" /\ jb[w].id = r)) =>
              See(f, ph, jb, ds, r) = f[r].text
  <1> DEFINE mutators == {v \in Workers : ph[v] \in {"loaded", "opened"} /\ jb[v].id = r}
             chosen == CHOOSE w \in mutators : ph[w] = "opened"
  <1>1. See(f, ph, jb, ds, r) =
          IF \E w \in mutators : ph[w] = "opened" THEN jb[chosen].base ELSE f[r].text
    BY DEF See
  <1>2. (\E w \in mutators : ph[w] = "opened") => chosen \in mutators /\ ph[chosen] = "opened"
    OBVIOUS
  <1>3. \A w : w \in mutators /\ ph[w] = "opened" <=>
               w \in Workers /\ ph[w] = "opened" /\ jb[w].id = r
    OBVIOUS
  <1> HIDE DEF mutators, chosen
  <1>4. ASSUME NEW w \in Workers, ph[w] = "opened", jb[w].id = r
        PROVE  See(f, ph, jb, ds, r) = jb[w].base
    <2>1. \E v \in mutators : ph[v] = "opened"
      BY <1>3, <1>4
    <2>2. chosen = w
      BY <1>2, <1>3, <1>4, <2>1
    <2> QED
      BY <1>1, <2>1, <2>2
  <1>5. ASSUME \A w \in Workers : ~(ph[w] = "opened" /\ jb[w].id = r)
        PROVE  See(f, ph, jb, ds, r) = f[r].text
    <2>1. ~(\E v \in mutators : ph[v] = "opened")
      BY <1>3, <1>5
    <2> QED
      BY <1>1, <2>1
  <1> QED
    BY <1>4, <1>5

LEMMA VisibleIsSee ==
  ASSUME NEW r \in Records
  PROVE  /\ Visible(r) = See(files, phase, job, disturbed, r)
         /\ Visible(r)' = See(files', phase', job', disturbed', r)
  BY DEF Visible, See, MutatorsOf

-----------------------------------------------------------------------------

\* No record changes but for becoming disturbed.
LEMMA QuietStep ==
  ASSUME \A r \in Records : Visible(r)' = Visible(r) \/ Visible(r)' = NoJob
  PROVE  Abstract!Disturb
  <1>1. Abstract!Records = Records
    BY DEF Abstract!Records, Records
  <1> QED
    BY <1>1 DEF Abstract!Disturb

\* One record changes, by an operation on what everybody sees of it.
LEMMA OperationStep ==
  ASSUME NEW r \in Records, Builds(r, Visible(r), Visible(r)'),
         \A q \in Records : q # r => Visible(q)' = Visible(q)
  PROVE  Abstract!RegistryNext
  <1> DEFINE cells == [q \in Records |-> Visible(q)]
             base == Visible(r)
             rec == Visible(r)'
  <1>1. Abstract!Records = Records /\ Abstract!PayloadsOf(r) = PayloadsOf(r)
    BY DEF Abstract!Records, Records, Abstract!PayloadsOf, PayloadsOf, Abstract!Payload, Payload
  <1>2. cells' = [cells EXCEPT ![r] = rec] /\ cells[r] = base
    OBVIOUS
  <1>3. PICK id \in 1..MaxTxn :
          \/ base = Absent /\ \E x \in PayloadsOf(r) : rec = Registered(id, x)
          \/ /\ base \in SharedRecord /\ ~base.deprecated /\ Newest(base).id < id
             /\ \/ \E x \in PayloadsOf(r) : rec = Updated(base, id, x)
                \/ rec = DeprecatedOf(base, id)
    BY DEF Builds
  <1>4. base \in SharedRecord => base # Absent /\ base # NoJob
    BY SentinelAssumption DEF NotAText
  <1>5. /\ Abstract!Newest(base) = Newest(base)
        /\ Abstract!DeprecatedOf(base, id) = DeprecatedOf(base, id)
        /\ \A x : Abstract!Registered(id, x) = Registered(id, x)
        /\ \A x : Abstract!Updated(base, id, x) = Updated(base, id, x)
    BY DEF Abstract!Newest, Newest, Abstract!DeprecatedOf, DeprecatedOf, Abstract!Registered,
           Registered, Abstract!Updated, Updated, Abstract!Extended, Extended
  <1> HIDE DEF base, rec
  <1>6. CASE base = Absent /\ \E x \in PayloadsOf(r) : rec = Registered(id, x)
    <2>1. Abstract!AtomicRegister(r)
      BY <1>1, <1>2, <1>5, <1>6 DEF Abstract!AtomicRegister
    <2> QED
      BY <1>1, <2>1 DEF Abstract!RegistryNext
  <1>7. CASE /\ base \in SharedRecord /\ ~base.deprecated /\ Newest(base).id < id
             /\ \E x \in PayloadsOf(r) : rec = Updated(base, id, x)
    <2>1. PICK x \in PayloadsOf(r) : rec = Updated(base, id, x)
      BY <1>7
    <2>2. Abstract!Live(r)
      BY <1>2, <1>4, <1>7 DEF Abstract!Live
    <2>3. Newest(cells[r]).id < id /\ cells' = [cells EXCEPT ![r] = Updated(cells[r], id, x)]
      BY <1>2, <1>7, <2>1
    <2>4. Abstract!Newest(cells[r]) = Newest(cells[r])
          /\ Abstract!Updated(cells[r], id, x) = Updated(cells[r], id, x)
      BY <1>2, <1>5
    <2>5. Abstract!AtomicUpdate(r)
      BY <1>1, <2>2, <2>3, <2>4 DEF Abstract!AtomicUpdate
    <2> QED
      BY <1>1, <2>5 DEF Abstract!RegistryNext
  <1>8. CASE /\ base \in SharedRecord /\ ~base.deprecated /\ Newest(base).id < id
             /\ rec = DeprecatedOf(base, id)
    <2>1. Abstract!AtomicDeprecate(r)
      BY <1>1, <1>2, <1>4, <1>5, <1>8 DEF Abstract!AtomicDeprecate, Abstract!Live
    <2> QED
      BY <1>1, <2>1 DEF Abstract!RegistryNext
  <1> QED
    BY <1>3, <1>6, <1>7, <1>8

\* What is visible of an undisturbed record, before and after a step.
LEMMA VisibleBefore ==
  ASSUME RefInv, NEW r \in Records
  PROVE  /\ r \in disturbed => Visible(r) = NoJob
         /\ r \notin disturbed =>
              /\ \A w \in Workers : phase[w] = "opened" /\ job[w].id = r =>
                   Visible(r) = job[w].base
              /\ (\A w \in Workers : ~(phase[w] = "opened" /\ job[w].id = r)) =>
                   Visible(r) = files[r].text
  <1>1. r \notin disturbed =>
          \A u, v \in Workers :
            phase[u] = "opened" /\ phase[v] = "opened" /\ job[u].id = r /\ job[v].id = r => u = v
    BY DEF RefInv, Mutating
  <1>2. r \in disturbed => See(files, phase, job, disturbed, r) = NoJob
    BY DEF See
  <1> QED
    BY <1>1, <1>2, SeeFact, VisibleIsSee

LEMMA VisibleAfter ==
  ASSUME RefInv', NEW r \in Records
  PROVE  /\ r \in disturbed' => Visible(r)' = NoJob
         /\ r \notin disturbed' =>
              /\ \A w \in Workers : phase'[w] = "opened" /\ job'[w].id = r =>
                   Visible(r)' = job'[w].base
              /\ (\A w \in Workers : ~(phase'[w] = "opened" /\ job'[w].id = r)) =>
                   Visible(r)' = files'[r].text
  <1>1. r \notin disturbed' =>
          \A u, v \in Workers :
            phase'[u] = "opened" /\ phase'[v] = "opened" /\ job'[u].id = r /\ job'[v].id = r
              => u = v
    BY DEF RefInv, Mutating
  <1>2. r \in disturbed' => See(files', phase', job', disturbed', r) = NoJob
    BY DEF See
  <1> QED
    BY <1>1, <1>2, SeeFact, VisibleIsSee

\* A step that opens, ends or begins no save of an undisturbed record, and
\* changes no file, changes nothing visible.
LEMMA UnseenStep ==
  ASSUME IInv, RefInv, RefInv', files' = files, disturbed \subseteq disturbed',
         \A v \in Workers, r \in Records : r \notin disturbed' =>
           (/\ phase'[v] = "opened" /\ job'[v].id = r
              <=> phase[v] = "opened" /\ job[v].id = r)
           /\ (phase[v] = "opened" /\ job[v].id = r => job'[v].base = job[v].base)
  PROVE  Abstract!Disturb
  <1>1. ASSUME NEW r \in Records PROVE Visible(r)' = Visible(r) \/ Visible(r)' = NoJob
    <2>1. CASE r \in disturbed'
      BY <2>1, VisibleAfter
    <2>2. CASE r \notin disturbed'
      <3>1. CASE \E w \in Workers : phase[w] = "opened" /\ job[w].id = r
        <4>1. PICK w \in Workers : phase[w] = "opened" /\ job[w].id = r
          BY <3>1
        <4>2. phase'[w] = "opened" /\ job'[w].id = r /\ job'[w].base = job[w].base
          BY <2>2, <4>1
        <4> QED
          BY <2>2, <4>1, <4>2, VisibleBefore, VisibleAfter
      <3>2. CASE \A w \in Workers : ~(phase[w] = "opened" /\ job[w].id = r)
        <4>1. \A w \in Workers : ~(phase'[w] = "opened" /\ job'[w].id = r)
          BY <2>2, <3>2
        <4> QED
          BY <2>2, <3>2, <4>1, VisibleBefore, VisibleAfter
      <3> QED
        BY <3>1, <3>2
    <2> QED
      BY <2>1, <2>2
  <1> QED
    BY <1>1, QuietStep

\* A handler that has read and built changes nothing visible yet.
LEMMA BeginUnseen ==
  ASSUME IInv, RefInv, RefInv', NEW w \in Workers, NEW r \in Records, NEW base, NEW rec,
         Begin(w, r, base, rec)
  PROVE  Abstract!Disturb
  <1>1. /\ phase[w] = "idle" /\ phase'[w] = "loaded"
        /\ \A v \in Workers : v # w /\ Mutating(v)' =>
              /\ phase'[v] = phase[v]
              /\ job'[v].id = job[v].id /\ job'[v].base = job[v].base
    BY BeginOthers
  <1>2. \A v \in Workers : v # w => phase'[v] = phase[v]
    BY DEF Begin, IInv, TypeOK
  <1>3. files' = files /\ disturbed \subseteq disturbed'
    BY DEF Begin
  <1>4. \A v \in Workers : phase[v] = "opened" \/ phase'[v] = "opened" =>
          /\ v # w /\ phase'[v] = phase[v]
          /\ job'[v].id = job[v].id /\ job'[v].base = job[v].base
    BY <1>1, <1>2 DEF Mutating
  <1> QED
    BY <1>3, <1>4, UnseenStep

\* Truncating the file shows what the handler started from: the same record.
LEMMA OpenUnseen ==
  ASSUME IInv, RefInv, RefInv', NEW w \in Workers, Open(w)
  PROVE  Abstract!Disturb
  <1>1. /\ job[w].id \in Records /\ Mutating(w) /\ phase[w] = "loaded"
        /\ phase'[w] = "opened" /\ job' = job /\ disturbed' = disturbed
    BY JobType DEF IInv, TypeOK, Open, ghostVars, Mutating
  <1>2. /\ \A v \in Workers : v # w => phase'[v] = phase[v]
        /\ \A r \in Records : r # job[w].id => files'[r] = files[r]
    BY DEF IInv, TypeOK, Open
  <1>3. ASSUME NEW r \in Records PROVE Visible(r)' = Visible(r) \/ Visible(r)' = NoJob
    <2>1. CASE r \in disturbed
      BY <1>1, <2>1, VisibleAfter
    <2>2. CASE r \notin disturbed /\ r = job[w].id
      <3>1. Visible(r)' = job[w].base
        BY <1>1, <2>2, VisibleAfter
      <3>2. files[r].text = job[w].base
        BY <1>1, <2>2 DEF RefInv
      <3>3. \A v \in Workers : ~(phase[v] = "opened" /\ job[v].id = r)
        BY <1>1, <2>2 DEF RefInv, Mutating
      <3>4. Visible(r) = files[r].text
        BY <2>2, <3>3, VisibleBefore
      <3> QED
        BY <3>1, <3>2, <3>4
    <2>3. CASE r \notin disturbed /\ r # job[w].id
      <3>1. CASE \E v \in Workers : phase[v] = "opened" /\ job[v].id = r
        <4>1. PICK v \in Workers : phase[v] = "opened" /\ job[v].id = r
          BY <3>1
        <4>2. phase'[v] = "opened" /\ job'[v] = job[v]
          BY <1>1, <1>2, <2>3, <4>1
        <4> QED
          BY <1>1, <2>3, <4>1, <4>2, VisibleBefore, VisibleAfter
      <3>2. CASE \A v \in Workers : ~(phase[v] = "opened" /\ job[v].id = r)
        <4>1. \A v \in Workers : ~(phase'[v] = "opened" /\ job'[v].id = r)
          BY <1>1, <1>2, <2>3, <3>2
        <4> QED
          BY <1>1, <1>2, <2>3, <3>2, <4>1, VisibleBefore, VisibleAfter
      <3> QED
        BY <3>1, <3>2
    <2> QED
      BY <2>1, <2>2, <2>3
  <1> QED
    BY <1>3, QuietStep

\* The end of a save is the operation.
LEMMA FlushSeen ==
  ASSUME IInv, RefInv, RefInv', NEW w \in Workers, Flush(w)
  PROVE  Abstract!RegistryNext
  <1>1. PICK r \in Records, rec \in SharedRecord :
          r = job[w].id /\ rec = job[w].rec
    BY JobType DEF IInv, Flush
  <1>2. /\ Mutating(w) /\ phase[w] = "opened" /\ disturbed' = disturbed
        /\ phase'[w] = "idle"
        /\ \A v \in Workers : v # w => phase'[v] = phase[v] /\ job'[v] = job[v]
        /\ files'[r] = Written(files[r], rec)
        /\ \A q \in Records : q # r => files'[q] = files[q]
    BY <1>1 DEF IInv, TypeOK, Flush, Mutating
  <1>3. ASSUME NEW q \in Records, q # r \/ q \in disturbed
        PROVE  Visible(q)' = Visible(q)
    <2>1. CASE q \in disturbed
      BY <1>2, <2>1, VisibleBefore, VisibleAfter
    <2>2. CASE q \notin disturbed
      <3>1. CASE \E v \in Workers : phase[v] = "opened" /\ job[v].id = q
        <4>1. PICK v \in Workers : phase[v] = "opened" /\ job[v].id = q
          BY <3>1
        <4>2. phase'[v] = "opened" /\ job'[v] = job[v]
          BY <1>1, <1>2, <1>3, <2>2, <4>1
        <4> QED
          BY <1>2, <2>2, <4>1, <4>2, VisibleBefore, VisibleAfter
      <3>2. CASE \A v \in Workers : ~(phase[v] = "opened" /\ job[v].id = q)
        <4>1. \A v \in Workers : ~(phase'[v] = "opened" /\ job'[v].id = q)
          BY <1>2, <3>2
        <4> QED
          BY <1>2, <1>3, <2>2, <3>2, <4>1, VisibleBefore, VisibleAfter
      <3> QED
        BY <3>1, <3>2
    <2> QED
      BY <2>1, <2>2
  <1>4. CASE r \in disturbed
    <2>1. Abstract!Disturb
      BY <1>3, <1>4, QuietStep
    <2> QED
      BY <2>1 DEF Abstract!RegistryNext
  <1>5. CASE r \notin disturbed
    <2>1. files[r] = Truncated /\ Builds(r, job[w].base, rec)
      BY <1>1, <1>2, <1>5 DEF RefInv
    <2>2. Visible(r) = job[w].base
      BY <1>1, <1>2, <1>5, VisibleBefore
    <2>3. files'[r].text = rec
      <3>1. rec.size \in Nat
        BY DEF SharedRecord
      <3>2. rec.size >= Truncated.extent
        BY <3>1 DEF Truncated
      <3> QED
        BY <1>2, <2>1, <3>2 DEF Written
    <2>4. \A v \in Workers : ~(phase'[v] = "opened" /\ job'[v].id = r)
      BY <1>1, <1>2, <1>5 DEF RefInv, Mutating
    <2>5. Visible(r)' = rec
      BY <1>2, <1>5, <2>3, <2>4, VisibleAfter
    <2>6. Builds(r, Visible(r), Visible(r)')
      BY <2>1, <2>2, <2>5
    <2> QED
      BY <1>3, <2>6, OperationStep
  <1> QED
    BY <1>4, <1>5

\* Whatever else happens is not seen, or disturbs.
LEMMA CrashUnseen ==
  ASSUME IInv, RefInv, RefInv', Crash
  PROVE  Abstract!Disturb
  <1>1. /\ files' = files /\ disturbed \subseteq disturbed'
        /\ \A v \in Workers : phase'[v] = "idle"
        /\ \A v \in Workers : phase[v] = "opened" => job[v].id \in disturbed'
    BY DEF Crash
  <1> QED
    BY <1>1, UnseenStep

LEMMA StepRefines ==
  IInv /\ RefInv /\ RefInv' /\ [Next]_vars =>
    [Abstract!RegistryNext]_([r \in Records |-> Visible(r)])
  <1> SUFFICES ASSUME IInv, RefInv, RefInv', [Next]_vars
               PROVE  Abstract!RegistryNext
                        \/ UNCHANGED [r \in Records |-> Visible(r)]
    OBVIOUS
  <1>1. ASSUME Abstract!Disturb PROVE Abstract!RegistryNext
    BY <1>1 DEF Abstract!RegistryNext
  <1>2. ASSUME files' = files, disturbed' = disturbed,
               \A v \in Workers : phase[v] = "opened" \/ phase'[v] = "opened" =>
                 phase'[v] = phase[v] /\ job'[v] = job[v]
        PROVE  Abstract!Disturb
    BY <1>2, UnseenStep
  <1>3. ASSUME NEW w \in Workers, NEW r \in Records, Request(w, r)
        PROVE  Abstract!Disturb
    <2>1. CASE Register(w, r) \/ Update(w, r) \/ Deprecate(w, r)
      BY <2>1, BeginUnseen DEF Register, Update, Deprecate
    <2>2. CASE ResolveBegin(w, r)
      BY <1>2, <2>2 DEF ResolveBegin, storeVars, ghostVars, IInv, TypeOK
    <2>3. CASE AnsweredAtOnce(w, r)
      BY <1>2, <2>3, AnsweredFact DEF AnswerNow, storeVars, ghostVars
    <2> QED
      BY <1>3, <2>1, <2>2, <2>3 DEF Request, AnsweredAtOnce
  <1>4. ASSUME NEW w \in Workers, ResolveEnd(w) PROVE Abstract!Disturb
    BY <1>2, <1>4 DEF ResolveEnd, storeVars, ghostVars, IInv, TypeOK
  <1>5. ASSUME NEW w \in Workers, Step(w) PROVE Abstract!RegistryNext
    BY <1>1, <1>4, <1>5, OpenUnseen, FlushSeen DEF Step
  <1>6. CASE UNCHANGED vars
    BY <1>1, <1>2, <1>6 DEF vars, storeVars, ghostVars
  <1> QED
    BY <1>1, <1>3, <1>5, <1>6, CrashUnseen DEF Next

\* The unlocked, crashing stores implement the atomic registry: a record is
\* an atomic cell until two mutations of it overlap or a save is cut short.
THEOREM RegistryImplemented == Spec => ImplementsRegistry
  <1>1. Init => RefInv
    BY DEF Init, RefInv, Mutating
  <1>2. Init => Abstract!RegistryInit
    <2> SUFFICES ASSUME Init PROVE Abstract!RegistryInit
      OBVIOUS
    <2>1. ASSUME NEW r \in Records PROVE Visible(r) = Absent
      <3>1. RefInv /\ r \notin disturbed /\ \A w \in Workers : phase[w] # "opened"
        BY <1>1 DEF Init
      <3>2. files[r].text = Absent
        BY DEF Init, NoFile
      <3> QED
        BY <3>1, <3>2, VisibleBefore
    <2> QED
      BY <2>1 DEF Abstract!RegistryInit, Abstract!Records, Records
  <1>3. Spec => []RefInv
    BY <1>1, InvariantHolds, NextRef, PTL DEF Spec
  <1> QED
    BY <1>2, <1>3, InvariantHolds, StepRefines, PTL
    DEF Spec, ImplementsRegistry, Abstract!RegistrySpec
=============================================================================
