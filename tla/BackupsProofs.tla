--------------------------- MODULE BackupsProofs ---------------------------
(***************************************************************************)
(* Proofs about Backups, for every value of its constants: what is pruned  *)
(* leaves MinKeep verified files, and the records describe the bucket.     *)
(***************************************************************************)
EXTENDS Backups, FiniteSetTheorems, TLAPS

Active == {c \in Callers : calls[c] # None}

\* A run is stopped when its time is up.
Timely == \A c \in Active : calls[c].key <= clock /\ clock <= calls[c].key + MaxRun

\* An object dates from the run that wrote it.
Dated ==
    \A k \in Stored :
        /\ k <= bucket[k].at
        /\ bucket[k].at <= clock
        /\ bucket[k].at <= k + MaxRun

\* The row comes first, then the object, then the verdict.
Holding == {c \in Active : calls[c].step \in {"upload", "read", "finish"}}
Writing == {c \in Active : calls[c].step \in {"upload", "read"}}

OnRecord ==
    /\ Stored \subseteq Recorded
    /\ proved \subseteq Recorded
    /\ Verified \subseteq proved
    /\ \A c \in Holding : calls[c].key \in Recorded
    /\ \A c \in Holding \ Writing : calls[c].sound => calls[c].key \in Stored

\* Unless a second run takes the key, the file under it is the first one's.
Single ==
    \A c \in Holding : calls[c].key \notin contested =>
        /\ calls[c].key \notin proved
        /\ \A b \in Holding : calls[b].key = calls[c].key => b = c
        /\ c \in Writing => records[calls[c].key].file = calls[c].file
        /\ c \notin Writing /\ calls[c].sound => AsRecorded(calls[c].key)

ProvedStands == \A k \in proved \cap Stored : k \in contested \/ AsRecorded(k)

\* The verified files that are there and newer than t.
NewerThan(t) == {j \in proved : Standing(j) /\ bucket[j].at > t}
Enough(t) == Cardinality(NewerThan(t)) >= MinKeep

\* What a run has listed is there, or MinKeep newer files are.
Known(call) ==
    \A k \in Moments : call.listed[k] # None =>
        /\ k <= call.listed[k]
        /\ call.listed[k] <= clock
        /\ k \notin Stored => Enough(call.listed[k])
        /\ k \in Stored => \/ bucket[k].at = call.listed[k]
                           \/ /\ call.listed[k] <= bucket[k].at
                              /\ call.key <= bucket[k].at

ListedIsKnown == \A c \in Callers : At(c, "choose") => Known(calls[c])

Pruning(c) == At(c, "expire") \/ At(c, "mark")

\* What is to expire is past being written again, and MinKeep newer files are there.
Old(call) ==
    \A k \in Moments : call.listed[k] # None =>
        /\ k <= call.listed[k]
        /\ call.listed[k] + Retention < clock
        /\ k \in Stored => bucket[k].at = call.listed[k]
        /\ Enough(call.listed[k])

DoomedIsOld == \A c \in Callers : Pruning(c) => Old(calls[c]) /\ Doomed(c) # {}

BackupsInv ==
    /\ TypeOK
    /\ Timely
    /\ Dated
    /\ OnRecord
    /\ Single
    /\ ProvedStands
    /\ ListedIsKnown
    /\ DoomedIsOld
    /\ MinimumIsKept
-----------------------------------------------------------------------------
LEMMA MomentsAreNat == Moments \subseteq Nat
BY DEF Moments

LEMMA MomentsFinite == IsFiniteSet(Moments)
BY FS_Interval, BoundsAssumption DEF Moments

\* A larger set of moments has as many.
LEMMA EnoughGrows ==
    ASSUME NEW S, NEW T \in SUBSET Moments, S \subseteq T, Cardinality(S) >= MinKeep
    PROVE  Cardinality(T) >= MinKeep
<1>1. IsFiniteSet(T) /\ IsFiniteSet(S)
  BY MomentsFinite, FS_Subset
<1>2. Cardinality(S) <= Cardinality(T) /\ Cardinality(S) \in Nat /\ Cardinality(T) \in Nat
  BY <1>1, FS_Subset, FS_CardinalityType
<1>3. QED
  BY <1>2, BoundsAssumption

\* What a call carries at each step.
LEMMA CallTypes ==
    ASSUME TypeOK, NEW c \in Callers, calls[c] # None
    PROVE  /\ calls[c] \in Call
           /\ calls[c].key \in Moments
           /\ calls[c].step \in {"upload", "read"} => calls[c].file \in File
           /\ calls[c].step = "finish" => calls[c].sound \in BOOLEAN
           /\ calls[c].step \in {"choose", "expire", "mark"} => calls[c].listed \in Listing
BY DEF TypeOK, Call

\* The rows and the objects, and the numbers they hold.
LEMMA RowTypes ==
    ASSUME TypeOK, NEW k \in Moments
    PROVE  /\ k \in Nat /\ clock \in Nat
           /\ k \in Stored => bucket[k] \in Object /\ bucket[k].at \in Moments
           /\ k \in Recorded => records[k] \in Run /\ records[k].file \in File
BY BoundsAssumption DEF TypeOK, Stored, Recorded, Object, Run, Moments

\* Only the status of rows changes, and with it nothing that is verified.
SameRows ==
    /\ records' \in [Moments -> Run \cup {None}]
    /\ \A k \in Moments : records'[k] # None <=> records[k] # None
    /\ \A k \in Recorded : records'[k].file = records[k].file
    /\ Verified' \subseteq Verified
    /\ UNCHANGED <<bucket, proved, contested>>

LEMMA SameFiles ==
    ASSUME BackupsInv, SameRows
    PROVE  /\ \A t : Enough(t)' = Enough(t)
           /\ Stored' = Stored /\ Recorded' = Recorded
           /\ \A k \in Recorded : AsRecorded(k)' = AsRecorded(k)
           /\ MinimumIsKept' = MinimumIsKept
           /\ ProvedStands' = ProvedStands
<1>1. Stored' = Stored /\ Recorded' = Recorded
  BY DEF SameRows, Stored, Recorded
<1>2. \A k \in Recorded : AsRecorded(k)' = AsRecorded(k)
  BY DEF SameRows, AsRecorded
<1>3. \A k \in proved : Standing(k)' = Standing(k)
  BY <1>1, <1>2 DEF SameRows, BackupsInv, OnRecord, Standing
<1>4. \A t : NewerThan(t)' = NewerThan(t)
  BY <1>3 DEF NewerThan, SameRows
<1>5. {k \in proved : Standing(k)}' = {k \in proved : Standing(k)}
  BY <1>3 DEF SameRows
<1>6. MinimumIsKept' = MinimumIsKept
  BY <1>1, <1>5 DEF MinimumIsKept, SameRows
<1>7. ProvedStands' = ProvedStands
  BY <1>1, <1>2 DEF ProvedStands, SameRows, BackupsInv, OnRecord
<1>8. QED
  BY <1>1, <1>2, <1>4, <1>6, <1>7 DEF Enough

\* What a call must be for the run it stands for to go on.
GoesOn(c, call) ==
    /\ call \in Call
    /\ call.key <= clock /\ clock <= call.key + MaxRun
    /\ call.step \in {"upload", "read", "finish"} =>
         /\ c \in Holding /\ calls[c].key = call.key
         /\ call.step # "finish" => c \in Writing /\ calls[c].file = call.file
         /\ call.step = "finish" /\ call.sound =>
              /\ call.key \in Stored
              /\ call.key \notin contested => AsRecorded(call.key)
    /\ call.step = "choose" => Known(call)
    /\ call.step \in {"expire", "mark"} =>
         Old(call) /\ \E k \in Moments : call.listed[k] # None

\* A step that changes the call, and of the files no more than the status of rows.
LEMMA CallStep ==
    ASSUME BackupsInv, NEW c \in Callers, NEW call, Goes(c, call),
           call = None \/ (call # None /\ GoesOn(c, call)),
           SameRows, UNCHANGED <<clock, db>>,
           called' \in 0..MaxCalls, faults' \in 0..MaxFaults
    PROVE  BackupsInv'
<1>1. /\ calls \in [Callers -> Call \cup {None}]
      /\ calls'[c] = call /\ \A b \in Callers \ {c} : calls'[b] = calls[b]
  BY DEF BackupsInv, TypeOK, Goes
<1>2. TypeOK'
  BY <1>1 DEF BackupsInv, TypeOK, Goes, GoesOn, SameRows
<1>3. Timely'
  BY <1>1 DEF BackupsInv, Timely, Active, GoesOn
<1>4. Dated'
  BY DEF BackupsInv, Dated, Stored, SameRows
<1>5. Holding' \subseteq Holding /\ Writing' \subseteq Writing
  BY <1>1 DEF Holding, Writing, Active, GoesOn
<1>6. \A b \in Holding' : calls'[b].key = calls[b].key
  BY <1>1 DEF Holding, Active, GoesOn
<1>7. OnRecord'
  <2>1. \A b \in (Holding \ Writing)' : calls'[b].sound => calls'[b].key \in Stored
    BY <1>1, <1>5 DEF BackupsInv, OnRecord, Holding, Writing, Active, GoesOn
  <2>2. QED
    BY <1>5, <1>6, <2>1, SameFiles DEF BackupsInv, OnRecord, SameRows
<1>8. Single'
  <2> SUFFICES ASSUME NEW b \in Holding', calls'[b].key \notin contested
               PROVE  /\ calls'[b].key \notin proved
                      /\ \A d \in Holding' : calls'[d].key = calls'[b].key => d = b
                      /\ b \in Writing' => records[calls'[b].key].file = calls'[b].file
                      /\ b \notin Writing' /\ calls'[b].sound => AsRecorded(calls'[b].key)
    <3>1. \A b \in Holding' : calls'[b].key \in Recorded
      BY <1>5, <1>6 DEF BackupsInv, OnRecord
    <3>2. QED
      BY <1>5, <3>1, SameFiles DEF Single, SameRows, Holding, Writing
  <2>1. CASE b = c
    BY <1>1, <1>5, <1>6, <2>1 DEF BackupsInv, Single, Holding, Writing, Active, GoesOn
  <2>2. CASE b # c
    <3>1. calls'[b] = calls[b] /\ b \in Holding
      BY <1>1, <1>5, <2>2 DEF Holding, Active
    <3>2. b \in Writing' <=> b \in Writing
      BY <3>1 DEF Writing, Active, Holding
    <3>3. QED
      BY <1>5, <1>6, <3>1, <3>2 DEF BackupsInv, Single
  <2>3. QED
    BY <2>1, <2>2
<1>9. ListedIsKnown'
  <2>1. \A x : Known(x)' = Known(x)
    BY SameFiles DEF Known, SameRows
  <2>2. QED
    BY <1>1, <2>1 DEF BackupsInv, ListedIsKnown, At, GoesOn
<1>10. DoomedIsOld'
  <2>1. \A x : Old(x)' = Old(x)
    BY SameFiles DEF Old, SameRows
  <2>2. QED
    BY <1>1, <2>1 DEF BackupsInv, DoomedIsOld, Pruning, At, GoesOn, Doomed
<1>11. QED
  BY <1>2, <1>3, <1>4, <1>7, <1>8, <1>9, <1>10, SameFiles DEF BackupsInv
-----------------------------------------------------------------------------
LEMMA UnchangedRows ==
    ASSUME BackupsInv, UNCHANGED <<records, bucket, proved, contested>>
    PROVE  SameRows
BY DEF BackupsInv, TypeOK, SameRows, Verified, Recorded

LEMMA BeginHolds ==
    ASSUME BackupsInv, NEW c \in Callers, Begin(c), called' \in 0..MaxCalls
    PROVE  BackupsInv'
<1> DEFINE some == db.members > 0
           call == [step |-> "members", key |-> clock, filled |-> some]
<1>0. some \in BOOLEAN
  OBVIOUS
<1> HIDE DEF some
<1>1. call \in Call /\ call # None
  BY <1>0, RowAssumption DEF BackupsInv, TypeOK, Call
<1>2. clock <= clock + MaxRun
  BY BoundsAssumption DEF BackupsInv, TypeOK, Moments
<1>3. GoesOn(c, call)
  BY <1>1, <1>2, BoundsAssumption DEF GoesOn, BackupsInv, TypeOK, Moments
<1>4. Goes(c, call) /\ SameRows
  BY UnchangedRows DEF Begin, some
<1> HIDE DEF call
<1>5. QED
  BY <1>1, <1>3, <1>4, CallStep DEF Begin, BackupsInv, TypeOK

\* A call that ends, and rows that change their status at most.
LEMMA EndHolds ==
    ASSUME BackupsInv, NEW c \in Callers, Ends(c), SameRows, UNCHANGED <<clock, db>>,
           called' \in 0..MaxCalls, faults' \in 0..MaxFaults
    PROVE  BackupsInv'
BY CallStep DEF Ends

LEMMA FaultCount ==
    ASSUME TypeOK, faults < MaxFaults, faults' = faults + 1
    PROVE  faults' \in 0..MaxFaults
BY BoundsAssumption DEF TypeOK

LEMMA ReadMembersHolds ==
    ASSUME BackupsInv, NEW c \in Callers, ReadMembers(c)
    PROVE  BackupsInv'
<1> DEFINE n == IF calls[c].filled THEN db.members ELSE 0
           call == [step |-> "users", key |-> calls[c].key, filled |-> calls[c].filled,
                    members |-> n]
<1>1. calls[c].filled \in BOOLEAN /\ calls[c].key \in Moments /\ c \in Active
  BY DEF BackupsInv, TypeOK, Call, ReadMembers, At, Active
<1>2. n \in Rows
  BY BoundsAssumption DEF BackupsInv, TypeOK, Database, Rows
<1> HIDE DEF n
<1>3. call \in Call /\ call # None
  BY <1>1, <1>2, RowAssumption DEF Call
<1>4. GoesOn(c, call)
  BY <1>1, <1>3 DEF GoesOn, BackupsInv, Timely
<1>5. Goes(c, call) /\ SameRows
  BY UnchangedRows DEF ReadMembers, n
<1> HIDE DEF call
<1>6. QED
  BY <1>3, <1>4, <1>5, CallStep DEF ReadMembers, BackupsInv, TypeOK

LEMMA ReadBackHolds ==
    ASSUME BackupsInv, NEW c \in Callers, NEW s \in BOOLEAN, At(c, "read"),
           Goes(c, [step |-> "finish", key |-> calls[c].key, sound |-> s]),
           s => Passes(bucket[calls[c].key], calls[c].file),
           UNCHANGED <<clock, db, records, bucket, called, proved, contested>>,
           faults' \in 0..MaxFaults
    PROVE  BackupsInv'
<1> DEFINE call == [step |-> "finish", key |-> calls[c].key, sound |-> s]
<1>1. c \in Writing /\ c \in Holding /\ c \in Active /\ calls[c].key \in Moments
  BY CallTypes DEF At, Writing, Holding, Active, BackupsInv
<1>2. call \in Call /\ call # None
  BY <1>1, RowAssumption DEF Call
<1>3. s => calls[c].key \in Stored
  BY <1>1 DEF Passes, Stored
<1>4. s /\ calls[c].key \notin contested => AsRecorded(calls[c].key)
  BY <1>1 DEF BackupsInv, Single, AsRecorded, Passes
<1>5. GoesOn(c, call)
  BY <1>1, <1>2, <1>3, <1>4 DEF GoesOn, BackupsInv, Timely
<1>6. Goes(c, call) /\ SameRows
  BY UnchangedRows
<1> HIDE DEF call
<1>7. QED
  BY <1>2, <1>5, <1>6, CallStep DEF BackupsInv, TypeOK

LEMMA FinishFailedHolds ==
    ASSUME BackupsInv, NEW c \in Callers, FinishFailed(c)
    PROVE  BackupsInv'
<1> DEFINE k == calls[c].key
<1>1. k \in Recorded /\ k \in Moments
  BY CallTypes DEF BackupsInv, OnRecord, Holding, Active, FinishFailed, At
<1>2. records \in [Moments -> Run \cup {None}] /\ records[k] \in Run
  BY <1>1 DEF BackupsInv, TypeOK, Recorded
<1> DEFINE row == [records[k] EXCEPT !.status = "failed"]
<1>3. row \in Run /\ row # None /\ row.file = records[k].file /\ row.status = "failed"
  BY <1>2, RowAssumption DEF Run
<1>4. records' = [records EXCEPT ![k] = row]
  BY <1>1, <1>2 DEF FinishFailed
<1> HIDE DEF row, k
<1>5. SameRows
  BY <1>1, <1>2, <1>3, <1>4 DEF SameRows, FinishFailed, Recorded, Verified
<1>6. QED
  BY <1>5, EndHolds DEF FinishFailed, BackupsInv, TypeOK
-----------------------------------------------------------------------------
\* Files that stood stand, and are no older.
LEMMA StillEnough ==
    ASSUME proved' \subseteq Moments, proved \subseteq proved',
           \A j \in proved : Standing(j) => Standing(j)' /\ bucket'[j].at >= bucket[j].at,
           \A j \in proved \cup proved' :
              /\ Standing(j) => bucket[j].at \in Nat
              /\ Standing(j)' => bucket'[j].at \in Nat
    PROVE  /\ \A t \in Nat : Enough(t) => Enough(t)'
           /\ Cardinality({k \in proved : Standing(k)}) >= MinKeep =>
                Cardinality({k \in proved : Standing(k)}') >= MinKeep
<1>1. ASSUME NEW t \in Nat PROVE NewerThan(t) \subseteq NewerThan(t)'
  BY DEF NewerThan
<1>2. \A t \in Nat : NewerThan(t)' \in SUBSET Moments
  BY DEF NewerThan
<1>3. ASSUME NEW t \in Nat, Enough(t) PROVE Enough(t)'
  BY <1>1, <1>2, <1>3, EnoughGrows DEF Enough
<1>4. {k \in proved : Standing(k)} \subseteq {k \in proved : Standing(k)}'
  OBVIOUS
<1>5. QED
  BY <1>3, <1>4, EnoughGrows

LEMMA RecordRunHolds ==
    ASSUME BackupsInv, NEW c \in Callers, RecordRun(c)
    PROVE  BackupsInv'
<1> DEFINE k == calls[c].key
           file == Read(c)
           call == [step |-> "upload", key |-> k, file |-> file]
<1>0. k \in Moments /\ c \in Active /\ c \notin Holding
  BY CallTypes DEF BackupsInv, RecordRun, At, Active, Holding
<1>1. file \in File
  BY BoundsAssumption DEF BackupsInv, RecordRun, At, TypeOK, Call, Read, File, Database, Rows
<1>2. call \in Call /\ call # None /\ calls'[c] = call
      /\ \A b \in Callers \ {c} : calls'[b] = calls[b]
  BY <1>0, <1>1, RowAssumption DEF RecordRun, Goes, BackupsInv, TypeOK, Call
<1> DEFINE row == IF records[k] = None
                  THEN [status |-> "running", file |-> file, started |-> clock]
                  ELSE [records[k] EXCEPT !.status = "running"]
<1>3. row \in Run /\ row # None /\ row.status = "running"
      /\ (k \in Recorded => row.file = records[k].file)
      /\ (k \notin Recorded => row.file = file)
  BY <1>0, <1>1, RowAssumption DEF BackupsInv, TypeOK, Run, Recorded
<1>4. records' = [records EXCEPT ![k] = row]
  BY <1>0 DEF RecordRun, Recording, BackupsInv, TypeOK
<1>5. /\ contested' = contested \cup (IF k \in Recorded THEN {k} ELSE {})
      /\ UNCHANGED <<clock, db, bucket, called, faults, proved>>
  BY <1>0 DEF RecordRun, Recorded
<1>5a. call.step = "upload" /\ call.key = k /\ call.file = file
  OBVIOUS
<1> HIDE DEF row, file, call
<1>6. TypeOK'
  BY <1>0, <1>2, <1>3, <1>4, <1>5 DEF BackupsInv, TypeOK, RecordRun, Goes
<1>7. Timely' /\ Dated'
  BY <1>0, <1>2, <1>5, <1>5a DEF BackupsInv, Timely, Dated, Active, Stored
<1>8. Stored' = Stored /\ Recorded' = Recorded \cup {k} /\ Verified' \subseteq Verified
  BY <1>0, <1>3, <1>4, <1>5 DEF BackupsInv, TypeOK, Stored, Recorded, Verified
<1>9. /\ Holding' = Holding \cup {c} /\ Writing' = Writing \cup {c} /\ c \notin Writing
      /\ \A b \in Callers \ {c} : calls'[b] = calls[b]
  BY <1>0, <1>2, <1>5a DEF Holding, Writing, Active
<1>10. OnRecord'
  BY <1>0, <1>2, <1>5, <1>5a, <1>8, <1>9 DEF BackupsInv, OnRecord, Active, Holding
<1>11. \A j \in Recorded : AsRecorded(j)' <=> AsRecorded(j)
  BY <1>0, <1>3, <1>4, <1>5 DEF AsRecorded, BackupsInv, TypeOK, Recorded
<1>12. Single'
  <2> SUFFICES ASSUME NEW b \in Holding', calls'[b].key \notin contested'
               PROVE  /\ calls'[b].key \notin proved
                      /\ \A d \in Holding' : calls'[d].key = calls'[b].key => d = b
                      /\ b \in Writing' => records'[calls'[b].key].file = calls'[b].file
                      /\ b \notin Writing' /\ calls'[b].sound => AsRecorded(calls[b].key)'
    BY <1>5 DEF Single
  <2>1. \A d \in Holding : calls[d].key \in Recorded /\ d \in Callers
    BY DEF BackupsInv, OnRecord, Holding, Active
  <2>2. CASE b = c
    <3>1. k \notin Recorded
      BY <1>2, <1>5, <1>5a, <2>2
    <3>2. k \notin proved /\ \A d \in Holding : calls[d].key # k
      BY <2>1, <3>1 DEF BackupsInv, OnRecord
    <3>3. records'[k].file = file
      BY <1>0, <1>3, <1>4, <3>1 DEF BackupsInv, TypeOK
    <3>4. QED
      BY <1>0, <1>2, <1>5a, <1>9, <2>1, <2>2, <3>2, <3>3
  <2>3. CASE b # c
    <3>1. b \in Holding /\ calls'[b] = calls[b] /\ calls[b].key \in Recorded
          /\ calls[b].key # k /\ calls[b].key \in Moments
      BY <1>5, <1>9, <2>1, <2>3, CallTypes DEF BackupsInv, Holding, Active
    <3>2. records'[calls[b].key] = records[calls[b].key] /\ calls[b].key \notin contested
      BY <1>4, <1>5, <3>1 DEF BackupsInv, TypeOK
    <3>3. \A d \in Holding' : calls'[d].key = calls[b].key => d \in Holding /\ calls'[d] = calls[d]
      BY <1>2, <1>5a, <1>9, <2>1, <3>1
    <3>4. QED
      BY <1>9, <1>11, <2>3, <3>1, <3>2, <3>3 DEF BackupsInv, Single
  <2>4. QED
    BY <2>2, <2>3
<1>13. \A j \in proved : Standing(j) => Standing(j)'
  BY <1>5, <1>8, <1>11 DEF Standing, BackupsInv, OnRecord
<1>14. ProvedStands'
  BY <1>5, <1>8, <1>11 DEF ProvedStands, BackupsInv, OnRecord
<1>15. /\ \A t \in Nat : Enough(t) => Enough(t)'
       /\ Cardinality({j \in proved : Standing(j)}) >= MinKeep =>
            Cardinality({j \in proved : Standing(j)}') >= MinKeep
  <2>1. \A j \in Stored : bucket[j].at \in Nat
    BY RowTypes, BoundsAssumption DEF BackupsInv, Moments, Stored
  <2>2. \A j \in proved : Standing(j) \/ Standing(j)' => j \in Stored
    BY <1>8 DEF Standing
  <2>3. proved' = proved /\ proved \subseteq Moments /\ bucket' = bucket
    BY <1>5 DEF BackupsInv, TypeOK
  <2>4. QED
    BY <1>13, <2>1, <2>2, <2>3, StillEnough
<1>16. MinimumIsKept'
  BY <1>5, <1>8, <1>15 DEF MinimumIsKept, BackupsInv
<1>17. ListedIsKnown' /\ DoomedIsOld'
  <2>1. \A x : x \in Moments => x \in Nat
    BY DEF Moments
  <2>2. ASSUME NEW b \in Callers, At(b, "choose")' PROVE Known(calls[b])'
    BY <1>2, <1>5, <1>5a, <1>8, <1>15, <2>1, <2>2, CallTypes
       DEF BackupsInv, ListedIsKnown, Known, At, Listing
  <2>3. ASSUME NEW b \in Callers, Pruning(b)' PROVE Old(calls[b])' /\ Doomed(b)' # {}
    BY <1>2, <1>5, <1>5a, <1>8, <1>15, <2>1, <2>3, CallTypes
       DEF BackupsInv, DoomedIsOld, Old, Pruning, At, Listing, Doomed
  <2>4. QED
    BY <2>2, <2>3 DEF ListedIsKnown, DoomedIsOld
<1>18. QED
  BY <1>6, <1>7, <1>10, <1>12, <1>14, <1>16, <1>17 DEF BackupsInv

\* An object is written under the key of a run that has not read it back, and
\* the run goes on to read it or gives up.
LEMMA StoreHolds ==
    ASSUME BackupsInv, NEW c \in Callers, At(c, "upload"),
           NEW bytes \in File \cup {Torn}, NEW call, Goes(c, call),
           Storing(calls[c].key, bytes),
           call \in Call, call # None, call.key = calls[c].key,
           \/ call.step = "read" /\ call.file = calls[c].file
           \/ call.step = "finish" /\ ~ call.sound,
           UNCHANGED <<clock, db, records, called, proved, contested>>,
           faults' \in 0..MaxFaults
    PROVE  BackupsInv'
<1> DEFINE own == calls[c].key
<1>0. own \in Moments /\ c \in Active /\ c \in Holding /\ c \in Writing /\ own \in Recorded
  BY CallTypes DEF BackupsInv, At, Active, Holding, Writing, OnRecord
<1>1. /\ calls'[c] = call /\ calls' \in [Callers -> Call \cup {None}]
      /\ \A b \in Callers \ {c} : calls'[b] = calls[b]
  BY DEF BackupsInv, TypeOK, Goes
<1>2. own \in Nat /\ clock \in Nat /\ own <= clock /\ clock <= own + MaxRun
  BY <1>0, RowTypes DEF BackupsInv, Timely
<1>3. \A j \in Stored : bucket[j].at \in Nat /\ j \in Nat
  BY RowTypes, BoundsAssumption DEF BackupsInv, Moments, Stored
<1> DEFINE object == [file |-> bytes, at |-> clock]
<1>4. object \in Object /\ object # None /\ object.at = clock
  BY RowAssumption DEF Object, BackupsInv, TypeOK
<1> HIDE DEF object
<1>5. bucket' = [bucket EXCEPT ![own] = object]
  BY DEF Storing, object
<1>6. /\ bucket'[own] = object /\ \A j \in Moments \ {own} : bucket'[j] = bucket[j]
      /\ bucket' \in [Moments -> Object \cup {None}]
  BY <1>0, <1>4, <1>5 DEF BackupsInv, TypeOK
<1> HIDE DEF own
<1>7. Stored' = Stored \cup {own} /\ Recorded' = Recorded /\ Verified' = Verified
  BY <1>0, <1>4, <1>6 DEF Stored, Recorded, Verified
<1>8. TypeOK'
  BY <1>1, <1>6 DEF BackupsInv, TypeOK
<1>9. Timely'
  BY <1>0, <1>1, <1>2 DEF BackupsInv, Timely, Active, own
<1>10. Dated'
  <2> SUFFICES ASSUME NEW j \in Stored'
               PROVE  j <= bucket'[j].at /\ bucket'[j].at <= clock /\ bucket'[j].at <= j + MaxRun
    BY DEF Dated
  <2>1. CASE j = own
    BY <1>2, <1>4, <1>6, <2>1
  <2>2. CASE j # own
    BY <1>6, <1>7, <2>2 DEF BackupsInv, Dated, Stored
  <2>3. QED
    BY <2>1, <2>2
<1>11. Holding' = Holding /\ Writing' \subseteq Writing
       /\ \A b \in Holding : calls'[b].key = calls[b].key
  BY <1>0, <1>1 DEF Holding, Writing, Active
<1>12. OnRecord'
  <2>1. \A b \in Holding' \ Writing' : calls'[b].sound => b \in Holding \ Writing /\ calls'[b] = calls[b]
    BY <1>1 DEF Holding, Writing, Active
  <2>2. QED
    BY <1>0, <1>7, <1>11, <2>1 DEF BackupsInv, OnRecord
<1>13. \A j \in Moments \ {own} : AsRecorded(j)' <=> AsRecorded(j)
  BY <1>6 DEF AsRecorded
<1>14. Single'
  <2> SUFFICES ASSUME NEW b \in Holding', calls'[b].key \notin contested
               PROVE  /\ calls'[b].key \notin proved
                      /\ \A d \in Holding' : calls'[d].key = calls'[b].key => d = b
                      /\ b \in Writing' => records[calls'[b].key].file = calls'[b].file
                      /\ b \notin Writing' /\ calls'[b].sound => AsRecorded(calls[b].key)'
    BY DEF Single
  <2>1. CASE b = c
    BY <1>0, <1>1, <1>11, <2>1 DEF BackupsInv, Single, Holding, Writing, Active
  <2>2. CASE b # c
    <3>1. b \in Holding /\ calls'[b] = calls[b] /\ calls[b].key \in Moments
      BY <1>1, <1>11, <2>2, CallTypes DEF BackupsInv, Holding, Active
    <3>2. calls[b].key # own
      BY <1>0, <2>2, <3>1 DEF BackupsInv, Single, own
    <3>3. b \in Writing' <=> b \in Writing
      BY <3>1 DEF Writing, Active, Holding
    <3>4. QED
      BY <1>11, <1>13, <3>1, <3>2, <3>3 DEF BackupsInv, Single
  <2>3. QED
    BY <2>1, <2>2
<1>15. own \in proved => own \in contested
  BY <1>0 DEF BackupsInv, Single, own
<1>16. ProvedStands'
  BY <1>7, <1>13, <1>15 DEF BackupsInv, ProvedStands, TypeOK
<1>17. /\ \A t \in Nat : Enough(t) => Enough(t)'
       /\ Cardinality({j \in proved : Standing(j)}) >= MinKeep =>
            Cardinality({j \in proved : Standing(j)}') >= MinKeep
  <2>1. \A j \in proved : Standing(j) => Standing(j)' /\ bucket'[j].at >= bucket[j].at
    <3>1. \A j \in Stored : bucket[j].at <= clock
      BY DEF BackupsInv, Dated
    <3>2. QED
      BY <1>2, <1>3, <1>4, <1>6, <1>7, <1>13, <1>15, <3>1 DEF Standing, BackupsInv, TypeOK
  <2>2. \A j \in proved : /\ Standing(j) => bucket[j].at \in Nat
                          /\ Standing(j)' => bucket'[j].at \in Nat
    BY <1>2, <1>3, <1>4, <1>6, <1>7 DEF Standing, Stored
  <2>3. proved' = proved /\ proved \subseteq Moments
    BY DEF BackupsInv, TypeOK
  <2>4. QED
    BY <2>1, <2>2, <2>3, StillEnough
<1>18. MinimumIsKept'
  BY <1>7, <1>17 DEF MinimumIsKept, BackupsInv
<1>19. ASSUME NEW b \in Callers, At(b, "choose")' PROVE Known(calls[b])'
  <2>1. b # c /\ calls'[b] = calls[b] /\ At(b, "choose") /\ b \in Active
    BY <1>1, <1>19 DEF At, Active
  <2>2. Known(calls[b]) /\ calls[b].listed \in Listing
    BY <2>1, CallTypes DEF BackupsInv, ListedIsKnown, At
  <2>3. calls[b].key <= clock
    BY <2>1 DEF BackupsInv, Timely
  <2> SUFFICES ASSUME NEW j \in Moments, calls[b].listed[j] # None
               PROVE  /\ j <= calls[b].listed[j]
                      /\ calls[b].listed[j] <= clock
                      /\ j \notin Stored' => Enough(calls[b].listed[j])'
                      /\ j \in Stored' => \/ bucket'[j].at = calls[b].listed[j]
                                          \/ /\ calls[b].listed[j] <= bucket'[j].at
                                             /\ calls[b].key <= bucket'[j].at
    BY <2>1 DEF Known
  <2>4. calls[b].listed[j] \in Moments /\ calls[b].listed[j] \in Nat
    BY <2>2, MomentsAreNat DEF Listing
  <2>5. CASE j = own
    BY <1>2, <1>4, <1>6, <1>7, <2>2, <2>3, <2>4, <2>5 DEF Known
  <2>6. CASE j # own
    <3>1. j \in Stored' <=> j \in Stored
      BY <1>7, <2>6
    <3>2. bucket'[j] = bucket[j]
      BY <1>6, <2>6
    <3>3. QED
      BY <1>17, <2>1, <2>2, <2>4, <3>1, <3>2 DEF Known
  <2>7. QED
    BY <2>5, <2>6
<1>20. ASSUME NEW b \in Callers, Pruning(b)' PROVE Old(calls[b])' /\ Doomed(b)' # {}
  <2>1. b # c /\ calls'[b] = calls[b] /\ Pruning(b) /\ b \in Active
    BY <1>1, <1>20 DEF Pruning, At, Active
  <2>2. Old(calls[b]) /\ Doomed(b) # {} /\ calls[b].listed \in Listing
    BY <2>1, CallTypes DEF BackupsInv, DoomedIsOld, Pruning, At
  <2> SUFFICES ASSUME NEW j \in Moments, calls[b].listed[j] # None
               PROVE  /\ j <= calls[b].listed[j]
                      /\ calls[b].listed[j] + Retention < clock
                      /\ j \in Stored' => bucket'[j].at = calls[b].listed[j]
                      /\ Enough(calls[b].listed[j])'
    BY <2>1, <2>2 DEF Old, Doomed
  <2>3. calls[b].listed[j] \in Moments /\ calls[b].listed[j] \in Nat
    BY <2>2, MomentsAreNat DEF Listing
  <2>4. j <= calls[b].listed[j] /\ calls[b].listed[j] + Retention < clock
    BY <2>2 DEF Old
  <2>5. j # own
    <3>1. MaxRun <= Retention /\ MaxRun \in Nat /\ Retention \in Nat
      BY BoundsAssumption, RetentionAssumption
    <3>2. QED
      BY <1>2, <2>3, <2>4, <3>1
  <2>6. j \in Stored' => j \in Stored /\ bucket'[j] = bucket[j]
    BY <1>6, <1>7, <2>5
  <2>7. QED
    BY <1>17, <2>1, <2>2, <2>3, <2>4, <2>6 DEF Old
<1>21. QED
  BY <1>8, <1>9, <1>10, <1>12, <1>14, <1>16, <1>18, <1>19, <1>20
     DEF BackupsInv, ListedIsKnown, DoomedIsOld

LEMMA UploadsHold ==
    ASSUME BackupsInv, NEW c \in Callers, Upload(c) \/ UploadTorn(c) \/ UploadUnanswered(c)
    PROVE  BackupsInv'
<1> DEFINE reads == [step |-> "read", key |-> calls[c].key, file |-> calls[c].file]
           fails == [step |-> "finish", key |-> calls[c].key, sound |-> FALSE]
<1>1. At(c, "upload") /\ calls[c].file \in File /\ calls[c].key \in Moments /\ c \in Active
  BY CallTypes DEF BackupsInv, Upload, UploadTorn, UploadUnanswered, At, Active
<1>2. reads \in Call /\ reads # None /\ fails \in Call /\ fails # None
  <2>1. reads \in Call
    BY <1>1 DEF Call
  <2>2. fails \in Call
    BY <1>1 DEF Call
  <2>3. QED
    BY <2>1, <2>2, RowAssumption
<1>3. CASE Upload(c)
  <2>1. faults' \in 0..MaxFaults
    BY <1>3 DEF Upload, BackupsInv, TypeOK
  <2>2. QED
    BY <1>1, <1>2, <1>3, <2>1, StoreHolds DEF Upload
<1>4. CASE UploadTorn(c)
  <2>1. faults' \in 0..MaxFaults
    BY <1>4, FaultCount DEF UploadTorn, BackupsInv
  <2>2. QED
    BY <1>1, <1>2, <1>4, <2>1, StoreHolds DEF UploadTorn
<1>5. CASE UploadUnanswered(c)
  <2>1. faults' \in 0..MaxFaults
    BY <1>5, FaultCount DEF UploadUnanswered, BackupsInv
  <2>2. CASE Storing(calls[c].key, calls[c].file)
    BY <1>1, <1>2, <1>5, <2>1, <2>2, StoreHolds DEF UploadUnanswered
  <2>3. CASE UNCHANGED bucket
    <3>1. SameRows /\ Goes(c, fails)
      BY <1>5, <2>3, UnchangedRows DEF UploadUnanswered
    <3>2. GoesOn(c, fails)
      BY <1>1, <1>2 DEF GoesOn, BackupsInv, Timely, Holding, At
    <3> HIDE DEF fails
    <3>3. QED
      BY <1>2, <1>5, <2>1, <3>1, <3>2, CallStep DEF UploadUnanswered, BackupsInv, TypeOK
  <2>4. QED
    BY <1>5, <2>2, <2>3 DEF UploadUnanswered
<1>6. QED
  BY <1>3, <1>4, <1>5

LEMMA FinishVerifiedHolds ==
    ASSUME BackupsInv, NEW c \in Callers, FinishVerified(c)
    PROVE  BackupsInv'
<1> DEFINE own == calls[c].key
           call == [step |-> "list", key |-> own]
           row == [records[own] EXCEPT !.status = "verified"]
<1>0. /\ own \in Moments /\ c \in Active /\ c \in Holding /\ c \notin Writing
      /\ calls[c].sound /\ own \in Recorded /\ own \in Stored
  BY CallTypes DEF BackupsInv, FinishVerified, At, Active, Holding, Writing, OnRecord
<1>1. call \in Call /\ call # None /\ calls'[c] = call /\ call.step = "list" /\ call.key = own
      /\ \A b \in Callers \ {c} : calls'[b] = calls[b]
  BY <1>0, RowAssumption DEF FinishVerified, Goes, BackupsInv, TypeOK, Call
<1>2. records \in [Moments -> Run \cup {None}] /\ records[own] \in Run
  BY <1>0 DEF BackupsInv, TypeOK, Recorded
<1>3. row \in Run /\ row # None /\ row.file = records[own].file
  BY <1>2, RowAssumption DEF Run
<1>4. /\ records' = [records EXCEPT ![own] = row] /\ proved' = proved \cup {own}
      /\ calls' = [calls EXCEPT ![c] = call]
      /\ UNCHANGED <<clock, db, bucket, called, faults, contested>>
  BY <1>0, <1>2 DEF FinishVerified, Goes
<1>5. own \notin contested => AsRecorded(own)
  BY <1>0 DEF BackupsInv, Single
<1> HIDE DEF call, row
<1>6. TypeOK'
  BY <1>0, <1>1, <1>2, <1>3, <1>4 DEF BackupsInv, TypeOK
<1>7. Timely' /\ Dated'
  BY <1>0, <1>1, <1>4 DEF BackupsInv, Timely, Dated, Active, Stored
<1>8. Stored' = Stored /\ Recorded' = Recorded /\ Verified' \subseteq Verified \cup {own}
  BY <1>0, <1>2, <1>3, <1>4 DEF Stored, Recorded, Verified
<1>9. Holding' = Holding \ {c} /\ Writing' = Writing
  BY <1>0, <1>1 DEF Holding, Writing, Active
<1>10. OnRecord'
  BY <1>0, <1>1, <1>4, <1>8, <1>9 DEF BackupsInv, OnRecord, Holding, Active
<1>11. \A j \in Recorded : AsRecorded(j)' <=> AsRecorded(j)
  BY <1>2, <1>3, <1>4 DEF AsRecorded, Recorded
<1>12. Single'
  <2> SUFFICES ASSUME NEW b \in Holding', calls'[b].key \notin contested
               PROVE  /\ calls'[b].key \notin proved'
                      /\ \A d \in Holding' : calls'[d].key = calls'[b].key => d = b
                      /\ b \in Writing' => records'[calls'[b].key].file = calls'[b].file
                      /\ b \notin Writing' /\ calls'[b].sound => AsRecorded(calls[b].key)'
    BY <1>4 DEF Single
  <2>1. b \in Holding /\ b # c /\ calls'[b] = calls[b] /\ calls[b].key \in Recorded
    BY <1>1, <1>9 DEF BackupsInv, OnRecord, Holding, Active
  <2>2. calls[b].key # own
    BY <1>0, <2>1 DEF BackupsInv, Single
  <2>3. \A d \in Holding' : d \in Holding /\ calls'[d] = calls[d]
    BY <1>1, <1>9 DEF Holding, Active
  <2>4. records'[calls[b].key].file = records[calls[b].key].file
    BY <1>2, <1>4, <2>1, <2>2 DEF Recorded
  <2> HIDE DEF own
  <2>5. QED
    BY <1>4, <1>9, <1>11, <2>1, <2>2, <2>3, <2>4 DEF BackupsInv, Single
<1>13. ProvedStands'
  BY <1>0, <1>4, <1>5, <1>8, <1>11 DEF ProvedStands, BackupsInv, OnRecord
<1>14. /\ \A t \in Nat : Enough(t) => Enough(t)'
       /\ Cardinality({j \in proved : Standing(j)}) >= MinKeep =>
            Cardinality({j \in proved : Standing(j)}') >= MinKeep
  <2>1. \A j \in Stored : bucket[j].at \in Nat
    BY RowTypes, MomentsAreNat DEF BackupsInv, Stored
  <2>2. \A j \in proved : Standing(j) => Standing(j)'
    BY <1>4, <1>8, <1>11 DEF Standing, BackupsInv, OnRecord
  <2>3. \A j \in proved \cup proved' : Standing(j) \/ Standing(j)' => j \in Stored
    BY <1>8 DEF Standing
  <2>4. proved' \subseteq Moments /\ proved \subseteq proved' /\ bucket' = bucket
    BY <1>4, <1>6 DEF TypeOK
  <2>5. QED
    BY <2>1, <2>2, <2>3, <2>4, StillEnough
<1>15. MinimumIsKept'
  BY <1>0, <1>4, <1>8, <1>14 DEF MinimumIsKept, BackupsInv
<1>16. ASSUME NEW b \in Callers, At(b, "choose")' PROVE Known(calls[b])'
  <2>1. calls'[b] = calls[b] /\ At(b, "choose")
    BY <1>1, <1>16 DEF At
  <2>2. Known(calls[b]) /\ calls[b].listed \in Listing
    BY <2>1, CallTypes DEF BackupsInv, ListedIsKnown, At
  <2>3. QED
    BY <1>4, <1>8, <1>14, <2>1, <2>2, MomentsAreNat DEF Known, Listing
<1>17. ASSUME NEW b \in Callers, Pruning(b)' PROVE Old(calls[b])' /\ Doomed(b)' # {}
  <2>1. calls'[b] = calls[b] /\ Pruning(b)
    BY <1>1, <1>17 DEF Pruning, At
  <2>2. Old(calls[b]) /\ Doomed(b) # {} /\ calls[b].listed \in Listing
    BY <2>1, CallTypes DEF BackupsInv, DoomedIsOld, Pruning, At
  <2>3. QED
    BY <1>4, <1>8, <1>14, <2>1, <2>2, MomentsAreNat DEF Old, Listing, Doomed
<1>18. QED
  BY <1>6, <1>7, <1>10, <1>12, <1>13, <1>15, <1>16, <1>17
     DEF BackupsInv, ListedIsKnown, DoomedIsOld

LEMMA ListHolds ==
    ASSUME BackupsInv, NEW c \in Callers, List(c)
    PROVE  BackupsInv'
<1> DEFINE all == [j \in Moments |-> IF j \in Stored THEN bucket[j].at ELSE None]
           call == [step |-> "choose", key |-> calls[c].key, listed |-> all]
<1>1. calls[c].key \in Moments /\ c \in Active
  BY CallTypes DEF BackupsInv, List, At, Active
<1>2. all \in Listing
  BY RowTypes DEF BackupsInv, Listing, Stored
<1>3. call \in Call /\ call # None
  BY <1>1, <1>2, RowAssumption DEF Call
<1>4. Known(call)
  <2>1. \A j \in Moments : all[j] # None => j \in Stored /\ all[j] = bucket[j].at
    OBVIOUS
  <2> HIDE DEF all
  <2>2. QED
    BY <2>1 DEF Known, BackupsInv, Dated
<1>5. GoesOn(c, call)
  BY <1>1, <1>3, <1>4 DEF GoesOn, BackupsInv, Timely
<1>6. Goes(c, call) /\ SameRows
  BY UnchangedRows DEF List
<1> HIDE DEF call
<1>7. QED
  BY <1>3, <1>5, <1>6, CallStep DEF List, BackupsInv, TypeOK

\* What goes on to expire is some of what has been listed.
LEMMA ExpiringHolds ==
    ASSUME BackupsInv, NEW c \in Callers, calls[c] # None, NEW keys \in SUBSET Moments,
           calls[c].listed \in Listing,
           Expiring(c, keys), SameRows, UNCHANGED <<clock, db>>,
           called' \in 0..MaxCalls, faults' \in 0..MaxFaults,
           \A j \in keys :
              /\ calls[c].listed[j] # None
              /\ j <= calls[c].listed[j]
              /\ calls[c].listed[j] + Retention < clock
              /\ j \in Stored => bucket[j].at = calls[c].listed[j]
              /\ Enough(calls[c].listed[j])
    PROVE  BackupsInv'
<1>1. CASE keys = {}
  BY <1>1, EndHolds DEF Expiring
<1>2. CASE keys # {}
  <2> DEFINE left == [j \in Moments |-> IF j \in keys THEN calls[c].listed[j] ELSE None]
             call == [step |-> "expire", key |-> calls[c].key, listed |-> left]
  <2>1. left \in Listing
    BY DEF Listing
  <2>2. call \in Call /\ call # None
    BY <2>1, CallTypes, RowAssumption DEF Call, BackupsInv
  <2>3. \A j \in Moments : left[j] # None => j \in keys /\ left[j] = calls[c].listed[j]
    OBVIOUS
  <2>4. \E j \in Moments : left[j] # None
    BY <1>2
  <2> HIDE DEF left
  <2>5. Old(call)
    BY <2>3 DEF Old
  <2>6. GoesOn(c, call)
    BY <2>2, <2>4, <2>5 DEF GoesOn, BackupsInv, Timely, Active
  <2>7. Goes(c, call)
    BY <1>2 DEF Expiring, left
  <2> HIDE DEF call
  <2>8. QED
    BY <2>2, <2>6, <2>7, CallStep
<1>3. QED
  BY <1>1, <1>2
\* A file chosen to expire has MinKeep newer ones, and its key is no run's any more.
LEMMA ChooseHolds ==
    ASSUME BackupsInv, NEW c \in Callers, Choose(c)
    PROVE  BackupsInv'
<1> DEFINE at == calls[c].listed
           gone == Expired(at)
<1>1. /\ calls[c] # None /\ c \in Active /\ calls[c].key \in Moments /\ at \in Listing
      /\ Known(calls[c]) /\ calls[c].step = "choose"
  BY CallTypes DEF BackupsInv, Choose, At, Active, ListedIsKnown
<1>2. gone \in SUBSET Moments
  BY DEF Expired, Expirable
<1>3. SameRows
  BY UnchangedRows DEF Choose
<1>4. ASSUME NEW k \in gone
      PROVE  /\ at[k] # None
             /\ k <= at[k]
             /\ at[k] + Retention < clock
             /\ k \in Stored => bucket[k].at = at[k]
             /\ Enough(at[k])
  <2> DEFINE Newer == {j \in {i \in Moments : at[i] # None} \cap Verified : at[j] > at[k]}
  <2>1. k \in Moments /\ at[k] # None /\ at[k] + Retention < clock /\ Cardinality(Newer) >= MinKeep
    BY DEF Expired, Expirable
  <2>2. at[k] \in Moments /\ at[k] \in Nat
    BY <1>1, <2>1, MomentsAreNat DEF Listing
  <2>3. k <= at[k] /\ (k \notin Stored => Enough(at[k]))
    BY <1>1, <2>1 DEF Known
  <2>4. k \in Stored => bucket[k].at = at[k]
    <3> SUFFICES ASSUME k \in Stored, bucket[k].at # at[k] PROVE FALSE
      OBVIOUS
    <3>1. calls[c].key <= bucket[k].at
      BY <1>1, <2>1 DEF Known
    <3>2. bucket[k].at <= k + MaxRun /\ bucket[k].at \in Nat /\ k \in Nat /\ clock \in Nat
      BY RowTypes, MomentsAreNat, <2>1 DEF BackupsInv, Dated
    <3>3. clock <= calls[c].key + MaxRun /\ calls[c].key \in Nat
      BY <1>1, MomentsAreNat DEF BackupsInv, Timely
    <3>4. MaxRun \in Nat /\ Retention \in Nat /\ 2 * MaxRun <= Retention
      BY BoundsAssumption, RetentionAssumption
    <3> HIDE DEF at
    <3>5. QED
      BY <2>1, <2>2, <2>3, <3>1, <3>2, <3>3, <3>4
  <2>5. Enough(at[k])
    <3>1. \A j \in Newer : /\ j \in Moments /\ j \in proved /\ at[j] # None
                           /\ at[j] \in Nat /\ at[j] > at[k]
      BY <1>1, MomentsAreNat DEF Listing, BackupsInv, OnRecord
    <3>2. CASE Newer \subseteq Stored
      <4>1. ASSUME NEW j \in Newer PROVE j \in NewerThan(at[k])
        <5>1. j \in Stored /\ j \in proved /\ Standing(j) /\ bucket[j].at \in Nat
          BY <3>1, <3>2, RowTypes, MomentsAreNat DEF BackupsInv, ProvedStands, Standing
        <5>2. at[j] <= bucket[j].at
          BY <1>1, <3>1, <5>1 DEF Known
        <5>3. QED
          BY <2>2, <3>1, <5>1, <5>2 DEF NewerThan
      <4>2. NewerThan(at[k]) \in SUBSET Moments
        BY DEF NewerThan, BackupsInv, TypeOK
      <4> HIDE DEF Newer
      <4>3. QED
        BY <2>1, <4>1, <4>2, EnoughGrows DEF Enough
    <3>3. CASE ~ (Newer \subseteq Stored)
      <4>1. PICK j \in Newer : j \notin Stored
        BY <3>3
      <4>2. Enough(at[j])
        BY <1>1, <3>1, <4>1 DEF Known
      <4>3. NewerThan(at[j]) \subseteq NewerThan(at[k])
        <5>1. \A i \in Stored : bucket[i].at \in Nat
          BY RowTypes, MomentsAreNat DEF BackupsInv, Stored
        <5>2. QED
          BY <2>2, <3>1, <4>1, <5>1 DEF NewerThan, Standing
      <4>4. NewerThan(at[k]) \in SUBSET Moments
        BY DEF NewerThan, BackupsInv, TypeOK
      <4>5. QED
        BY <4>2, <4>3, <4>4, EnoughGrows DEF Enough
    <3>4. QED
      BY <3>2, <3>3
  <2>6. QED
    BY <2>1, <2>3, <2>4, <2>5
<1>5. Expiring(c, gone) /\ UNCHANGED <<clock, db>> /\ called' \in 0..MaxCalls
      /\ faults' \in 0..MaxFaults
  BY DEF Choose, BackupsInv, TypeOK
<1> HIDE DEF gone
<1>6. QED
  BY <1>1, <1>2, <1>3, <1>4, <1>5, ExpiringHolds

\* What a pruning run has left.
LEMMA PruningTypes ==
    ASSUME BackupsInv, NEW c \in Callers, Pruning(c)
    PROVE  /\ calls[c] # None /\ c \in Active /\ c \notin Holding
           /\ calls[c].listed \in Listing /\ calls[c].key \in Moments
           /\ Old(calls[c])
           /\ \A j \in Doomed(c) : /\ j \in Moments
                                   /\ calls[c].listed[j] # None
                                   /\ calls[c].listed[j] \in Nat
<1>1. /\ calls[c] # None /\ c \in Active /\ c \notin Holding
      /\ calls[c].listed \in Listing /\ calls[c].key \in Moments
      /\ Old(calls[c])
  BY CallTypes DEF BackupsInv, Pruning, At, Active, Holding, DoomedIsOld
<1>2. QED
  BY <1>1, MomentsAreNat DEF Doomed, Listing

\* Going on with fewer files than were left.
LEMMA FewerHolds ==
    ASSUME BackupsInv, NEW c \in Callers, Pruning(c), NEW e,
           Expiring(c, Doomed(c) \ {e}), SameRows, UNCHANGED <<clock, db>>,
           called' \in 0..MaxCalls, faults' \in 0..MaxFaults
    PROVE  BackupsInv'
<1> DEFINE keys == Doomed(c) \ {e}
<1>1. keys \in SUBSET Moments
  BY DEF Doomed
<1>2. \A j \in keys :
         /\ calls[c].listed[j] # None
         /\ j <= calls[c].listed[j]
         /\ calls[c].listed[j] + Retention < clock
         /\ j \in Stored => bucket[j].at = calls[c].listed[j]
         /\ Enough(calls[c].listed[j])
  BY PruningTypes DEF Old
<1>3. Expiring(c, keys)
  OBVIOUS
<1> HIDE DEF keys
<1>4. QED
  BY <1>1, <1>2, <1>3, PruningTypes, ExpiringHolds

LEMMA MarkPrunedHolds ==
    ASSUME BackupsInv, NEW c \in Callers, MarkPruned(c)
    PROVE  BackupsInv'
<1>1. PICK k \in Foremost(c) :
        /\ records' = [records EXCEPT ![k] =
              IF @ = None THEN None ELSE [@ EXCEPT !.status = "pruned"]]
        /\ Expiring(c, Doomed(c) \ {k})
  BY DEF MarkPruned
<1>2. k \in Moments /\ Pruning(c)
  BY DEF Foremost, Doomed, MarkPruned, Pruning
<1>3. records \in [Moments -> Run \cup {None}]
  BY DEF BackupsInv, TypeOK
<1> DEFINE row == IF records[k] = None THEN None ELSE [records[k] EXCEPT !.status = "pruned"]
<1>4. /\ row \in Run \cup {None} /\ (row # None <=> records[k] # None)
      /\ row # None => row.file = records[k].file /\ row.status = "pruned"
  BY <1>2, <1>3, RowAssumption DEF Run
<1>5. records' = [records EXCEPT ![k] = row]
  BY <1>1
<1> HIDE DEF row
<1>6. SameRows
  BY <1>2, <1>3, <1>4, <1>5 DEF SameRows, MarkPruned, Recorded, Verified
<1>7. QED
  BY <1>1, <1>2, <1>6, FewerHolds DEF MarkPruned, BackupsInv, TypeOK

LEMMA ExpireFailsHolds ==
    ASSUME BackupsInv, NEW c \in Callers, ExpireFails(c)
    PROVE  BackupsInv'
<1>1. PICK k \in Foremost(c) : Expiring(c, Doomed(c) \ {k})
  BY DEF ExpireFails
<1>2. Pruning(c) /\ SameRows /\ faults' \in 0..MaxFaults
  BY UnchangedRows, FaultCount DEF ExpireFails, Pruning, BackupsInv
<1>3. QED
  BY <1>1, <1>2, FewerHolds DEF ExpireFails, BackupsInv, TypeOK

LEMMA StopHolds ==
    ASSUME BackupsInv, NEW c \in Callers, Stop(c)
    PROVE  BackupsInv'
<1>1. SameRows /\ faults' \in 0..MaxFaults
  BY UnchangedRows, FaultCount DEF Stop, BackupsInv
<1>2. QED
  BY <1>1, EndHolds DEF Stop, BackupsInv, TypeOK

LEMMA ReadBacksHold ==
    ASSUME BackupsInv, NEW c \in Callers, ReadBack(c) \/ ReadBackUnanswered(c)
    PROVE  BackupsInv'
<1>1. CASE ReadBack(c)
  <2> DEFINE s == Passes(bucket[calls[c].key], calls[c].file)
  <2>1. s \in BOOLEAN
    BY DEF Passes
  <2>2. /\ Goes(c, [step |-> "finish", key |-> calls[c].key, sound |-> s])
        /\ s => Passes(bucket[calls[c].key], calls[c].file)
    BY <1>1 DEF ReadBack
  <2> HIDE DEF s
  <2>3. QED
    BY <1>1, <2>1, <2>2, ReadBackHolds DEF ReadBack, BackupsInv, TypeOK
<1>2. CASE ReadBackUnanswered(c)
  <2>1. faults' \in 0..MaxFaults
    BY <1>2, FaultCount DEF ReadBackUnanswered, BackupsInv
  <2>2. QED
    BY <1>2, <2>1, ReadBackHolds DEF ReadBackUnanswered
<1>3. QED
  BY <1>1, <1>2

LEMMA DeleteHolds ==
    ASSUME BackupsInv, NEW c \in Callers, Delete(c)
    PROVE  BackupsInv'
<1>1. PICK e \in Foremost(c) : bucket' = [bucket EXCEPT ![e] = None]
  BY DEF Delete
<1>2. Pruning(c) /\ e \in Doomed(c) /\ e \in Moments
  BY <1>1 DEF Delete, Pruning, Foremost, Doomed
<1>3. PICK v \in Nat : /\ e <= v /\ v + Retention < clock /\ Enough(v)
                       /\ e \in Stored => bucket[e].at = v
  BY <1>2, PruningTypes DEF Old
<1> DEFINE call == [calls[c] EXCEPT !.step = "mark"]
<1>4. /\ calls \in [Callers -> Call \cup {None}] /\ calls' = [calls EXCEPT ![c] = call]
      /\ UNCHANGED <<clock, db, records, called, faults, proved, contested>>
  BY DEF BackupsInv, TypeOK, Delete
<1>5. call.key = calls[c].key /\ call.listed = calls[c].listed /\ call.step = "mark"
  BY <1>2 DEF Delete, At, BackupsInv, TypeOK, Call
<1>6. call \in Call /\ call # None
  <2>1. calls[c] \in [step : {"choose", "expire", "mark"}, key : Moments, listed : Listing]
    BY <1>2, CallTypes DEF Delete, At, BackupsInv, Call
  <2>2. call \in [step : {"choose", "expire", "mark"}, key : Moments, listed : Listing]
    BY <2>1
  <2>3. call \in Call
    BY <2>2 DEF Call
  <2>4. QED
    BY <2>3, RowAssumption
<1>7. calls'[c] = call /\ \A b \in Callers \ {c} : calls'[b] = calls[b]
  BY <1>4
<1> HIDE DEF call
<1>8. bucket \in [Moments -> Object \cup {None}]
  BY DEF BackupsInv, TypeOK
<1>9. bucket'[e] = None /\ \A j \in Moments \ {e} : bucket'[j] = bucket[j]
  BY <1>1, <1>2, <1>8
<1>10. Stored' = Stored \ {e} /\ Recorded' = Recorded /\ Verified' = Verified
  BY <1>4, <1>9 DEF Stored, Recorded, Verified
<1>11. TypeOK'
  BY <1>1, <1>2, <1>4, <1>6, <1>8 DEF BackupsInv, TypeOK
<1>12. /\ Active' = Active /\ Holding' = Holding /\ Writing' = Writing
       /\ \A b \in Active : calls'[b].key = calls[b].key
       /\ \A b \in Holding : calls'[b] = calls[b]
  BY <1>2, <1>5, <1>6, <1>7, PruningTypes DEF Active, Holding, Writing
<1>13. Timely' /\ Dated'
  BY <1>4, <1>9, <1>10, <1>12 DEF BackupsInv, Timely, Dated, Stored
<1>14. \A b \in Active : calls[b].key # e
  <2>1. \A b \in Active : clock <= calls[b].key + MaxRun
    BY DEF BackupsInv, Timely
  <2>2. MaxRun \in Nat /\ Retention \in Nat /\ 2 * MaxRun <= Retention /\ clock \in Nat /\ e \in Nat
    BY <1>2, RowTypes, BoundsAssumption, RetentionAssumption DEF BackupsInv
  <2>3. QED
    BY <1>3, <2>1, <2>2
<1>15. OnRecord'
  BY <1>4, <1>10, <1>12, <1>14 DEF BackupsInv, OnRecord, Holding
<1>16. \A j \in Moments \ {e} : AsRecorded(j)' <=> AsRecorded(j)
  BY <1>4, <1>9 DEF AsRecorded
<1>17. \A b \in Holding : b \in Active /\ calls[b].key \in Moments \ {e}
  BY <1>14, CallTypes DEF Holding, Active, BackupsInv
<1>18. Single'
  <2> SUFFICES ASSUME NEW b \in Holding, calls[b].key \notin contested
               PROVE  /\ calls[b].key \notin proved
                      /\ \A d \in Holding : calls[d].key = calls[b].key => d = b
                      /\ b \in Writing => records[calls[b].key].file = calls[b].file
                      /\ b \notin Writing /\ calls[b].sound => AsRecorded(calls[b].key)'
    BY <1>4, <1>12 DEF Single
  <2>1. QED
    BY <1>12, <1>16, <1>17 DEF BackupsInv, Single
<1>19. ProvedStands'
  BY <1>4, <1>10, <1>16 DEF BackupsInv, ProvedStands, TypeOK
<1>20. NewerThan(v) \subseteq NewerThan(v)' /\ e \notin NewerThan(v)
  <2>1. e \notin NewerThan(v)
    BY <1>3 DEF NewerThan, Standing
  <2>2. \A j \in proved \ {e} : Standing(j)' <=> Standing(j)
    BY <1>4, <1>10, <1>11, <1>16 DEF Standing, TypeOK
  <2>3. \A j \in proved \ {e} : bucket'[j] = bucket[j]
    BY <1>4, <1>9, <1>11 DEF TypeOK
  <2>4. QED
    BY <1>4, <2>1, <2>2, <2>3 DEF NewerThan
<1>21. \A j \in Stored' : j \in Moments /\ bucket'[j].at \in Nat
  BY <1>9, <1>10, RowTypes, MomentsAreNat DEF BackupsInv, Stored
<1>22. \A t \in Nat : NewerThan(t)' \in SUBSET Moments
  BY <1>11 DEF NewerThan, TypeOK
\* At least what was newer than the file that goes is newer than any older date.
<1>23. ASSUME NEW t \in Nat, t <= v PROVE Enough(t)'
  <2>1. NewerThan(v) \subseteq NewerThan(t)'
    BY <1>3, <1>20, <1>21, <1>23 DEF NewerThan, Standing
  <2>2. QED
    BY <1>3, <1>22, <2>1, EnoughGrows DEF Enough
<1>24. ASSUME NEW t \in Nat, Enough(t) PROVE Enough(t)'
  <2>1. CASE t <= v
    BY <1>23, <2>1
  <2>2. CASE ~ (t <= v)
    <3>1. e \notin NewerThan(t)
      BY <1>3, <2>2 DEF NewerThan, Standing
    <3>2. NewerThan(t) \subseteq NewerThan(t)'
      <4>1. ASSUME NEW j \in NewerThan(t) PROVE j \in NewerThan(t)'
        <5>1. j \in proved /\ j # e /\ Standing(j) /\ bucket[j].at > t /\ j \in Moments
          BY <3>1 DEF NewerThan, BackupsInv, TypeOK
        <5>2. Standing(j)' /\ bucket'[j] = bucket[j]
          BY <1>4, <1>9, <1>10, <1>16, <5>1 DEF Standing
        <5>3. QED
          BY <1>4, <5>1, <5>2 DEF NewerThan
      <4>2. QED
        BY <4>1
    <3>3. QED
      BY <1>22, <1>24, <3>2, EnoughGrows DEF Enough
  <2>3. QED
    BY <2>1, <2>2
<1>25. MinimumIsKept'
  <2>1. {j \in proved : Standing(j)}' \in SUBSET Moments
    BY <1>11 DEF TypeOK
  <2>2. NewerThan(v) \subseteq {j \in proved : Standing(j)}'
    BY <1>20 DEF NewerThan
  <2>3. QED
    BY <1>3, <2>1, <2>2, EnoughGrows DEF MinimumIsKept, Enough
<1>26. ASSUME NEW b \in Callers, At(b, "choose")' PROVE Known(calls[b])'
  <2>1. calls'[b] = calls[b] /\ At(b, "choose") /\ b \in Active
    BY <1>5, <1>7, <1>26 DEF At, Active
  <2>2. Known(calls[b]) /\ calls[b].listed \in Listing
    BY <2>1, CallTypes DEF BackupsInv, ListedIsKnown, At
  <2> SUFFICES ASSUME NEW j \in Moments, calls[b].listed[j] # None
               PROVE  /\ j <= calls[b].listed[j]
                      /\ calls[b].listed[j] <= clock
                      /\ j \notin Stored' => Enough(calls[b].listed[j])'
                      /\ j \in Stored' => \/ bucket'[j].at = calls[b].listed[j]
                                          \/ /\ calls[b].listed[j] <= bucket'[j].at
                                             /\ calls[b].key <= bucket'[j].at
    BY <1>4, <2>1 DEF Known
  <2>3. calls[b].listed[j] \in Nat
    BY <2>2, MomentsAreNat DEF Listing
  <2>4. CASE j = e /\ j \in Stored
    <3>1. calls[b].listed[j] <= bucket[j].at
      BY <2>2, <2>3, <2>4 DEF Known
    <3>2. Enough(calls[b].listed[j])'
      BY <1>3, <1>23, <2>1, <2>3, <2>4, <3>1
    <3>3. QED
      BY <1>10, <2>2, <2>4, <3>2 DEF Known
  <2>5. CASE j # e \/ j \notin Stored
    <3>1. j \in Stored' <=> j \in Stored
      BY <1>10, <2>5
    <3>2. j \in Stored => bucket'[j] = bucket[j]
      BY <1>9, <2>5
    <3>3. QED
      BY <1>24, <2>1, <2>2, <2>3, <3>1, <3>2 DEF Known
  <2>6. QED
    BY <2>4, <2>5
<1>27. ASSUME NEW b \in Callers, Pruning(b)' PROVE Old(calls[b])' /\ Doomed(b)' # {}
  <2>1. Pruning(b) /\ calls'[b].listed = calls[b].listed
    BY <1>2, <1>5, <1>7, <1>27 DEF Pruning, At
  <2>2. Old(calls[b]) /\ Doomed(b) # {} /\ calls[b].listed \in Listing
    BY <2>1, PruningTypes DEF BackupsInv, DoomedIsOld
  <2>3. Doomed(b)' = Doomed(b)
    BY <2>1 DEF Doomed
  <2> SUFFICES ASSUME NEW j \in Moments, calls[b].listed[j] # None
               PROVE  /\ j <= calls[b].listed[j]
                      /\ calls[b].listed[j] + Retention < clock
                      /\ j \in Stored' => bucket'[j].at = calls[b].listed[j]
                      /\ Enough(calls[b].listed[j])'
    BY <1>4, <2>1, <2>2, <2>3 DEF Old
  <2>4. calls[b].listed[j] \in Nat
    BY <2>2, MomentsAreNat DEF Listing
  <2>5. j \in Stored' => j \in Stored /\ bucket'[j] = bucket[j]
    BY <1>9, <1>10
  <2>6. QED
    BY <1>24, <2>1, <2>2, <2>4, <2>5 DEF Old
<1>28. QED
  BY <1>11, <1>13, <1>15, <1>18, <1>19, <1>25, <1>26, <1>27
     DEF BackupsInv, ListedIsKnown, DoomedIsOld
-----------------------------------------------------------------------------
\* A step that leaves the runs and the files alone.
LEMMA AsideHolds ==
    ASSUME BackupsInv, TypeOK',
           UNCHANGED <<clock, calls, records, bucket, proved, contested>>
    PROVE  BackupsInv'
<1>1. SameRows /\ Active' = Active
  BY UnchangedRows DEF Active
<1>2. /\ \A x : Known(x)' = Known(x)
      /\ \A x : Old(x)' = Old(x)
  BY <1>1, SameFiles DEF Known, Old
<1>3. Timely' /\ Dated' /\ OnRecord' /\ Single'
  BY DEF BackupsInv, Timely, Dated, OnRecord, Single, Active, Holding, Writing, Stored,
         Recorded, Verified, AsRecorded
<1>4. ListedIsKnown' /\ DoomedIsOld'
  BY <1>2 DEF BackupsInv, ListedIsKnown, DoomedIsOld, At, Pruning, Doomed
<1>5. QED
  BY <1>1, <1>3, <1>4, SameFiles DEF BackupsInv

LEMMA RegisterHolds ==
    ASSUME BackupsInv, Register
    PROVE  BackupsInv'
<1>1. db' \in Database
  BY BoundsAssumption DEF BackupsInv, TypeOK, Register, Database, Rows
<1>2. TypeOK'
  BY <1>1 DEF BackupsInv, TypeOK, Register
<1>3. QED
  BY <1>2, AsideHolds DEF Register

LEMMA TickHolds ==
    ASSUME BackupsInv, Tick
    PROVE  BackupsInv'
<1>1. clock \in Nat /\ clock' = clock + 1 /\ clock' \in Moments
  BY BoundsAssumption DEF BackupsInv, TypeOK, Tick, Moments
<1>2. SameRows
  BY UnchangedRows DEF Tick
<1>3. TypeOK'
  BY <1>1 DEF BackupsInv, TypeOK, Tick
<1>4. Timely'
  <2>1. \A c \in Active : c \in Callers /\ calls[c].key \in Nat
    BY CallTypes, MomentsAreNat DEF BackupsInv, Active
  <2>2. Active' = Active /\ calls' = calls
    BY DEF Active, Tick
  <2>3. \A c \in Active : clock < calls[c].key + MaxRun
    BY DEF Active, Tick
  <2>4. QED
    BY <1>1, <2>1, <2>2, <2>3, BoundsAssumption DEF BackupsInv, Timely
<1>5. Dated'
  <2>1. \A k \in Stored : bucket[k].at \in Nat
    BY RowTypes, MomentsAreNat DEF BackupsInv, Stored
  <2>2. QED
    BY <1>1, <2>1 DEF BackupsInv, Dated, Stored, Tick
<1>6. OnRecord' /\ Single'
  BY DEF BackupsInv, OnRecord, Single, Tick, Holding, Writing, Active, Stored, Recorded,
         Verified, AsRecorded
<1>7. ListedIsKnown'
  <2>1. ASSUME NEW c \in Callers, At(c, "choose") PROVE Known(calls[c])'
    <3>1. Known(calls[c]) /\ calls[c].listed \in Listing
      BY <2>1, CallTypes DEF BackupsInv, ListedIsKnown, At
    <3>2. \A k \in Moments : calls[c].listed[k] # None => calls[c].listed[k] \in Nat
      BY <3>1, MomentsAreNat DEF Listing
    <3>3. QED
      BY <1>1, <1>2, <3>1, <3>2, SameFiles DEF Known, Tick
  <2>2. QED
    BY <2>1 DEF ListedIsKnown, At, Tick
<1>8. DoomedIsOld'
  <2>1. ASSUME NEW c \in Callers, Pruning(c) PROVE Old(calls[c])'
    <3>1. Old(calls[c]) /\ \A k \in Moments : calls[c].listed[k] # None => calls[c].listed[k] \in Nat
      BY <2>1, PruningTypes DEF Doomed
    <3>2. clock \in Nat /\ Retention \in Nat /\ UNCHANGED <<calls, bucket>>
      BY <1>1, BoundsAssumption DEF Tick
    <3>3. Stored' = Stored /\ \A x : Enough(x)' = Enough(x)
      BY <1>2, SameFiles
    <3>4. QED
      BY <1>1, <3>1, <3>2, <3>3 DEF Old
  <2>2. QED
    BY <2>1 DEF BackupsInv, DoomedIsOld, Pruning, At, Doomed, Tick
<1>9. QED
  BY <1>2, <1>3, <1>4, <1>5, <1>6, <1>7, <1>8, SameFiles DEF BackupsInv

LEMMA InitHolds == Init => BackupsInv
<1> SUFFICES ASSUME Init PROVE BackupsInv
  OBVIOUS
<1>1. Stored = {} /\ Recorded = {} /\ Verified = {} /\ Active = {} /\ Holding = {} /\ Writing = {}
  BY DEF Init, Stored, Recorded, Verified, Active, Holding, Writing
<1>2. TypeOK
  BY BoundsAssumption DEF Init, TypeOK, Moments
<1>3. ~ \E c \in Callers : At(c, "choose") \/ Pruning(c)
  BY DEF Init, At, Pruning
<1>4. proved = {}
  BY DEF Init
<1>5. MinimumIsKept
  BY <1>4 DEF MinimumIsKept
<1>6. QED
  BY <1>1, <1>2, <1>3, <1>4, <1>5
     DEF BackupsInv, Timely, Dated, OnRecord, Single, ProvedStands, ListedIsKnown, DoomedIsOld

LEMMA StepHolds == BackupsInv /\ [Next]_vars => BackupsInv'
<1> SUFFICES ASSUME BackupsInv, [Next]_vars PROVE BackupsInv'
  OBVIOUS
<1>1. CASE BeginNightly
  BY <1>1, BeginHolds DEF BeginNightly, Callers, BackupsInv, TypeOK
<1>2. ASSUME NEW c \in Triggers, BeginCalled(c) PROVE BackupsInv'
  <2>1. called' \in 0..MaxCalls
    BY <1>2, BoundsAssumption DEF BeginCalled, BackupsInv, TypeOK
  <2>2. QED
    BY <1>2, <2>1, BeginHolds DEF BeginCalled, Callers
<1>3. ASSUME NEW c \in Callers, Steps(c) PROVE BackupsInv'
  BY <1>3, ReadMembersHolds, RecordRunHolds, UploadsHold, ReadBacksHold, FinishVerifiedHolds,
     FinishFailedHolds, ListHolds, ChooseHolds, DeleteHolds, MarkPrunedHolds DEF Steps
<1>4. ASSUME NEW c \in Callers, Failures(c) PROVE BackupsInv'
  BY <1>4, UploadsHold, ReadBacksHold, ExpireFailsHolds, StopHolds DEF Failures
<1>5. CASE Register
  BY <1>5, RegisterHolds
<1>6. CASE Tick
  BY <1>6, TickHolds
<1>7. CASE UNCHANGED vars
  <2>1. TypeOK'
    BY <1>7 DEF vars, BackupsInv, TypeOK
  <2>2. QED
    BY <1>7, <2>1, AsideHolds DEF vars
<1>8. QED
  BY <1>1, <1>2, <1>3, <1>4, <1>5, <1>6, <1>7 DEF Next

LEMMA Invariance == Spec => []BackupsInv
BY InitHolds, StepHolds, PTL DEF Spec

\* Every row, object and call holds what the program can put there, and the
\* dates of a listing are dates (run.ts, store.ts).
THEOREM BackupTypes == Spec => []TypeOK
<1>1. BackupsInv => TypeOK
  BY DEF BackupsInv
<1>2. QED
  BY <1>1, Invariance, PTL

\* Once a verified file is gone, BACKUP_MIN_KEEP others are in the bucket as
\* they were verified, however many runs prune at once (run.ts, pruneOldBackups).
THEOREM MinimumKept == Spec => []MinimumIsKept
<1>1. BackupsInv => MinimumIsKept
  BY DEF BackupsInv
<1>2. QED
  BY <1>1, Invariance, PTL

\* Every object has its row, and a verified row describes its object unless two
\* runs began in one second (run.ts, recordStart and finish).
THEOREM BucketOnRecord == Spec => []RecordsDescribeTheBucket
<1>1. BackupsInv => RecordsDescribeTheBucket
  BY DEF BackupsInv, OnRecord, ProvedStands, RecordsDescribeTheBucket
<1>2. QED
  BY <1>1, Invariance, PTL
=============================================================================
