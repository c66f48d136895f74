--------------------------- MODULE DatabaseProofs ---------------------------
(***************************************************************************)
(* Proofs about what the database holds: the encrypted variables of        *)
(* EnvKeys and, from "Migrations" on, the versions of its schema, the rows *)
(* that its scripts carry over and the schema that they make.              *)
(*                                                                         *)
(* EnvKeys, for any number of scripts, requests and restarts:              *)
(* Neither RowsSound nor ReadersHeed is inductive: they need to know that  *)
(* what a rotation has read is what the rows still hold (StillRead), that  *)
(* the key it set out from is the one in use (OldInUse), that a save in    *)
(* progress has the key in use (SavesInUse), and that all this stays true  *)
(* because nobody else writes meanwhile (OneRotation).                     *)
(***************************************************************************)
EXTENDS EnvKeys, Migrations, SequenceTheorems, TLAPS

SavesInUse ==
    \A q \in Saver : Saving(q) =>
        /\ save[q].key = service
        /\ \A r \in Rotation : ~Rotating(r)

OneRotation ==
    \A r, o \in Rotation : Rotating(r) /\ Rotating(o) => r = o

OldInUse ==
    \A r \in Rotation : rotate[r].pc \in {"captured", "read"} => rotate[r].old = service

StillRead ==
    \A r \in Rotation, s \in Script :
        rotate[r].pc = "read" /\ Exists(row[s]) => row[s] = rotate[r].rows[s]

TextsSaved == \A s \in Script : row[s].text = saved[s]

\* Under which key the rows are: the one of a rotation that has committed,
\* and otherwise the one in use.
UnderNew ==
    \A r \in Rotation, s \in Script :
        rotate[r].pc = "rewrapped" => Readable(row[s], r)
UnderService ==
    (\A r \in Rotation : rotate[r].pc # "rewrapped") =>
        \A s \in Script : Readable(row[s], service)

ReadInUse ==
    \A d \in Reader : read[d].pc = "read" /\ ~read[d].crossed =>
        read[d].row.key = service

RefusedCrossed == \A d \in Reader : read[d].pc = "refused" => read[d].crossed

Calm ==
    /\ SavesInUse
    /\ OneRotation
    /\ OldInUse
    /\ StillRead
    /\ TextsSaved
    /\ UnderNew
    /\ UnderService
    /\ ReadInUse
    /\ RefusedCrossed

KeysInv == KeysTypeOK /\ (~disturbed => Calm)

-----------------------------------------------------------------------------
\* Types of the operators that make rows.
LEMMA RewrappedRow ==
    ASSUME NEW now \in Row, NEW seen \in Row, NEW old \in Key, NEW new \in Key
    PROVE  Rewrapped(now, seen, old, new) \in Row
<1>1. CASE Exists(now) /\ Exists(seen) /\ seen.key = old
  <2>1. seen.text \in Text
    BY <1>1 DEF Row, Exists
  <2>2. [text |-> seen.text, key |-> new] \in [text : Text, key : Key]
    BY <2>1
  <2>. QED BY <1>1, <2>2 DEF Rewrapped, Row
<1>2. CASE ~(Exists(now) /\ Exists(seen) /\ seen.key = old)
  BY <1>2 DEF Rewrapped
<1>. QED BY <1>1, <1>2

LEMMA RowKey == \A r \in Row : r.text \in Text \cup {NoText} /\ r.key \in Key
BY KeysAssumption DEF Row, Key

LEMMA NoRowIsRow == NoRow \in Row /\ ~Exists(NoRow)
BY DEF NoRow, Row, Exists

LEMMA InitTypes == Init => KeysTypeOK
<1>. SUFFICES ASSUME Init PROVE KeysTypeOK
  OBVIOUS
<1>1. FirstKey \in Key /\ FirstText \in Text
  BY DEF Key, Text
<1>2. [text |-> FirstText, key |-> FirstKey] \in Row
  BY <1>1 DEF Row
<1>3. row \in [Script -> Row]
  BY <1>2, NoRowIsRow DEF Init
<1>4. saved \in [Script -> Text \cup {NoText}]
  BY <1>3, RowKey DEF Init
<1>5. save \in [Saver -> [pc : SavePc, script : Script \cup {NoScript}, key : Key]]
  BY <1>1 DEF Init, NotSaving, SavePc
<1>6. \A q \in Saver : save[q].pc # "encrypted"
  BY DEF Init, NotSaving
<1>7. [s \in Script |-> NoRow] \in [Script -> Row]
  BY NoRowIsRow
<1>8. rotate \in [Rotation -> [pc : RotatePc, old : Key, rows : [Script -> Row]]]
  BY <1>1, <1>7 DEF Init, NotRotating, RotatePc
<1>9. read \in [Reader -> [pc : ReadPc, row : Row, crossed : BOOLEAN]]
  BY NoRowIsRow DEF Init, NotReading, ReadPc
<1>10. restarts \in 0 .. MaxRestarts
  BY KeysAssumption DEF Init
<1>11. service \in Key /\ config \in Key /\ disturbed \in BOOLEAN
  BY <1>1 DEF Init
<1>. QED BY <1>3, <1>4, <1>5, <1>6, <1>8, <1>9, <1>10, <1>11 DEF KeysTypeOK

LEMMA InitCalm == Init => Calm
<1>. SUFFICES ASSUME Init PROVE Calm
  OBVIOUS
<1>1. \A q \in Saver : ~Saving(q)
  BY DEF Init, NotSaving, Saving
<1>2. \A r \in Rotation : rotate[r].pc = "new"
  BY DEF Init, NotRotating
<1>3. \A r \in Rotation : ~Rotating(r)
  BY <1>2 DEF Rotating
<1>4. \A s \in Script : row[s].text = saved[s] /\ row[s].key = service
  <2>. SUFFICES ASSUME NEW s \in Script
                PROVE  row[s].text = saved[s] /\ row[s].key = service
    OBVIOUS
  <2>1. row[s] \in {NoRow, [text |-> FirstText, key |-> FirstKey]}
    BY DEF Init
  <2>2. row[s].key = FirstKey
    BY <2>1 DEF NoRow
  <2>. QED BY <2>2 DEF Init
<1>5. \A d \in Reader : read[d].pc = "new"
  BY DEF Init, NotReading
<1>. QED
  BY <1>1, <1>2, <1>3, <1>4, <1>5
  DEF Calm, SavesInUse, OneRotation, OldInUse, StillRead, TextsSaved, UnderNew,
      UnderService, ReadInUse, RefusedCrossed, Readable

-----------------------------------------------------------------------------
(* Types: one step per action.                                             *)

LEMMA EncryptTypes ==
    ASSUME KeysTypeOK, NEW q \in Saver, NEW s \in Script, Encrypt(q, s)
    PROVE  KeysTypeOK'
<1>1. [pc |-> "encrypted", script |-> s, key |-> service]
        \in [pc : SavePc, script : Script \cup {NoScript}, key : Key]
  BY DEF KeysTypeOK, SavePc
<1>2. save' \in [Saver -> [pc : SavePc, script : Script \cup {NoScript}, key : Key]]
  BY <1>1 DEF KeysTypeOK, Encrypt
<1>3. \A p \in Saver : save'[p].pc = "encrypted" => save'[p].script \in Script
  BY DEF KeysTypeOK, Encrypt
<1>4. disturbed' \in BOOLEAN
  BY DEF KeysTypeOK, Encrypt
<1>. QED BY <1>2, <1>3, <1>4 DEF KeysTypeOK, Encrypt

\* What SaveFails and Save do to the request.
SaveOver(q) ==
    save' = [save EXCEPT ![q] = [pc |-> "over", script |-> save[q].script,
                                 key |-> save[q].key]]

LEMMA SaveOverTypes ==
    ASSUME KeysTypeOK, NEW q \in Saver, SaveOver(q)
    PROVE  /\ save' \in [Saver -> [pc : SavePc, script : Script \cup {NoScript},
                                   key : Key]]
           /\ \A p \in Saver : save'[p].pc = "encrypted" => save'[p].script \in Script
<1>1. [pc |-> "over", script |-> save[q].script, key |-> save[q].key]
        \in [pc : SavePc, script : Script \cup {NoScript}, key : Key]
  BY DEF KeysTypeOK, SavePc
<1>. QED BY <1>1 DEF KeysTypeOK, SaveOver

LEMMA SaveTypes ==
    ASSUME KeysTypeOK, NEW q \in Saver, Save(q)
    PROVE  KeysTypeOK'
<1>1. SaveOver(q)
  BY DEF Save, SaveOver
<1>2. save[q].script \in Script /\ save[q].key \in Key /\ q \in Text
  BY DEF KeysTypeOK, Save, Saving, Text
<1>3. [text |-> q, key |-> save[q].key] \in Row
  BY <1>2 DEF Row
<1>4. row' \in [Script -> Row]
  BY <1>3 DEF KeysTypeOK, Save
<1>5. saved' \in [Script -> Text \cup {NoText}]
  BY <1>2 DEF KeysTypeOK, Save
<1>. QED BY <1>1, <1>4, <1>5, SaveOverTypes DEF KeysTypeOK, Save

LEMMA SaveFailsTypes ==
    ASSUME KeysTypeOK, NEW q \in Saver, SaveFails(q)
    PROVE  KeysTypeOK'
<1>1. SaveOver(q)
  BY DEF SaveFails, SaveOver
<1>. QED BY <1>1, SaveOverTypes DEF KeysTypeOK, SaveFails

LEMMA DeleteEnvTypes ==
    ASSUME KeysTypeOK, NEW s \in Script, DeleteEnv(s)
    PROVE  KeysTypeOK'
<1>1. row' \in [Script -> Row]
  BY NoRowIsRow DEF KeysTypeOK, DeleteEnv
<1>2. saved' \in [Script -> Text \cup {NoText}]
  BY DEF KeysTypeOK, DeleteEnv
<1>. QED BY <1>1, <1>2 DEF KeysTypeOK, DeleteEnv

RotateType == [pc : RotatePc, old : Key, rows : [Script -> Row]]

LEMMA CaptureTypes ==
    ASSUME KeysTypeOK, NEW r \in Rotation, Capture(r)
    PROVE  KeysTypeOK'
<1>1. [s \in Script |-> NoRow] \in [Script -> Row]
  BY NoRowIsRow
<1>2. [pc |-> "captured", old |-> service, rows |-> [s \in Script |-> NoRow]]
        \in RotateType
  BY <1>1 DEF KeysTypeOK, RotateType, RotatePc
<1>3. rotate' \in [Rotation -> RotateType]
  BY <1>2 DEF KeysTypeOK, Capture, RotateType
<1>4. disturbed' \in BOOLEAN
  BY DEF KeysTypeOK, Capture
<1>. QED BY <1>3, <1>4 DEF KeysTypeOK, Capture, RotateType

LEMMA SelectRowsTypes ==
    ASSUME KeysTypeOK, NEW r \in Rotation, SelectRows(r)
    PROVE  KeysTypeOK'
<1>1. [pc |-> "read", old |-> rotate[r].old, rows |-> row] \in RotateType
  BY DEF KeysTypeOK, RotateType, RotatePc
<1>2. rotate' \in [Rotation -> RotateType]
  BY <1>1 DEF KeysTypeOK, SelectRows, RotateType
<1>. QED BY <1>2 DEF KeysTypeOK, SelectRows, RotateType

LEMMA CrossTypes ==
    ASSUME NEW d \in [pc : ReadPc, row : Row, crossed : BOOLEAN]
    PROVE  /\ Cross(d) \in [pc : ReadPc, row : Row, crossed : BOOLEAN]
           /\ Cross(d).pc = d.pc
           /\ Cross(d).row = d.row
           /\ Cross(d).crossed <=> (d.crossed \/ d.pc = "read")
<1>1. CASE d.pc = "read"
  <2>1. Cross(d) = [pc |-> d.pc, row |-> d.row, crossed |-> TRUE]
    BY <1>1 DEF Cross
  <2>. QED BY <1>1, <2>1
<1>2. CASE d.pc # "read"
  <2>1. Cross(d) = d
    BY <1>2 DEF Cross
  <2>. QED BY <1>2, <2>1
<1>. QED BY <1>1, <1>2

LEMMA RewrapTypes ==
    ASSUME KeysTypeOK, NEW r \in Rotation, Rewrap(r)
    PROVE  KeysTypeOK'
<1>1. \A s \in Script : Rewrapped(row[s], rotate[r].rows[s], rotate[r].old, r) \in Row
  <2>. SUFFICES ASSUME NEW s \in Script
                PROVE  Rewrapped(row[s], rotate[r].rows[s], rotate[r].old, r) \in Row
    OBVIOUS
  <2>1. row[s] \in Row /\ rotate[r].rows[s] \in Row
    BY DEF KeysTypeOK
  <2>2. rotate[r].old \in Key /\ r \in Key
    BY DEF KeysTypeOK, Key
  <2>. QED BY <2>1, <2>2, RewrappedRow
<1>2. row' \in [Script -> Row]
  BY <1>1 DEF Rewrap
<1>3. [pc |-> "rewrapped", old |-> rotate[r].old, rows |-> rotate[r].rows]
        \in RotateType
  BY DEF KeysTypeOK, RotateType, RotatePc
<1>4. rotate' \in [Rotation -> RotateType]
  BY <1>3 DEF KeysTypeOK, Rewrap, RotateType
<1>5. read' \in [Reader -> [pc : ReadPc, row : Row, crossed : BOOLEAN]]
  BY CrossTypes DEF KeysTypeOK, Rewrap
<1>. QED BY <1>2, <1>4, <1>5 DEF KeysTypeOK, Rewrap, RotateType

\* What Adopt and RotateFails do to the request.
RotateOver(r) ==
    rotate' = [rotate EXCEPT ![r] =
        [pc |-> "over", old |-> rotate[r].old, rows |-> rotate[r].rows]]

LEMMA RotateOverTypes ==
    ASSUME KeysTypeOK, NEW r \in Rotation, RotateOver(r)
    PROVE  rotate' \in [Rotation -> RotateType]
<1>1. [pc |-> "over", old |-> rotate[r].old, rows |-> rotate[r].rows] \in RotateType
  BY DEF KeysTypeOK, RotateType, RotatePc
<1>. QED BY <1>1 DEF KeysTypeOK, RotateOver, RotateType

LEMMA AdoptTypes ==
    ASSUME KeysTypeOK, NEW r \in Rotation, Adopt(r)
    PROVE  KeysTypeOK'
<1>1. rotate' \in [Rotation -> RotateType]
  BY RotateOverTypes DEF Adopt, RotateOver
<1>2. service' \in Key
  BY DEF Adopt, Key
<1>3. read' \in [Reader -> [pc : ReadPc, row : Row, crossed : BOOLEAN]]
  BY CrossTypes DEF KeysTypeOK, Adopt
<1>. QED BY <1>1, <1>2, <1>3 DEF KeysTypeOK, Adopt, RotateType

LEMMA RotateFailsTypes ==
    ASSUME KeysTypeOK, NEW r \in Rotation, RotateFails(r)
    PROVE  KeysTypeOK'
<1>1. rotate' \in [Rotation -> RotateType]
  BY RotateOverTypes DEF RotateFails, RotateOver
<1>. QED BY <1>1 DEF KeysTypeOK, RotateFails, RotateType

ReadType == [pc : ReadPc, row : Row, crossed : BOOLEAN]

LEMMA ReadRowTypes ==
    ASSUME KeysTypeOK, NEW d \in Reader, NEW s \in Script, ReadRow(d, s)
    PROVE  KeysTypeOK'
<1>. DEFINE Crossed == \E r \in Rotation : rotate[r].pc = "rewrapped"
<1>1. Crossed \in BOOLEAN
  OBVIOUS
<1>2. read' = [read EXCEPT ![d] = [pc |-> "read", row |-> row[s], crossed |-> Crossed]]
  BY DEF ReadRow
<1>. HIDE DEF Crossed
<1>3. [pc |-> "read", row |-> row[s], crossed |-> Crossed] \in ReadType
  BY <1>1 DEF KeysTypeOK, ReadType, ReadPc
<1>4. read' \in [Reader -> ReadType]
  BY <1>2, <1>3 DEF KeysTypeOK, ReadType
<1>. QED BY <1>4 DEF KeysTypeOK, ReadRow, ReadType

LEMMA DecryptTypes ==
    ASSUME KeysTypeOK, NEW d \in Reader, Decrypt(d)
    PROVE  KeysTypeOK'
<1>. DEFINE End == IF read[d].row.key = service THEN "decrypted" ELSE "refused"
<1>1. End \in ReadPc
  BY DEF ReadPc
<1>2. read' = [read EXCEPT ![d] =
          [pc |-> End, row |-> read[d].row, crossed |-> read[d].crossed]]
  BY DEF Decrypt
<1>. HIDE DEF End
<1>3. [pc |-> End, row |-> read[d].row, crossed |-> read[d].crossed] \in ReadType
  BY <1>1 DEF KeysTypeOK, ReadType
<1>4. read' \in [Reader -> ReadType]
  BY <1>2, <1>3 DEF KeysTypeOK, ReadType
<1>. QED BY <1>4 DEF KeysTypeOK, Decrypt, ReadType

LEMMA RestartTypes ==
    ASSUME KeysTypeOK, Restart
    PROVE  KeysTypeOK'
<1>1. \A q \in Saver :
        /\ save'[q] \in [pc : SavePc, script : Script \cup {NoScript}, key : Key]
        /\ save'[q].pc # "encrypted"
  <2>. SUFFICES ASSUME NEW q \in Saver
                PROVE  /\ save'[q] \in [pc : SavePc, script : Script \cup {NoScript},
                                        key : Key]
                       /\ save'[q].pc # "encrypted"
    OBVIOUS
  <2>1. CASE Saving(q)
    <3>1. save'[q] = [pc |-> "over", script |-> save[q].script, key |-> save[q].key]
      BY <2>1 DEF Restart
    <3>. QED BY <3>1 DEF KeysTypeOK, SavePc
  <2>2. CASE ~Saving(q)
    <3>1. save'[q] = save[q]
      BY <2>2 DEF Restart
    <3>. QED BY <2>2, <3>1 DEF KeysTypeOK, Saving
  <2>. QED BY <2>1, <2>2
<1>2. save' \in [Saver -> [pc : SavePc, script : Script \cup {NoScript}, key : Key]]
  <2>1. save' = [q \in Saver |-> save'[q]]
    BY DEF Restart
  <2>. QED BY <1>1, <2>1
<1>3. \A r \in Rotation : rotate'[r] \in RotateType
  <2>. SUFFICES ASSUME NEW r \in Rotation PROVE rotate'[r] \in RotateType
    OBVIOUS
  <2>1. CASE Rotating(r)
    <3>1. rotate'[r] = [pc |-> "over", old |-> rotate[r].old, rows |-> rotate[r].rows]
      BY <2>1 DEF Restart
    <3>. QED BY <3>1 DEF KeysTypeOK, RotatePc, RotateType
  <2>2. CASE ~Rotating(r)
    BY <2>2 DEF Restart, KeysTypeOK, RotateType
  <2>. QED BY <2>1, <2>2
<1>4. rotate' \in [Rotation -> RotateType]
  <2>1. rotate' = [r \in Rotation |-> rotate'[r]]
    BY DEF Restart
  <2>. QED BY <1>3, <2>1
<1>5. \A d \in Reader : read'[d] \in ReadType
  <2>. SUFFICES ASSUME NEW d \in Reader PROVE read'[d] \in ReadType
    OBVIOUS
  <2>1. NotReading \in ReadType
    BY NoRowIsRow DEF NotReading, ReadType, ReadPc
  <2>. QED BY <2>1 DEF Restart, KeysTypeOK, ReadType
<1>6. read' \in [Reader -> ReadType]
  <2>1. read' = [d \in Reader |-> read'[d]]
    BY DEF Restart
  <2>. QED BY <1>5, <2>1
<1>7. service' \in Key /\ disturbed' \in BOOLEAN
  BY DEF Restart, KeysTypeOK
<1>8. restarts' \in 0 .. MaxRestarts
  BY KeysAssumption DEF Restart, KeysTypeOK
<1>. QED
  BY <1>1, <1>2, <1>4, <1>6, <1>7, <1>8
  DEF Restart, KeysTypeOK, RotateType, ReadType

-----------------------------------------------------------------------------
(* Calm: what each action can disturb.                                     *)

LEMMA EncryptCalm ==
    ASSUME KeysTypeOK, Calm, ~disturbed', NEW q \in Saver, NEW s \in Script, Encrypt(q, s)
    PROVE  Calm'
<1>1. \A r \in Rotation : ~Rotating(r)
  BY DEF Encrypt
<1>2. UNCHANGED <<row, service, rotate, read, saved>>
  BY DEF Encrypt
<1>3. SavesInUse'
  <2>. SUFFICES ASSUME NEW p \in Saver, Saving(p)'
                PROVE  save'[p].key = service /\ \A r \in Rotation : ~Rotating(r)'
    BY <1>2 DEF SavesInUse
  <2>1. CASE p = q
    BY <1>1, <1>2, <2>1 DEF Encrypt, KeysTypeOK, Rotating
  <2>2. CASE p # q
    BY <1>1, <1>2, <2>2 DEF Encrypt, KeysTypeOK, Rotating, Saving, Calm, SavesInUse
  <2>. QED BY <2>1, <2>2
<1>. QED
  BY <1>2, <1>3
  DEF Calm, OneRotation, OldInUse, StillRead, TextsSaved, UnderNew, UnderService,
      ReadInUse, RefusedCrossed, Rotating

LEMMA SaveOverCalm ==
    ASSUME KeysTypeOK, SavesInUse, NEW q \in Saver, SaveOver(q), UNCHANGED <<service, rotate>>
    PROVE  SavesInUse'
<1>. SUFFICES ASSUME NEW p \in Saver, Saving(p)'
              PROVE  save'[p].key = service /\ \A r \in Rotation : ~Rotating(r)'
  BY DEF SavesInUse
<1>1. p # q
  BY DEF SaveOver, Saving, KeysTypeOK
<1>2. save'[p] = save[p]
  BY <1>1 DEF SaveOver, KeysTypeOK
<1>. QED BY <1>2 DEF SavesInUse, Saving, Rotating

LEMMA SaveCalm ==
    ASSUME KeysTypeOK, Calm, NEW q \in Saver, Save(q)
    PROVE  Calm'
<1>. DEFINE s == save[q].script
<1>1. /\ save[q].key = service
      /\ \A r \in Rotation : ~Rotating(r)
  BY DEF Save, Calm, SavesInUse
<1>2. UNCHANGED <<service, rotate, read>>
  BY DEF Save
<1>3. SavesInUse'
  BY <1>2, SaveOverCalm DEF Calm, Save, SaveOver
<1>4. s \in Script
  BY DEF Save, Saving, KeysTypeOK
<1>5. /\ row' = [row EXCEPT ![s] = [text |-> q, key |-> service]]
      /\ saved' = [saved EXCEPT ![s] = q]
  BY <1>1 DEF Save
<1>. HIDE DEF s
<1>6. TextsSaved'
  <2>. SUFFICES ASSUME NEW p \in Script PROVE row'[p].text = saved'[p]
    BY DEF TextsSaved
  <2>1. CASE p = s
    BY <1>4, <1>5, <2>1 DEF KeysTypeOK
  <2>2. CASE p # s
    BY <1>5, <2>2 DEF KeysTypeOK, Calm, TextsSaved
  <2>. QED BY <2>1, <2>2
<1>7. UnderService'
  <2>. SUFFICES ASSUME NEW p \in Script PROVE Readable(row'[p], service)
    BY <1>2 DEF UnderService
  <2>1. CASE p = s
    BY <1>4, <1>5, <2>1 DEF KeysTypeOK, Readable
  <2>2. CASE p # s
    <3>1. row'[p] = row[p]
      BY <1>5, <2>2 DEF KeysTypeOK
    <3>. QED BY <1>1, <3>1 DEF Calm, UnderService, Rotating
  <2>. QED BY <2>1, <2>2
<1>8. \A r \in Rotation : ~Rotating(r)'
  BY <1>1, <1>2 DEF Rotating
<1>. QED
  BY <1>2, <1>3, <1>6, <1>7, <1>8
  DEF Calm, OneRotation, OldInUse, StillRead, UnderNew, ReadInUse, RefusedCrossed,
      Rotating

LEMMA SaveFailsCalm ==
    ASSUME KeysTypeOK, Calm, NEW q \in Saver, SaveFails(q)
    PROVE  Calm'
<1>1. UNCHANGED <<row, service, rotate, read, saved>>
  BY DEF SaveFails
<1>2. SavesInUse'
  BY <1>1, SaveOverCalm DEF Calm, SaveFails, SaveOver
<1>. QED
  BY <1>1, <1>2
  DEF Calm, OneRotation, OldInUse, StillRead, TextsSaved, UnderNew, UnderService,
      ReadInUse, RefusedCrossed, Rotating

LEMMA DeleteEnvCalm ==
    ASSUME KeysTypeOK, Calm, NEW s \in Script, DeleteEnv(s)
    PROVE  Calm'
<1>1. UNCHANGED <<service, save, rotate, read>>
  BY DEF DeleteEnv
<1>2. \A p \in Script : row'[p] = row[p] \/ (~Exists(row'[p]) /\ p = s)
  BY NoRowIsRow DEF DeleteEnv, KeysTypeOK
<1>3. \A p \in Script, k \in Key : Readable(row[p], k) => Readable(row'[p], k)
  BY <1>2 DEF Readable
<1>4. TextsSaved'
  <2>. SUFFICES ASSUME NEW p \in Script PROVE row'[p].text = saved'[p]
    BY DEF TextsSaved
  <2>. QED BY DEF DeleteEnv, KeysTypeOK, NoRow, Calm, TextsSaved
<1>5. StillRead'
  BY <1>1, <1>2 DEF Calm, StillRead
<1>6. UnderNew'
  BY <1>1, <1>3 DEF Calm, UnderNew, Key
<1>7. UnderService'
  BY <1>1, <1>3 DEF Calm, UnderService, KeysTypeOK
<1>. QED
  BY <1>1, <1>4, <1>5, <1>6, <1>7
  DEF Calm, SavesInUse, Saving, OneRotation, OldInUse, ReadInUse, RefusedCrossed,
      Rotating

\* What a step of one rotation leaves of the others.
LEMMA OtherRotations ==
    ASSUME NEW r \in Rotation, NEW rec, NEW f, f = [rotate EXCEPT ![r] = rec],
           DOMAIN rotate = Rotation
    PROVE  /\ f[r] = rec
           /\ \A o \in Rotation \ {r} : f[o] = rotate[o]
OBVIOUS

LEMMA CaptureCalm ==
    ASSUME KeysTypeOK, Calm, ~disturbed', NEW r \in Rotation, Capture(r)
    PROVE  Calm'
<1>1. /\ \A o \in Rotation : ~Rotating(o)
      /\ \A q \in Saver : ~Saving(q)
  BY DEF Capture
<1>2. UNCHANGED <<row, service, save, read, saved>>
  BY DEF Capture
<1>3. /\ rotate'[r].pc = "captured" /\ rotate'[r].old = service
      /\ \A o \in Rotation \ {r} : rotate'[o] = rotate[o]
  BY DEF Capture, KeysTypeOK
<1>4. \A o \in Rotation : Rotating(o)' => o = r
  BY <1>1, <1>3 DEF Rotating
<1>5. \A o \in Rotation : rotate[o].pc # "rewrapped"
  BY <1>1 DEF Rotating
<1>6. \A q \in Saver : ~Saving(q)'
  BY <1>1, <1>2 DEF Saving
<1>7. UnderService'
  BY <1>2, <1>5 DEF Calm, UnderService
<1>8. StillRead' /\ UnderNew' /\ OldInUse'
  BY <1>2, <1>3, <1>4 DEF StillRead, UnderNew, OldInUse, Rotating
<1>. QED
  BY <1>2, <1>4, <1>6, <1>7, <1>8
  DEF Calm, SavesInUse, OneRotation, TextsSaved, ReadInUse, RefusedCrossed

LEMMA SelectRowsCalm ==
    ASSUME KeysTypeOK, Calm, NEW r \in Rotation, SelectRows(r)
    PROVE  Calm'
<1>1. UNCHANGED <<row, service, save, read, saved>>
  BY DEF SelectRows
<1>2. /\ rotate[r].pc = "captured"
      /\ rotate'[r] = [pc |-> "read", old |-> rotate[r].old, rows |-> row]
      /\ \A o \in Rotation \ {r} : rotate'[o] = rotate[o]
  BY DEF SelectRows, KeysTypeOK
<1>3. \A o \in Rotation : Rotating(o)' <=> Rotating(o)
  BY <1>2 DEF Rotating
<1>4. \A o \in Rotation : rotate'[o].pc = "rewrapped" <=> rotate[o].pc = "rewrapped"
  BY <1>2
<1>5. StillRead'
  BY <1>1, <1>2 DEF Calm, StillRead
<1>6. OldInUse'
  BY <1>1, <1>2 DEF Calm, OldInUse
<1>7. UnderNew' /\ UnderService'
  BY <1>1, <1>4 DEF Calm, UnderNew, UnderService
<1>8. SavesInUse' /\ OneRotation'
  BY <1>1, <1>3 DEF Calm, SavesInUse, OneRotation, Saving
<1>. QED
  BY <1>1, <1>5, <1>6, <1>7, <1>8
  DEF Calm, TextsSaved, ReadInUse, RefusedCrossed

\* Another rotation than the one at work has not begun or is over.
LEMMA OnlyOne ==
    ASSUME OneRotation, NEW r \in Rotation, Rotating(r)
    PROVE  \A o \in Rotation \ {r} : ~Rotating(o)
BY DEF OneRotation

LEMMA RewrapCalm ==
    ASSUME KeysTypeOK, Calm, NEW r \in Rotation, Rewrap(r)
    PROVE  Calm'
<1>1. UNCHANGED <<service, save, saved>>
  BY DEF Rewrap
<1>2. /\ rotate[r].pc = "read"
      /\ rotate'[r].pc = "rewrapped"
      /\ \A o \in Rotation \ {r} : rotate'[o] = rotate[o]
  BY DEF Rewrap, KeysTypeOK
<1>3. \A o \in Rotation \ {r} : ~Rotating(o)
  BY <1>2, OnlyOne DEF Calm, Rotating
<1>4. \A o \in Rotation : Rotating(o)' => o = r
  BY <1>2, <1>3 DEF Rotating
<1>5. \A q \in Saver : ~Saving(q)'
  BY <1>1, <1>2 DEF Calm, SavesInUse, Saving, Rotating
<1>6. \A s \in Script : Readable(row'[s], r) /\ row'[s].text = row[s].text
  <2>. SUFFICES ASSUME NEW s \in Script
                PROVE  Readable(row'[s], r) /\ row'[s].text = row[s].text
    OBVIOUS
  <2>1. row'[s] = Rewrapped(row[s], rotate[r].rows[s], rotate[r].old, r)
    BY DEF Rewrap
  <2>2. CASE ~Exists(row[s])
    BY <2>1, <2>2 DEF Rewrapped, Readable
  <2>3. CASE Exists(row[s])
    <3>1. rotate[r].rows[s] = row[s]
      BY <1>2, <2>3 DEF Calm, StillRead
    <3>2. \A o \in Rotation : rotate[o].pc # "rewrapped"
      BY <1>2, <1>3 DEF Rotating
    <3>3. row[s].key = service
      BY <2>3, <3>2 DEF Calm, UnderService, Readable
    <3>4. rotate[r].old = service
      BY <1>2 DEF Calm, OldInUse
    <3>5. row'[s] = [text |-> row[s].text, key |-> r]
      BY <2>1, <2>3, <3>1, <3>3, <3>4 DEF Rewrapped
    <3>. QED BY <3>5 DEF Readable
  <2>. QED BY <2>2, <2>3
<1>7. UnderNew'
  BY <1>4, <1>6 DEF UnderNew, Rotating
<1>8. UnderService'
  BY <1>2 DEF UnderService
<1>9. StillRead' /\ OldInUse'
  BY <1>2, <1>4 DEF StillRead, OldInUse, Rotating
<1>10. TextsSaved'
  BY <1>1, <1>6 DEF Calm, TextsSaved
<1>11. ReadInUse' /\ RefusedCrossed'
  <2>1. \A d \in Reader : read'[d] = Cross(read[d]) /\ read[d] \in ReadType
    BY DEF Rewrap, KeysTypeOK, ReadType
  <2>. QED BY <2>1, CrossTypes DEF ReadType, Calm, ReadInUse, RefusedCrossed
<1>. QED
  BY <1>4, <1>5, <1>7, <1>8, <1>9, <1>10, <1>11
  DEF Calm, SavesInUse, OneRotation

LEMMA AdoptCalm ==
    ASSUME KeysTypeOK, Calm, NEW r \in Rotation, Adopt(r)
    PROVE  Calm'
<1>1. UNCHANGED <<row, save, saved>> /\ service' = r
  BY DEF Adopt
<1>2. /\ rotate[r].pc = "rewrapped"
      /\ rotate'[r].pc = "over"
      /\ \A o \in Rotation \ {r} : rotate'[o] = rotate[o]
  BY DEF Adopt, KeysTypeOK
<1>3. \A o \in Rotation \ {r} : ~Rotating(o)
  BY <1>2, OnlyOne DEF Calm, Rotating
<1>4. \A o \in Rotation : ~Rotating(o)'
  BY <1>2, <1>3 DEF Rotating
<1>5. \A q \in Saver : ~Saving(q)'
  BY <1>1, <1>2 DEF Calm, SavesInUse, Saving, Rotating
<1>6. UnderService'
  BY <1>1, <1>2 DEF Calm, UnderNew, UnderService
<1>7. ReadInUse' /\ RefusedCrossed'
  <2>1. \A d \in Reader : read'[d] = Cross(read[d]) /\ read[d] \in ReadType
    BY DEF Adopt, KeysTypeOK, ReadType
  <2>. QED BY <2>1, CrossTypes DEF ReadType, Calm, ReadInUse, RefusedCrossed
<1>8. TextsSaved'
  BY <1>1 DEF Calm, TextsSaved
<1>. QED
  BY <1>4, <1>5, <1>6, <1>7, <1>8
  DEF Calm, SavesInUse, OneRotation, OldInUse, StillRead, UnderNew, Rotating

LEMMA RotateFailsCalm ==
    ASSUME KeysTypeOK, Calm, NEW r \in Rotation, RotateFails(r)
    PROVE  Calm'
<1>1. UNCHANGED <<row, service, save, read, saved>>
  BY DEF RotateFails
<1>2. /\ rotate[r].pc \in {"captured", "read"}
      /\ rotate'[r].pc = "over"
      /\ \A o \in Rotation \ {r} : rotate'[o] = rotate[o]
  BY DEF RotateFails, KeysTypeOK
<1>3. \A o \in Rotation : Rotating(o)' => Rotating(o) /\ o # r
  BY <1>2 DEF Rotating
<1>4. \A o \in Rotation : rotate'[o].pc = "rewrapped" <=> rotate[o].pc = "rewrapped"
  BY <1>2
<1>5. UnderNew' /\ UnderService'
  BY <1>1, <1>4 DEF Calm, UnderNew, UnderService
<1>6. StillRead' /\ OldInUse'
  BY <1>1, <1>2 DEF Calm, StillRead, OldInUse
<1>7. SavesInUse' /\ OneRotation'
  BY <1>1, <1>3 DEF Calm, SavesInUse, OneRotation, Saving
<1>. QED
  BY <1>1, <1>5, <1>6, <1>7 DEF Calm, TextsSaved, ReadInUse, RefusedCrossed

\* A reader touches nothing the writers depend on.
LEMMA ReaderCalm ==
    ASSUME Calm, UNCHANGED <<row, service, save, rotate, saved>>
    PROVE  /\ SavesInUse' /\ OneRotation' /\ OldInUse' /\ StillRead'
           /\ TextsSaved' /\ UnderNew' /\ UnderService'
BY DEF Calm, SavesInUse, Saving, OneRotation, OldInUse, StillRead, TextsSaved,
       UnderNew, UnderService, Rotating

LEMMA ReadRowCalm ==
    ASSUME KeysTypeOK, Calm, NEW d \in Reader, NEW s \in Script, ReadRow(d, s)
    PROVE  Calm'
<1>. DEFINE Crossed == \E r \in Rotation : rotate[r].pc = "rewrapped"
<1>1. read' = [read EXCEPT ![d] = [pc |-> "read", row |-> row[s], crossed |-> Crossed]]
  BY DEF ReadRow
<1>2. ~Crossed => row[s].key = service
  BY DEF ReadRow, Calm, UnderService, Readable
<1>3. UNCHANGED <<row, service, save, rotate, saved>>
  BY DEF ReadRow
<1>. HIDE DEF Crossed
<1>4. ReadInUse' /\ RefusedCrossed'
  <2>. SUFFICES ASSUME NEW e \in Reader
                PROVE  /\ read'[e].pc = "read" /\ ~read'[e].crossed =>
                              read'[e].row.key = service
                       /\ read'[e].pc = "refused" => read'[e].crossed
    BY <1>3 DEF ReadInUse, RefusedCrossed
  <2>1. CASE e = d
    <3>1. read'[e] = [pc |-> "read", row |-> row[s], crossed |-> Crossed]
      BY <1>1, <2>1 DEF KeysTypeOK
    <3>. QED BY <1>2, <3>1
  <2>2. CASE e # d
    <3>1. read'[e] = read[e]
      BY <1>1, <2>2 DEF KeysTypeOK
    <3>. QED BY <3>1 DEF Calm, ReadInUse, RefusedCrossed
  <2>. QED BY <2>1, <2>2
<1>. QED BY <1>3, <1>4, ReaderCalm DEF Calm

LEMMA DecryptCalm ==
    ASSUME KeysTypeOK, Calm, NEW d \in Reader, Decrypt(d)
    PROVE  Calm'
<1>1. UNCHANGED <<row, service, save, rotate, saved>>
  BY DEF Decrypt
<1>2. ReadInUse' /\ RefusedCrossed'
  <2>. SUFFICES ASSUME NEW e \in Reader
                PROVE  /\ read'[e].pc = "read" /\ ~read'[e].crossed =>
                              read'[e].row.key = service
                       /\ read'[e].pc = "refused" => read'[e].crossed
    BY <1>1 DEF ReadInUse, RefusedCrossed
  <2>1. CASE e # d
    <3>1. read'[e] = read[e]
      BY <2>1 DEF Decrypt, KeysTypeOK
    <3>. QED BY <3>1 DEF Calm, ReadInUse, RefusedCrossed
  <2>2. CASE e = d /\ read[d].row.key = service
    <3>1. read'[e].pc = "decrypted"
      BY <2>2 DEF Decrypt, KeysTypeOK
    <3>. QED BY <3>1
  <2>3. CASE e = d /\ read[d].row.key # service
    <3>1. read'[e].pc = "refused" /\ read'[e].crossed = read[d].crossed
      BY <2>3 DEF Decrypt, KeysTypeOK
    <3>2. read[d].crossed
      BY <2>3 DEF Decrypt, Calm, ReadInUse, KeysTypeOK
    <3>. QED BY <3>1, <3>2
  <2>. QED BY <2>1, <2>2, <2>3
<1>. QED BY <1>1, <1>2, ReaderCalm DEF Calm

LEMMA RestartCalm ==
    ASSUME KeysTypeOK, Calm, ~disturbed', Restart
    PROVE  Calm'
<1>1. /\ service' = service
      /\ UNCHANGED <<row, saved>>
      /\ \A r \in Rotation : rotate[r].pc # "rewrapped"
  BY DEF Restart
<1>2. \A q \in Saver : ~Saving(q)'
  <2>. SUFFICES ASSUME NEW q \in Saver PROVE save'[q].pc # "encrypted"
    BY DEF Saving
  <2>. QED BY DEF Restart, Saving
<1>3. \A r \in Rotation : ~Rotating(r)'
  <2>. SUFFICES ASSUME NEW r \in Rotation
                PROVE  rotate'[r].pc \notin {"captured", "read", "rewrapped"}
    BY DEF Rotating
  <2>. QED BY DEF Restart, Rotating
<1>4. \A d \in Reader :
        read'[d].pc # "read" /\ (read'[d].pc = "refused" => read[d] = read'[d])
  BY DEF Restart, NotReading
<1>5. ReadInUse' /\ RefusedCrossed'
  BY <1>4 DEF Calm, ReadInUse, RefusedCrossed
<1>6. UnderService'
  BY <1>1 DEF Calm, UnderService
<1>. QED
  BY <1>1, <1>2, <1>3, <1>5, <1>6
  DEF Calm, SavesInUse, OneRotation, OldInUse, StillRead, TextsSaved, UnderNew,
      Rotating

-----------------------------------------------------------------------------
LEMMA NextTypes == KeysTypeOK /\ [Next]_vars => KeysTypeOK'
<1>. SUFFICES ASSUME KeysTypeOK, [Next]_vars PROVE KeysTypeOK'
  OBVIOUS
<1>1. CASE \E q \in Saver, s \in Script : Encrypt(q, s)
  BY <1>1, EncryptTypes
<1>2. CASE \E q \in Saver : Save(q) \/ SaveFails(q)
  BY <1>2, SaveTypes, SaveFailsTypes
<1>3. CASE \E s \in Script : DeleteEnv(s)
  BY <1>3, DeleteEnvTypes
<1>4. CASE \E r \in Rotation : \/ Capture(r) \/ SelectRows(r) \/ Rewrap(r)
                               \/ Adopt(r) \/ RotateFails(r)
  BY <1>4, CaptureTypes, SelectRowsTypes, RewrapTypes, AdoptTypes, RotateFailsTypes
<1>5. CASE \E d \in Reader, s \in Script : ReadRow(d, s)
  BY <1>5, ReadRowTypes
<1>6. CASE \E d \in Reader : Decrypt(d)
  BY <1>6, DecryptTypes
<1>7. CASE Configure
  BY <1>7 DEF KeysTypeOK, Configure
<1>8. CASE Restart
  BY <1>8, RestartTypes
<1>9. CASE UNCHANGED vars
  BY <1>9 DEF KeysTypeOK, vars
<1>. QED
  BY <1>1, <1>2, <1>3, <1>4, <1>5, <1>6, <1>7, <1>8, <1>9 DEF Next

\* Once a rotation has been disturbed, nothing is claimed any more.
LEMMA DisturbedStays == KeysTypeOK /\ [Next]_vars => (disturbed => disturbed')
BY DEF Next, vars, Encrypt, Save, SaveFails, DeleteEnv, Capture, SelectRows, Rewrap,
       Adopt, RotateFails, ReadRow, Decrypt, Configure, Restart

LEMMA NextCalm == KeysTypeOK /\ Calm /\ [Next]_vars => (disturbed' \/ Calm')
<1>. SUFFICES ASSUME KeysTypeOK, Calm, [Next]_vars, ~disturbed' PROVE Calm'
  OBVIOUS
<1>1. CASE \E q \in Saver, s \in Script : Encrypt(q, s)
  BY <1>1, EncryptCalm
<1>2. CASE \E q \in Saver : Save(q) \/ SaveFails(q)
  BY <1>2, SaveCalm, SaveFailsCalm
<1>3. CASE \E s \in Script : DeleteEnv(s)
  BY <1>3, DeleteEnvCalm
<1>4. CASE \E r \in Rotation : \/ Capture(r) \/ SelectRows(r) \/ Rewrap(r)
                               \/ Adopt(r) \/ RotateFails(r)
  BY <1>4, CaptureCalm, SelectRowsCalm, RewrapCalm, AdoptCalm, RotateFailsCalm
<1>5. CASE \E d \in Reader, s \in Script : ReadRow(d, s)
  BY <1>5, ReadRowCalm
<1>6. CASE \E d \in Reader : Decrypt(d)
  BY <1>6, DecryptCalm
<1>7. CASE Configure \/ UNCHANGED vars
  <2>1. UNCHANGED <<row, service, save, rotate, read, saved>>
    BY <1>7 DEF Configure, vars
  <2>2. ReadInUse' /\ RefusedCrossed'
    BY <2>1 DEF Calm, ReadInUse, RefusedCrossed
  <2>. QED BY <2>1, <2>2, ReaderCalm DEF Calm
<1>8. CASE Restart
  BY <1>8, RestartCalm
<1>. QED BY <1>1, <1>2, <1>3, <1>4, <1>5, <1>6, <1>7, <1>8 DEF Next

\* The state of the rotations, of the requests that save, and of the rows fits
\* together in every behaviour of the server.
THEOREM KeysInvariant == Spec => []KeysInv
<1>1. Init => KeysInv
  BY InitTypes, InitCalm DEF KeysInv
<1>2. KeysInv /\ [Next]_vars => KeysInv'
  BY NextTypes, NextCalm, DisturbedStays DEF KeysInv
<1>. QED BY <1>1, <1>2, PTL DEF Spec

\* Every variable of EnvKeys keeps its type.
THEOREM KeysTypes == Spec => []KeysTypeOK
<1>1. KeysInv => KeysTypeOK
  BY DEF KeysInv
<1>. QED BY <1>1, KeysInvariant, PTL

\* As long as no rotation overlaps another writer and no restart brings an
\* older key back, a rotation - one that fails, one that meets deletions, one
\* the server dies in - leaves each script with the variables last saved for
\* it, under the key in use or the one about to be (api/admin.py and
\* api/envs.py, for any number of requests).
THEOREM RowsStaySound == Spec => []RowsSound
<1>1. KeysInv => RowsSound
  BY DEF KeysInv, Calm, TextsSaved, UnderNew, UnderService, RowsSound
<1>. QED BY <1>1, KeysInvariant, PTL

\* Then a run or a GET fails to decrypt only if a rotation changed the rows or
\* the key between its two steps.
THEOREM ReadersDoHeed == Spec => []ReadersHeed
<1>1. KeysInv => ReadersHeed
  BY DEF KeysInv, Calm, RefusedCrossed, ReadersHeed
<1>. QED BY <1>1, KeysInvariant, PTL

-----------------------------------------------------------------------------
(***************************************************************************)
(* Migrations, for any number of servers, doctors, starts and crashes:     *)
(* what is recorded is every version up to some version, so that reading   *)
(* the newest alone, as a pass does, leaves none out, and a server that    *)
(* serves has recorded them all.                                           *)
(*                                                                         *)
(* What the scripts do to the schema plays no part in that: the argument   *)
(* is about what a process has read of schema_version and what has been    *)
(* added since.  It does for the rows, which come after (RowsInv), and for *)
(* the schema itself, which comes last (SchemaInv).                        *)
(***************************************************************************)

\* A pass looks at the newest recorded version alone, so a version left out would
\* never be applied: there is no gap in what is recorded (db/migrations.py).
NoGaps == \E v \in 0 .. Newest : recorded = 1 .. v

\* A place of a process.
Place(r) ==
    /\ {"pc", "next", "unit", "fk"} \subseteq DOMAIN r
    /\ r.next \in 1 .. Newest + 1

\* Everything below the script a process works on is recorded: it was when the
\* pass began, or this pass did it, and nothing is taken out.
Behind(r, rec) ==
    /\ Place(r)
    /\ r.pc # "off" => 1 .. r.next - 1 \subseteq rec
    /\ r.pc = "serving" => r.next = Newest + 1

GapInv ==
    /\ NoGaps
    /\ DOMAIN proc = Process
    /\ \A p \in Process : Behind(proc[p], recorded)

LEMMA HighestOfPrefix ==
    ASSUME NEW v \in 0 .. Newest
    PROVE  Highest(1 .. v) = v
<1>1. CASE v = 0
  BY <1>1, 1 .. 0 = {} DEF Highest
<1>2. CASE v > 0
  <2>1. /\ v \in 1 .. v
        /\ \A w \in 1 .. v : v >= w
    BY <1>2 DEF Newest
  <2>2. PICK m \in 1 .. v : m = Max(1 .. v) /\ \A w \in 1 .. v : m >= w
    BY <2>1 DEF Max
  <2>3. Max(1 .. v) = v
    BY <2>1, <2>2 DEF Newest
  <2> QED BY <1>2, <2>1, <2>3 DEF Highest
<1> QED BY <1>1, <1>2 DEF Newest

\* A pass that begins has everything below its first script behind it.
LEMMA PassBehind ==
    ASSUME NoGaps, NEW pc \in {"create_app", "run_migrations"}
    PROVE  Behind(Pass(pc), recorded)
<1>1. PICK v \in 0 .. Newest : recorded = 1 .. v
  BY DEF NoGaps
<1>2. Pass(pc).next = v + 1
  BY <1>1, HighestOfPrefix DEF Pass
<1>3. Pass(pc) = [pc |-> pc, next |-> v + 1, unit |-> 1, fk |-> FALSE]
  BY <1>2 DEF Pass
<1> QED BY <1>1, <1>3 DEF Behind, Place, Newest

LEMMA OffBehind ==
    ASSUME NEW rec
    PROVE  Behind(Off, rec)
BY DEF Behind, Place, Off, Newest

\* Places of other processes stay behind what is recorded as it grows.
LEMMA OneMoves ==
    ASSUME GapInv, NEW p \in Process, NEW r,
           proc' = [proc EXCEPT ![p] = r],
           recorded \subseteq recorded', NoGaps', Behind(r, recorded')
    PROVE  GapInv'
<1>1. DOMAIN proc' = Process
  BY DEF GapInv
<1>2. ASSUME NEW q \in Process PROVE Behind(proc'[q], recorded')
  <2>1. CASE q = p
    BY <2>1 DEF GapInv
  <2>2. CASE q # p
    <3>1. proc'[q] = proc[q] /\ Behind(proc[q], recorded)
      BY <2>2 DEF GapInv
    <3>2. Behind(proc[q], recorded')
      BY <3>1 DEF Behind
    <3> QED BY <3>1, <3>2
  <2> QED BY <2>1, <2>2
<1> QED BY <1>1, <1>2 DEF GapInv

LEMMA GapInit ==
    ASSUME MigrateInit
    PROVE  GapInv
<1>1. from \in 0 .. Newest
  BY MigrationsAssumption DEF MigrateInit, Newest
<1>2. NoGaps
  BY <1>1 DEF MigrateInit, NoGaps
<1> QED BY <1>2, OffBehind DEF MigrateInit, GapInv

LEMMA GapStep == GapInv /\ [MigrateNext]_migrateVars => GapInv'
<1> SUFFICES ASSUME GapInv, [MigrateNext]_migrateVars PROVE GapInv'
  OBVIOUS
<1>1. CASE UNCHANGED migrateVars
  BY <1>1 DEF migrateVars, GapInv, NoGaps
<1>2. ASSUME NEW p \in Process, Start(p) PROVE GapInv'
  <2>1. PICK pc \in {"create_app", "run_migrations"} :
           proc' = [proc EXCEPT ![p] = Pass(pc)]
    BY <1>2 DEF Start
  <2>2. recorded' = recorded /\ NoGaps'
    BY <1>2 DEF Start, GapInv, NoGaps
  <2> QED BY <2>1, <2>2, PassBehind, OneMoves DEF GapInv
<1>3. ASSUME NEW p \in Process, Step(p) PROVE GapInv'
  <2>1. recorded' = recorded /\ NoGaps'
    BY <1>3 DEF Step, GapInv, NoGaps
  <2>2. CASE proc' = [proc EXCEPT ![p] = Off]
    BY <2>1, <2>2, OffBehind, OneMoves
  <2>3. ASSUME NEW fk, proc' = [proc EXCEPT ![p].unit = @ + 1, ![p].fk = fk]
        PROVE  GapInv'
    <3> DEFINE r == [proc[p] EXCEPT !.unit = @ + 1, !.fk = fk]
    <3>1. Behind(proc[p], recorded)
      BY DEF GapInv
    <3>2. proc' = [proc EXCEPT ![p] = r]
      BY <2>3 DEF GapInv
    <3>3. /\ DOMAIN r = DOMAIN proc[p]
          /\ r.pc = proc[p].pc /\ r.next = proc[p].next
      BY <3>1 DEF Behind, Place
    <3>4. Behind(r, recorded')
      BY <2>1, <3>1, <3>3 DEF Behind, Place
    <3> HIDE DEF r
    <3> QED BY <2>1, <3>2, <3>4, OneMoves
  <2> QED BY <1>3, <2>2, <2>3 DEF Step
<1>4. ASSUME NEW p \in Process, Record(p) PROVE GapInv'
  <2>0. Behind(proc[p], recorded) /\ Pending(p)
    BY <1>4 DEF GapInv, Record
  <2>1. CASE proc' = [proc EXCEPT ![p] = Off] /\ recorded' = recorded
    BY <2>1, OffBehind, OneMoves DEF GapInv, NoGaps
  <2>2. CASE /\ proc[p].next \notin recorded
             /\ recorded' = recorded \cup {proc[p].next}
             /\ proc' = [proc EXCEPT ![p].next = @ + 1, ![p].unit = 1]
    <3> DEFINE r == [proc[p] EXCEPT !.next = @ + 1, !.unit = 1]
    <3>1. PICK v \in 0 .. Newest : recorded = 1 .. v
      BY DEF GapInv, NoGaps
    <3>2. /\ proc[p].next \in 1 .. Newest
          /\ 1 .. proc[p].next - 1 \subseteq recorded
          /\ proc[p].pc \in {"create_app", "run_migrations"}
      BY <2>0 DEF Behind, Place, Pending, Migrating, Newest
    <3>3. proc[p].next = v + 1
      <4>1. ~ (proc[p].next <= v)
        BY <2>2, <3>1, <3>2 DEF Newest
      <4>2. ASSUME proc[p].next > v + 1 PROVE FALSE
        <5>1. v + 1 \in 1 .. proc[p].next - 1
          BY <3>2, <4>2 DEF Newest
        <5>2. v + 1 \in 1 .. v
          BY <3>1, <3>2, <5>1
        <5> QED BY <5>2
      <4> QED BY <3>2, <4>1, <4>2 DEF Newest
    <3>4. recorded' = 1 .. v + 1 /\ v + 1 \in 0 .. Newest
      BY <2>2, <3>1, <3>2, <3>3 DEF Newest
    <3>5. NoGaps' /\ recorded \subseteq recorded'
      BY <2>2, <3>4 DEF NoGaps
    <3>6. proc' = [proc EXCEPT ![p] = r]
      BY <2>2 DEF GapInv
    <3>7. /\ DOMAIN r = DOMAIN proc[p]
          /\ r.pc = proc[p].pc /\ r.next = v + 2
      BY <2>0, <3>2, <3>3 DEF Behind, Place
    <3>8. Behind(r, recorded')
      BY <2>0, <3>2, <3>4, <3>7, SMTT(60) DEF Behind, Place, Newest
    <3> HIDE DEF r
    <3> QED BY <3>5, <3>6, <3>8, OneMoves
  <2> QED BY <1>4, <2>1, <2>2 DEF Record
<1>5. ASSUME NEW p \in Process, PassEnds(p) PROVE GapInv'
  <2>1. recorded' = recorded /\ NoGaps'
    BY <1>5 DEF PassEnds, GapInv, NoGaps
  <2>2. CASE proc' = [proc EXCEPT ![p] = Pass("run_migrations")]
    BY <2>1, <2>2, PassBehind, OneMoves DEF GapInv
  <2>3. CASE proc' = [proc EXCEPT ![p] = Off]
    BY <2>1, <2>3, OffBehind, OneMoves
  <2>4. CASE proc' = [proc EXCEPT ![p] = [Off EXCEPT !.pc = "serving"]]
    <3> DEFINE r == [Off EXCEPT !.pc = "serving"]
    <3>1. /\ DOMAIN r = DOMAIN Off
          /\ r.pc = "serving" /\ r.next = Newest + 1
      BY DEF Off
    <3>2. Behind(proc[p], recorded) /\ Migrating(p) /\ ~ Pending(p)
      BY <1>5 DEF GapInv, PassEnds
    <3>3. 1 .. Newest \subseteq recorded
      BY <3>2 DEF Behind, Place, Pending, Migrating, Newest
    <3>4. Behind(Off, recorded)
      BY OffBehind
    <3>5. Behind(r, recorded')
      BY <2>1, <3>1, <3>3, <3>4 DEF Behind, Place, Newest
    <3> HIDE DEF r
    <3>6. proc' = [proc EXCEPT ![p] = r]
      BY <2>4 DEF r
    <3> QED BY <2>1, <3>5, <3>6, OneMoves
  <2> QED BY <1>5, <2>2, <2>3, <2>4 DEF PassEnds
<1>6. ASSUME NEW p \in Process, Stop(p) \/ Crash(p) PROVE GapInv'
  <2>1. /\ proc' = [proc EXCEPT ![p] = Off] /\ recorded' = recorded
        /\ NoGaps'
    BY <1>6 DEF Stop, Crash, GapInv, NoGaps
  <2> QED BY <2>1, OffBehind, OneMoves
<1> QED BY <1>1, <1>2, <1>3, <1>4, <1>5, <1>6 DEF MigrateNext

\* However many processes migrate, crash and start again, no version is left
\* out of what is recorded below another (db/migrations.py, MAX(version)).
THEOREM NeverGaps == MigrateSpec => []NoGaps
<1>1. GapInv => NoGaps
  BY DEF GapInv
<1>2. MigrateInit => GapInv
  BY GapInit
<1> QED BY <1>1, <1>2, GapStep, PTL DEF MigrateSpec

\* A server that serves has recorded every version (app.py, lifespan).
AllRecorded ==
    \A p \in Server : proc[p].pc = "serving" => recorded = 1 .. Newest

\* A server never serves with a version left to apply, whatever crashes and
\* other processes came before: the first half of ServesNewest.
THEOREM ServesRecorded == MigrateSpec => []AllRecorded
<1>1. GapInv => AllRecorded
  <2> SUFFICES ASSUME GapInv, NEW p \in Server, proc[p].pc = "serving"
               PROVE  recorded = 1 .. Newest
    BY DEF AllRecorded
  <2>1. Behind(proc[p], recorded)
    BY DEF GapInv, Process
  <2>2. 1 .. Newest \subseteq recorded
    BY <2>1 DEF Behind, Newest
  <2>3. PICK v \in 0 .. Newest : recorded = 1 .. v
    BY DEF GapInv, NoGaps
  <2> QED BY <2>2, <2>3, SMTT(60) DEF Newest
<1>2. MigrateInit => GapInv
  BY GapInit
<1> QED BY <1>1, <1>2, GapStep, PTL DEF MigrateSpec

-----------------------------------------------------------------------------
(* Units of SQLite: a fold over their statements, which are one or six.    *)

\* What the fold does with the statement at place i, if it is in s.
Does(unit, s, i, c) == IF i \in s THEN Execute(c, unit[i]) ELSE c

LEMMA HighestPlace ==
    ASSUME NEW s \in SUBSET (1 .. 6), NEW m \in s, \A i \in s : i <= m
    PROVE  Max(s) = m
<1>1. PICK k \in s : k = Max(s) /\ \A i \in s : k >= i
  BY DEF Max
<1>. QED BY <1>1

\* The statements up to the sixth, those in s only.
Upto1(unit, s, c) == Does(unit, s, 1, c)
Upto2(unit, s, c) == Does(unit, s, 2, Upto1(unit, s, c))
Upto3(unit, s, c) == Does(unit, s, 3, Upto2(unit, s, c))
Upto4(unit, s, c) == Does(unit, s, 4, Upto3(unit, s, c))
Upto5(unit, s, c) == Does(unit, s, 5, Upto4(unit, s, c))
Upto6(unit, s, c) == Does(unit, s, 6, Upto5(unit, s, c))

LEMMA UptoHighest ==
    ASSUME NEW c, NEW unit, NEW s \in SUBSET (1 .. 6), NEW m \in s, \A i \in s : i <= m
    PROVE  Upto6(unit, s, c) = Execute(Upto6(unit, s \ {m}, c), unit[m])
<1>1. m \in 1 .. 6 /\ s \ {m} \subseteq 1 .. 6
  OBVIOUS
<1>2. \A i \in 1 .. 6 : i # m => (i \in s <=> i \in s \ {m})
  OBVIOUS
<1>3. \A i \in 1 .. 6 : i > m => i \notin s
  BY <1>1
<1>. HIDE DEF Execute
<1>4. CASE m = 1
  BY <1>2, <1>3, <1>4 DEF Does, Upto1, Upto2, Upto3, Upto4, Upto5, Upto6
<1>5. CASE m = 2
  BY <1>2, <1>3, <1>5 DEF Does, Upto1, Upto2, Upto3, Upto4, Upto5, Upto6
<1>6. CASE m = 3
  BY <1>2, <1>3, <1>6 DEF Does, Upto1, Upto2, Upto3, Upto4, Upto5, Upto6
<1>7. CASE m = 4
  BY <1>2, <1>3, <1>7 DEF Does, Upto1, Upto2, Upto3, Upto4, Upto5, Upto6
<1>8. CASE m = 5
  BY <1>2, <1>3, <1>8 DEF Does, Upto1, Upto2, Upto3, Upto4, Upto5, Upto6
<1>9. CASE m = 6
  BY <1>2, <1>3, <1>9 DEF Does, Upto1, Upto2, Upto3, Upto4, Upto5, Upto6
<1>. QED BY <1>1, <1>4, <1>5, <1>6, <1>7, <1>8, <1>9

\* The function that MapThenFoldSet defines by recursion over the subsets of S.
FoldsAs(g, unit, S, c) ==
    /\ g[{}] = c
    /\ \A s \in SUBSET S : \A m \in s :
          (\A i \in s : i <= m) => g[s] = Execute(g[s \ {m}], unit[m])

LEMMA FoldIsUpto ==
    ASSUME NEW c, NEW unit, DOMAIN unit \subseteq 1 .. 6
    PROVE  \E g : Run(c, unit) = g[DOMAIN unit] /\ FoldsAs(g, unit, DOMAIN unit, c)
<1>. DEFINE Iter(g) == g = [s \in SUBSET DOMAIN unit |->
                              IF s = {} THEN c ELSE Execute(g[s \ {Max(s)}], unit[Max(s)])]
            w == [s \in SUBSET DOMAIN unit |-> Upto6(unit, s, c)]
            f == CHOOSE g : Iter(g)
<1>1. Run(c, unit) = f[DOMAIN unit]
  BY DEF Run, FoldLeft, MapThenFoldSet
<1>2. ASSUME NEW s \in SUBSET DOMAIN unit, s # {}
      PROVE  \E m \in s : \A i \in s : i <= m
  <2>1. \A i \in s : i \in 1 .. 6
    OBVIOUS
  <2>2. CASE 6 \in s
    BY <2>1, <2>2
  <2>3. CASE 6 \notin s /\ 5 \in s
    BY <2>1, <2>3
  <2>4. CASE 6 \notin s /\ 5 \notin s /\ 4 \in s
    BY <2>1, <2>4
  <2>5. CASE 6 \notin s /\ 5 \notin s /\ 4 \notin s /\ 3 \in s
    BY <2>1, <2>5
  <2>6. CASE 6 \notin s /\ 5 \notin s /\ 4 \notin s /\ 3 \notin s
    BY <1>2, <2>1, <2>6
  <2>. QED BY <2>2, <2>3, <2>4, <2>5, <2>6
<1>3. Iter(w)
  <2>1. ASSUME NEW s \in SUBSET DOMAIN unit, s # {}
        PROVE  w[s] = Execute(w[s \ {Max(s)}], unit[Max(s)])
    <3>1. PICK m \in s : \A i \in s : i <= m
      BY <1>2, <2>1
    <3>2. Max(s) = m
      BY <3>1, HighestPlace
    <3>. QED BY <3>1, <3>2, UptoHighest
  <2>2. w[{}] = c
    BY DEF Does, Upto1, Upto2, Upto3, Upto4, Upto5, Upto6
  <2>. QED BY <2>1, <2>2
<1>4. Iter(f)
  BY <1>3
<1>5. f[{}] = c
  BY <1>4
<1>6. ASSUME NEW s \in SUBSET DOMAIN unit, NEW m \in s, \A i \in s : i <= m
      PROVE  f[s] = Execute(f[s \ {m}], unit[m])
  <2>1. Max(s) = m
    BY <1>6, HighestPlace
  <2>. HIDE DEF f
  <2>. QED BY <1>4, <2>1
<1>. QED BY <1>1, <1>5, <1>6 DEF FoldsAs

LEMMA RunOfOne ==
    ASSUME NEW c, NEW unit, DOMAIN unit = {1}
    PROVE  Run(c, unit) = Execute(c, unit[1])
<1>1. PICK g : Run(c, unit) = g[{1}] /\ FoldsAs(g, unit, {1}, c)
  BY FoldIsUpto
<1>2. {1} \ {1} = {} /\ \A i \in {1} : i <= 1
  OBVIOUS
<1>3. g[{1}] = Execute(g[{}], unit[1])
  BY <1>1, <1>2 DEF FoldsAs
<1>. QED BY <1>1, <1>3 DEF FoldsAs

LEMMA RunOfSix ==
    ASSUME NEW c, NEW unit, DOMAIN unit = 1 .. 6
    PROVE  Run(c, unit) =
              Execute(Execute(Execute(Execute(Execute(Execute(
                 c, unit[1]), unit[2]), unit[3]), unit[4]), unit[5]), unit[6])
<1>1. PICK g : Run(c, unit) = g[1 .. 6] /\ FoldsAs(g, unit, 1 .. 6, c)
  BY FoldIsUpto
<1>2. ASSUME NEW n \in 1 .. 6 PROVE g[1 .. n] = Execute(g[1 .. n - 1], unit[n])
  <2>1. /\ 1 .. n \in SUBSET (1 .. 6) /\ n \in 1 .. n /\ \A i \in 1 .. n : i <= n
        /\ (1 .. n) \ {n} = 1 .. n - 1
    OBVIOUS
  <2>. QED BY <1>1, <2>1 DEF FoldsAs
<1>3. g[1 .. 0] = c
  BY <1>1, 1 .. 0 = {} DEF FoldsAs
<1>4. /\ g[1 .. 1] = Execute(g[1 .. 0], unit[1]) /\ g[1 .. 2] = Execute(g[1 .. 1], unit[2])
      /\ g[1 .. 3] = Execute(g[1 .. 2], unit[3]) /\ g[1 .. 4] = Execute(g[1 .. 3], unit[4])
      /\ g[1 .. 5] = Execute(g[1 .. 4], unit[5]) /\ g[1 .. 6] = Execute(g[1 .. 5], unit[6])
  BY <1>2
<1>. QED BY <1>1, <1>3, <1>4

-----------------------------------------------------------------------------
(* What the units of the scripts are.                                      *)

\* A unit of one statement that leaves all tables where they are.
Plain(unit) == DOMAIN unit = {1} /\ unit[1].op \in {"add", "update", "on", "off"}
\* One that leaves foreign keys as they are, too.
Steady(unit) == DOMAIN unit = {1} /\ unit[1].op \in {"add", "update"}

LEMMA OneStatement ==
    ASSUME NEW op, NEW t, NEW needs, NEW adds
    PROVE  LET unit == Statement(op, t, needs, adds)
           IN  /\ DOMAIN unit = {1} /\ Len(unit) = 1
               /\ unit[1].op = op /\ unit[1].table = t
               /\ unit[1].needs = needs /\ unit[1].adds = adds
BY 1 .. 1 = {1} DEF Statement

LEMMA PlainStatement ==
    ASSUME NEW op, NEW t, NEW needs, NEW adds
    PROVE  LET unit == Statement(op, t, needs, adds)
           IN  /\ op \in {"add", "update", "on", "off"} => Plain(unit)
               /\ op \in {"add", "update"} => Steady(unit)
BY OneStatement DEF Plain, Steady

LEMMA PlainStatements ==
    /\ \A t, cs : Steady(CreateTable(t, cs))
    /\ \A t, c : Steady(AddColumn(t, c))
    /\ \A t, i, cs : Steady(CreateIndex(t, i, cs))
    /\ \A t, cs : Steady(Update(t, cs))
    /\ Plain(ForeignKeys("off")) /\ Plain(ForeignKeys("on"))
<1>. USE PlainStatement
<1>1. ASSUME NEW t, NEW cs PROVE Steady(CreateTable(t, cs))
  BY DEF CreateTable
<1>2. ASSUME NEW t, NEW c PROVE Steady(AddColumn(t, c))
  BY DEF AddColumn
<1>3. ASSUME NEW t, NEW i, NEW cs PROVE Steady(CreateIndex(t, i, cs))
  BY DEF CreateIndex
<1>4. ASSUME NEW t, NEW cs PROVE Steady(Update(t, cs))
  BY DEF Update
<1>5. Plain(ForeignKeys("off")) /\ Plain(ForeignKeys("on"))
  BY DEF ForeignKeys
<1>. QED BY <1>1, <1>2, <1>3, <1>4, <1>5

\* The scripts of which every unit leaves foreign keys as they are.
LEMMA PlainScripts ==
    ASSUME NEW v \in (1 .. 14) \ {9, 11, 14}, NEW u \in 1 .. Len(MigrationFiles[v])
    PROVE  Steady(MigrationFiles[v][u])
<1>. HIDE DEF Steady
<1>1. CASE v = 1
  BY <1>1, PlainStatements DEF MigrationFiles, v001_init
<1>2. CASE v = 2
  BY <1>2, PlainStatements DEF MigrationFiles, v002_scripts_v2
<1>3. CASE v = 3
  BY <1>3, PlainStatements DEF MigrationFiles, v003_schedules
<1>4. CASE v = 4
  BY <1>4, PlainStatements DEF MigrationFiles, v004_runs
<1>5. CASE v = 5
  BY <1>5, PlainStatements DEF MigrationFiles, v005_logs_v5
<1>6. CASE v = 6
  BY <1>6, PlainStatements DEF MigrationFiles, v006_retry
<1>7. CASE v = 7
  BY <1>7, PlainStatements DEF MigrationFiles, v007_from_v1
<1>8. CASE v = 8
  BY <1>8, PlainStatements DEF MigrationFiles, v008_indexes
<1>10. CASE v = 10
  BY <1>10, PlainStatements DEF MigrationFiles, v010_user_id_isolation
<1>12. CASE v = 12
  BY <1>12, PlainStatements DEF MigrationFiles, v012_runs_timestamps
<1>13. CASE v = 13
  BY <1>13, PlainStatements DEF MigrationFiles, v013_entrypoint
<1>. QED BY <1>1, <1>2, <1>3, <1>4, <1>5, <1>6, <1>7, <1>8, <1>10, <1>12, <1>13

\* What stands between BEGIN and COMMIT is put together one statement after another.
LEMMA OneMore ==
    ASSUME NEW S, NEW a \in Seq(S), NEW b \in Seq(S), NEW s \in Seq(S), Len(b) = 1,
           Len(s) = Len(a) + 1, s[Len(a)+1] = b[1], \A i \in 1 .. Len(a) : s[i] = a[i]
    PROVE  a \o b = s
<1>0. Len(a) \in Nat
  OBVIOUS
<1>3. /\ a \o b \in Seq(S)
      /\ Len(a \o b) = Len(a) + Len(b)
      /\ \A i \in 1 .. Len(a) + Len(b) :
            (a \o b)[i] = IF i <= Len(a) THEN a[i] ELSE b[i - Len(a)]
  BY ConcatProperties
<1>4. \A i \in 1 .. Len(s) : s[i] = (a \o b)[i]
  <2> SUFFICES ASSUME NEW i \in 1 .. Len(s) PROVE s[i] = (a \o b)[i]
    OBVIOUS
  <2>1. CASE i <= Len(a)
    BY <1>0, <1>3, <2>1
  <2>2. CASE i = Len(a) + 1
    BY <1>0, <1>3, <2>2
  <2>3. i <= Len(a) \/ i = Len(a) + 1
    BY <1>0
  <2> QED BY <2>1, <2>2, <2>3
<1>. QED BY <1>3, <1>4, SeqEqual

LEMMA Tuple2 ==
    ASSUME NEW x1, NEW y
    PROVE  <<x1>> \o <<y>> = <<x1, y>>
<1>1. PICK S : S = {x1, y}
  OBVIOUS
<1>2. PICK a, b, s : a = <<x1>> /\ b = <<y>> /\ s = <<x1, y>>
  OBVIOUS
<1>3. a \in Seq(S) /\ b \in Seq(S) /\ s \in Seq(S)
  BY <1>1, <1>2
<1>4. Len(a) = 1 /\ Len(b) = 1 /\ Len(s) = 2
  BY <1>2
<1>5. s[Len(a) + 1] = b[1] /\ \A i \in 1 .. Len(a) : s[i] = a[i]
  BY <1>2
<1>6. Len(s) = Len(a) + 1
  BY <1>4
<1>. QED BY <1>2, <1>3, <1>4, <1>5, <1>6, OneMore, ZenonT(60)

LEMMA Tuple3 ==
    ASSUME NEW x1, NEW x2, NEW y
    PROVE  <<x1, x2>> \o <<y>> = <<x1, x2, y>>
<1>1. PICK S : S = {x1, x2, y}
  OBVIOUS
<1>2. PICK a, b, s : a = <<x1, x2>> /\ b = <<y>> /\ s = <<x1, x2, y>>
  OBVIOUS
<1>3. a \in Seq(S) /\ b \in Seq(S) /\ s \in Seq(S)
  BY <1>1, <1>2
<1>4. Len(a) = 2 /\ Len(b) = 1 /\ Len(s) = 3
  BY <1>2
<1>5. s[Len(a) + 1] = b[1] /\ \A i \in 1 .. Len(a) : s[i] = a[i]
  BY <1>2
<1>6. Len(s) = Len(a) + 1
  BY <1>4
<1>. QED BY <1>2, <1>3, <1>4, <1>5, <1>6, OneMore, ZenonT(60)

LEMMA Tuple4 ==
    ASSUME NEW x1, NEW x2, NEW x3, NEW y
    PROVE  <<x1, x2, x3>> \o <<y>> = <<x1, x2, x3, y>>
<1>1. PICK S : S = {x1, x2, x3, y}
  OBVIOUS
<1>2. PICK a, b, s : a = <<x1, x2, x3>> /\ b = <<y>> /\ s = <<x1, x2, x3, y>>
  OBVIOUS
<1>3. a \in Seq(S) /\ b \in Seq(S) /\ s \in Seq(S)
  BY <1>1, <1>2
<1>4. Len(a) = 3 /\ Len(b) = 1 /\ Len(s) = 4
  BY <1>2
<1>5. s[Len(a) + 1] = b[1] /\ \A i \in 1 .. Len(a) : s[i] = a[i]
  BY <1>2
<1>6. Len(s) = Len(a) + 1
  BY <1>4
<1>. QED BY <1>2, <1>3, <1>4, <1>5, <1>6, OneMore, ZenonT(60)

LEMMA Tuple5 ==
    ASSUME NEW x1, NEW x2, NEW x3, NEW x4, NEW y
    PROVE  <<x1, x2, x3, x4>> \o <<y>> = <<x1, x2, x3, x4, y>>
<1>1. PICK S : S = {x1, x2, x3, x4, y}
  OBVIOUS
<1>2. PICK a, b, s : a = <<x1, x2, x3, x4>> /\ b = <<y>> /\ s = <<x1, x2, x3, x4, y>>
  OBVIOUS
<1>3. a \in Seq(S) /\ b \in Seq(S) /\ s \in Seq(S)
  BY <1>1, <1>2
<1>4. Len(a) = 4 /\ Len(b) = 1 /\ Len(s) = 5
  BY <1>2
<1>5. s[Len(a) + 1] = b[1] /\ \A i \in 1 .. Len(a) : s[i] = a[i]
  BY <1>2
<1>6. Len(s) = Len(a) + 1
  BY <1>4
<1>. QED BY <1>2, <1>3, <1>4, <1>5, <1>6, OneMore, ZenonT(60)

LEMMA Tuple6 ==
    ASSUME NEW x1, NEW x2, NEW x3, NEW x4, NEW x5, NEW y
    PROVE  <<x1, x2, x3, x4, x5>> \o <<y>> = <<x1, x2, x3, x4, x5, y>>
<1>1. PICK S : S = {x1, x2, x3, x4, x5, y}
  OBVIOUS
<1>2. PICK a, b, s : a = <<x1, x2, x3, x4, x5>> /\ b = <<y>> /\ s = <<x1, x2, x3, x4, x5, y>>
  OBVIOUS
<1>3. a \in Seq(S) /\ b \in Seq(S) /\ s \in Seq(S)
  BY <1>1, <1>2
<1>4. Len(a) = 5 /\ Len(b) = 1 /\ Len(s) = 6
  BY <1>2
<1>5. s[Len(a) + 1] = b[1] /\ \A i \in 1 .. Len(a) : s[i] = a[i]
  BY <1>2
<1>6. Len(s) = Len(a) + 1
  BY <1>4
<1>. QED BY <1>2, <1>3, <1>4, <1>5, <1>6, OneMore, ZenonT(60)

\* The statements of a transaction, one joined to the next.
Chain(w, x1, x2, x3, x4, x5, x6) ==
    w = <<x1>> \o <<x2>> \o <<x3>> \o <<x4>> \o <<x5>> \o <<x6>>

LEMMA SixStatements ==
    ASSUME NEW w, NEW x1, NEW x2, NEW x3, NEW x4, NEW x5, NEW x6,
           Chain(w, x1, x2, x3, x4, x5, x6)
    PROVE  w = <<x1, x2, x3, x4, x5, x6>>
<1>1. <<x1>> \o <<x2>> = <<x1, x2>>
  BY Tuple2
<1>2. <<x1>> \o <<x2>> \o <<x3>> = <<x1, x2, x3>>
  BY <1>1, Tuple3, Zenon
<1>3. <<x1>> \o <<x2>> \o <<x3>> \o <<x4>> = <<x1, x2, x3, x4>>
  BY <1>2, Tuple4, Zenon
<1>4. <<x1>> \o <<x2>> \o <<x3>> \o <<x4>> \o <<x5>> = <<x1, x2, x3, x4, x5>>
  BY <1>3, Tuple5, Zenon
<1>5. <<x1>> \o <<x2>> \o <<x3>> \o <<x4>> \o <<x5>> \o <<x6>> = <<x1, x2, x3, x4, x5, x6>>
  BY <1>4, Tuple6, ZenonT(60)
<1>. QED BY <1>5, Zenon DEF Chain

\* A transaction that rebuilds the table of scripts: what it does to the rows is
\* done by its statements copy, drop and rename, in this order.
Rebuilds(unit) ==
    /\ DOMAIN unit = 1 .. 6
    /\ \E k \in 2 .. 3 :
          /\ unit[k].op = "copy" /\ unit[k + 1].op = "drop" /\ unit[k + 2].op = "rename"
          /\ \A i \in k .. k + 2 : unit[i].table = "scripts"
          /\ \A i \in (1 .. 6) \ (k .. k + 2) : unit[i].op = "add"

\* What a constructor makes has one statement, of this kind.
Makes(unit, op, t) == \E x : unit = <<x>> /\ x.op = op /\ x.table = t

LEMMA StatementMakes ==
    ASSUME NEW op, NEW t, NEW needs, NEW adds
    PROVE  Makes(Statement(op, t, needs, adds), op, t)
<1>. DEFINE r == [op |-> op, table |-> t, needs |-> needs, adds |-> adds]
<1>1. r.op = op /\ r.table = t
  OBVIOUS
<1>2. Statement(op, t, needs, adds) = <<r>>
  BY DEF Statement
<1>. HIDE DEF r
<1>. QED BY <1>1, <1>2, Zenon DEF Makes

LEMMA ConstructorsMake ==
    /\ \A t, cs : Makes(CreateTable(t, cs), "add", t)
    /\ \A t, i, cs : Makes(CreateIndex(t, i, cs), "add", t)
    /\ \A t, cs : Makes(CopyRows(t, cs), "copy", t)
    /\ \A t : Makes(DropTable(t), "drop", t)
    /\ \A t : Makes(RenameNew(t), "rename", t)
<1>. USE StatementMakes
<1>1. ASSUME NEW t, NEW cs PROVE Makes(CreateTable(t, cs), "add", t)
  BY DEF CreateTable
<1>2. ASSUME NEW t, NEW i, NEW cs PROVE Makes(CreateIndex(t, i, cs), "add", t)
  BY DEF CreateIndex
<1>3. ASSUME NEW t, NEW cs PROVE Makes(CopyRows(t, cs), "copy", t)
  BY DEF CopyRows
<1>4. ASSUME NEW t PROVE Makes(DropTable(t), "drop", t)
  BY DEF DropTable
<1>5. ASSUME NEW t PROVE Makes(RenameNew(t), "rename", t)
  BY DEF RenameNew
<1>. QED BY <1>1, <1>2, <1>3, <1>4, <1>5

\* 009 turns foreign keys off, rebuilds the scripts and turns them on; so does 014.
LEMMA Nine ==
    /\ Len(MigrationFiles[9]) = 3
    /\ MigrationFiles[9][1] = ForeignKeys("off") /\ MigrationFiles[9][3] = ForeignKeys("on")
    /\ Rebuilds(MigrationFiles[9][2])
<1>1. /\ Len(MigrationFiles[9]) = 3
      /\ MigrationFiles[9][1] = ForeignKeys("off") /\ MigrationFiles[9][3] = ForeignKeys("on")
      /\ MigrationFiles[9][2] = CreateTable("scripts_new", {"description"})
                            \o CreateIndex("scripts_new", "scripts_name_new", {})
                            \o CopyRows("scripts", {"description"})
                            \o DropTable("scripts") \o RenameNew("scripts")
                            \o CreateIndex("scripts", "scripts_name", {})
  BY DEF MigrationFiles, v009_no_bash
<1>11. PICK x1 : CreateTable("scripts_new", {"description"}) = <<x1>>
            /\ x1.op = "add" /\ x1.table = "scripts_new"
  <2>1. Makes(CreateTable("scripts_new", {"description"}), "add", "scripts_new")
    BY ConstructorsMake
  <2>. QED BY <2>1, Zenon DEF Makes
<1>12. PICK x2 : CreateIndex("scripts_new", "scripts_name_new", {}) = <<x2>>
            /\ x2.op = "add" /\ x2.table = "scripts_new"
  <2>1. Makes(CreateIndex("scripts_new", "scripts_name_new", {}), "add", "scripts_new")
    BY ConstructorsMake
  <2>. QED BY <2>1, Zenon DEF Makes
<1>13. PICK x3 : CopyRows("scripts", {"description"}) = <<x3>>
            /\ x3.op = "copy" /\ x3.table = "scripts"
  <2>1. Makes(CopyRows("scripts", {"description"}), "copy", "scripts")
    BY ConstructorsMake
  <2>. QED BY <2>1, Zenon DEF Makes
<1>14. PICK x4 : DropTable("scripts") = <<x4>>
            /\ x4.op = "drop" /\ x4.table = "scripts"
  <2>1. Makes(DropTable("scripts"), "drop", "scripts")
    BY ConstructorsMake
  <2>. QED BY <2>1, Zenon DEF Makes
<1>15. PICK x5 : RenameNew("scripts") = <<x5>>
            /\ x5.op = "rename" /\ x5.table = "scripts"
  <2>1. Makes(RenameNew("scripts"), "rename", "scripts")
    BY ConstructorsMake
  <2>. QED BY <2>1, Zenon DEF Makes
<1>16. PICK x6 : CreateIndex("scripts", "scripts_name", {}) = <<x6>>
            /\ x6.op = "add" /\ x6.table = "scripts"
  <2>1. Makes(CreateIndex("scripts", "scripts_name", {}), "add", "scripts")
    BY ConstructorsMake
  <2>. QED BY <2>1, Zenon DEF Makes
<1>2. Chain(MigrationFiles[9][2], x1, x2, x3, x4, x5, x6)
  BY <1>1, <1>11, <1>12, <1>13, <1>14, <1>15, <1>16, Zenon DEF Chain
<1>3. MigrationFiles[9][2] = <<x1, x2, x3, x4, x5, x6>>
  BY <1>2, SixStatements
<1>4. PICK w : w = <<x1, x2, x3, x4, x5, x6>>
  OBVIOUS
<1>5. /\ DOMAIN w = 1 .. 6 /\ w[1] = x1 /\ w[2] = x2 /\ w[3] = x3 /\ w[4] = x4
      /\ w[5] = x5 /\ w[6] = x6
  BY <1>4
<1>6. Rebuilds(w)
  <2>1. /\ 3 \in 2 .. 3 /\ 3 + 1 = 4 /\ 3 + 2 = 5 /\ 3 .. 5 = {3, 4, 5}
        /\ (1 .. 6) \ (3 .. 5) = {1, 2, 6}
    OBVIOUS
  <2>2. /\ w[3].op = "copy" /\ w[4].op = "drop" /\ w[5].op = "rename"
        /\ \A i \in {3, 4, 5} : w[i].table = "scripts"
        /\ \A i \in {1, 2, 6} : w[i].op = "add"
    BY <1>5, <1>11, <1>12, <1>13, <1>14, <1>15, <1>16
  <2>. QED BY <1>5, <2>1, <2>2, Zenon DEF Rebuilds
<1>. QED BY <1>1, <1>3, <1>4, <1>6, Zenon

LEMMA Fourteen ==
    /\ Len(MigrationFiles[14]) = 3
    /\ MigrationFiles[14][1] = ForeignKeys("off") /\ MigrationFiles[14][3] = ForeignKeys("on")
    /\ Rebuilds(MigrationFiles[14][2])
<1>1. /\ Len(MigrationFiles[14]) = 3
      /\ MigrationFiles[14][1] = ForeignKeys("off") /\ MigrationFiles[14][3] = ForeignKeys("on")
      /\ MigrationFiles[14][2] = CreateTable("scripts_new", {"description", "user_id", "entrypoint"})
                             \o CopyRows("scripts", {"description", "user_id", "entrypoint"})
                             \o DropTable("scripts") \o RenameNew("scripts")
                             \o CreateIndex("scripts", "scripts_name", {})
                             \o CreateIndex("scripts", "scripts_user", {"user_id"})
  BY DEF MigrationFiles, v014_bash_language
<1>11. PICK x1 : CreateTable("scripts_new", {"description", "user_id", "entrypoint"}) = <<x1>>
            /\ x1.op = "add" /\ x1.table = "scripts_new"
  <2>1. Makes(CreateTable("scripts_new", {"description", "user_id", "entrypoint"}),
              "add", "scripts_new")
    BY ConstructorsMake
  <2>. QED BY <2>1, Zenon DEF Makes
<1>12. PICK x2 : CopyRows("scripts", {"description", "user_id", "entrypoint"}) = <<x2>>
            /\ x2.op = "copy" /\ x2.table = "scripts"
  <2>1. Makes(CopyRows("scripts", {"description", "user_id", "entrypoint"}), "copy", "scripts")
    BY ConstructorsMake
  <2>. QED BY <2>1, Zenon DEF Makes
<1>13. PICK x3 : DropTable("scripts") = <<x3>>
            /\ x3.op = "drop" /\ x3.table = "scripts"
  <2>1. Makes(DropTable("scripts"), "drop", "scripts")
    BY ConstructorsMake
  <2>. QED BY <2>1, Zenon DEF Makes
<1>14. PICK x4 : RenameNew("scripts") = <<x4>>
            /\ x4.op = "rename" /\ x4.table = "scripts"
  <2>1. Makes(RenameNew("scripts"), "rename", "scripts")
    BY ConstructorsMake
  <2>. QED BY <2>1, Zenon DEF Makes
<1>15. PICK x5 : CreateIndex("scripts", "scripts_name", {}) = <<x5>>
            /\ x5.op = "add" /\ x5.table = "scripts"
  <2>1. Makes(CreateIndex("scripts", "scripts_name", {}), "add", "scripts")
    BY ConstructorsMake
  <2>. QED BY <2>1, Zenon DEF Makes
<1>16. PICK x6 : CreateIndex("scripts", "scripts_user", {"user_id"}) = <<x6>>
            /\ x6.op = "add" /\ x6.table = "scripts"
  <2>1. Makes(CreateIndex("scripts", "scripts_user", {"user_id"}), "add", "scripts")
    BY ConstructorsMake
  <2>. QED BY <2>1, Zenon DEF Makes
<1>2. Chain(MigrationFiles[14][2], x1, x2, x3, x4, x5, x6)
  BY <1>1, <1>11, <1>12, <1>13, <1>14, <1>15, <1>16, Zenon DEF Chain
<1>3. MigrationFiles[14][2] = <<x1, x2, x3, x4, x5, x6>>
  BY <1>2, SixStatements
<1>4. PICK w : w = <<x1, x2, x3, x4, x5, x6>>
  OBVIOUS
<1>5. /\ DOMAIN w = 1 .. 6 /\ w[1] = x1 /\ w[2] = x2 /\ w[3] = x3 /\ w[4] = x4
      /\ w[5] = x5 /\ w[6] = x6
  BY <1>4
<1>6. Rebuilds(w)
  <2>1. /\ 2 \in 2 .. 3 /\ 2 + 1 = 3 /\ 2 + 2 = 4 /\ 2 .. 4 = {2, 3, 4}
        /\ (1 .. 6) \ (2 .. 4) = {1, 5, 6}
    OBVIOUS
  <2>2. /\ w[2].op = "copy" /\ w[3].op = "drop" /\ w[4].op = "rename"
        /\ \A i \in {2, 3, 4} : w[i].table = "scripts"
        /\ \A i \in {1, 5, 6} : w[i].op = "add"
    BY <1>5, <1>11, <1>12, <1>13, <1>14, <1>15, <1>16
  <2>. QED BY <1>5, <2>1, <2>2, Zenon DEF Rebuilds
<1>. QED BY <1>1, <1>3, <1>4, <1>6, Zenon

LEMMA Joined ==
    ASSUME NEW S, NEW a \in Seq(S), NEW b \in Seq(S)
    PROVE  /\ a \o b \in Seq(S) /\ Len(a \o b) = Len(a) + Len(b)
           /\ \A i \in 1 .. Len(a) : (a \o b)[i] = a[i]
           /\ \A i \in 1 .. Len(b) : (a \o b)[Len(a) + i] = b[i]
<1>1. /\ a \o b \in Seq(S)
      /\ Len(a \o b) = Len(a) + Len(b)
      /\ \A i \in 1 .. Len(a) + Len(b) :
            (a \o b)[i] = IF i <= Len(a) THEN a[i] ELSE b[i - Len(a)]
  BY ConcatProperties
<1>2. Len(a) \in Nat /\ Len(b) \in Nat
  OBVIOUS
<1>3. ASSUME NEW i \in 1 .. Len(a) PROVE (a \o b)[i] = a[i]
  BY <1>1, <1>2
<1>4. ASSUME NEW i \in 1 .. Len(b) PROVE (a \o b)[Len(a) + i] = b[i]
  <2>1. Len(a) + i \in 1 .. Len(a) + Len(b) /\ ~(Len(a) + i <= Len(a)) /\ Len(a) + i - Len(a) = i
    BY <1>2
  <2>. QED BY <1>1, <2>1
<1>. QED BY <1>1, <1>3, <1>4

\* The same of a sequence that has a name.
Concat(S, w, a, b) == a \in Seq(S) /\ b \in Seq(S) /\ w = a \o b

LEMMA JoinedAs ==
    ASSUME NEW S, NEW a, NEW b, NEW w, Concat(S, w, a, b)
    PROVE  /\ w \in Seq(S) /\ Len(w) = Len(a) + Len(b)
           /\ \A i \in 1 .. Len(a) : w[i] = a[i]
           /\ \A i \in 1 .. Len(b) : w[Len(a) + i] = b[i]
<1>1. /\ a \o b \in Seq(S) /\ Len(a \o b) = Len(a) + Len(b)
      /\ \A i \in 1 .. Len(a) : (a \o b)[i] = a[i]
      /\ \A i \in 1 .. Len(b) : (a \o b)[Len(a) + i] = b[i]
  BY Joined DEF Concat
<1>2. a \o b = w
  BY Zenon DEF Concat
<1>. QED BY <1>1, <1>2, Zenon

\* 011 begins with eleven columns ...
Widenings == {AddColumn("users", "timezone")}
             \cup {AddColumn("schedules", ScheduleColumns[i]) : i \in 1 .. 6}
             \cup {AddColumn("runs", RunColumns[i]) : i \in 1 .. 4}
Widened == <<AddColumn("users", "timezone")>>
             \o [i \in 1 .. 6 |-> AddColumn("schedules", ScheduleColumns[i])]
             \o [i \in 1 .. 4 |-> AddColumn("runs", RunColumns[i])]

LEMMA ElevenBegins ==
    /\ Widened \in Seq(Widenings) /\ Len(Widened) = 11
    /\ Widened[1] = AddColumn("users", "timezone")
    /\ \A i \in 1 .. 6 : Widened[1 + i] = AddColumn("schedules", ScheduleColumns[i])
    /\ \A i \in 1 .. 4 : Widened[7 + i] = AddColumn("runs", RunColumns[i])
<1>1. PICK a, b, c :
         /\ a = <<AddColumn("users", "timezone")>>
         /\ b = [i \in 1 .. 6 |-> AddColumn("schedules", ScheduleColumns[i])]
         /\ c = [i \in 1 .. 4 |-> AddColumn("runs", RunColumns[i])]
  OBVIOUS
<1>2. /\ a \in Seq(Widenings) /\ Len(a) = 1 /\ a[1] = AddColumn("users", "timezone")
      /\ b \in Seq(Widenings) /\ Len(b) = 6
      /\ c \in Seq(Widenings) /\ Len(c) = 4
  BY <1>1 DEF Widenings
<1>3. PICK ab : Concat(Widenings, ab, a, b)
  BY <1>2 DEF Concat
<1>4. ab \in Seq(Widenings) /\ Len(ab) = Len(a) + Len(b)
  BY <1>3, JoinedAs
<1>5. ab[1] = a[1] /\ \A i \in 1 .. 6 : ab[1 + i] = b[i]
  <2>1. /\ \A i \in 1 .. Len(a) : ab[i] = a[i]
        /\ \A i \in 1 .. Len(b) : ab[Len(a) + i] = b[i]
    BY <1>3, JoinedAs
  <2>. QED BY <1>2, <2>1
<1>6. PICK w : Concat(Widenings, w, ab, c)
  BY <1>2, <1>4 DEF Concat
<1>7. w \in Seq(Widenings) /\ Len(w) = Len(ab) + Len(c)
  BY <1>6, JoinedAs
<1>8. w = Widened
  <2>1. ab = a \o b /\ w = ab \o c
    BY <1>3, <1>6, Zenon DEF Concat
  <2>. QED BY <1>1, <2>1, Zenon DEF Widened
<1>9. /\ w[1] = a[1] /\ \A i \in 1 .. 6 : w[1 + i] = b[i]
      /\ \A i \in 1 .. 4 : w[7 + i] = c[i]
  <2>1. /\ \A i \in 1 .. Len(ab) : w[i] = ab[i]
        /\ \A i \in 1 .. Len(c) : w[Len(ab) + i] = c[i]
    BY <1>6, JoinedAs
  <2>2. Len(ab) = 7
    BY <1>2, <1>4
  <2>. QED BY <1>2, <1>5, <2>1, <2>2
<1>10. Len(w) = 11
  BY <1>2, <1>4, <1>7
<1>11. /\ \A i \in 1 .. 6 : b[i] = AddColumn("schedules", ScheduleColumns[i])
       /\ \A i \in 1 .. 4 : c[i] = AddColumn("runs", RunColumns[i])
  BY <1>1
<1>. QED BY <1>2, <1>7, <1>8, <1>9, <1>10, <1>11

\* ... and goes on with the rebuilding of runs, statement by statement.
LEMMA Eleven ==
    /\ Len(MigrationFiles[11]) = 18
    /\ MigrationFiles[11][1] = AddColumn("users", "timezone")
    /\ \A u \in (1 .. 18) \ (13 .. 15) : Steady(MigrationFiles[11][u])
    /\ MigrationFiles[11][13] = CopyRows("runs", {})
    /\ MigrationFiles[11][14] = DropTable("runs")
    /\ MigrationFiles[11][15] = RenameNew("runs")
    /\ \A u \in 1 .. 11 : MigrationFiles[11][u] = Widened[u]
    /\ MigrationFiles[11][12] = CreateTable("runs_new", Range(RunColumns))
    /\ MigrationFiles[11][16] = CreateIndex("runs", "runs_next_attempt", {"next_attempt_at"})
    /\ MigrationFiles[11][17] = CreateIndex("runs", "runs_parent", {"parent_run_id"})
    /\ MigrationFiles[11][18] = CreateIndex("runs", "runs_group", {})
<1>1. PICK d : d = <<CreateTable("runs_new", Range(RunColumns)), CopyRows("runs", {}),
                     DropTable("runs"), RenameNew("runs"),
                     CreateIndex("runs", "runs_next_attempt", {"next_attempt_at"}),
                     CreateIndex("runs", "runs_parent", {"parent_run_id"}),
                     CreateIndex("runs", "runs_group", {})>>
  OBVIOUS
<1>2. MigrationFiles[11] = Widened \o d
  BY <1>1 DEF MigrationFiles, v011_schedules_runs_v2, Widened
<1>3. PICK S : Widenings \subseteq S /\ \A i \in 1 .. 7 : d[i] \in S
  <2>1. \A i \in 1 .. 7 : d[i] \in Widenings \cup {d[j] : j \in 1 .. 7}
    OBVIOUS
  <2>. QED BY <2>1
<1>4. d \in Seq(S) /\ Len(d) = 7
  BY <1>1, <1>3
<1>5. Widened \in Seq(S) /\ Len(Widened) = 11 /\ Widened[1] = AddColumn("users", "timezone")
  BY <1>3, ElevenBegins, SeqMonotonic
<1>6. /\ Len(Widened \o d) = 18
      /\ \A i \in 1 .. 11 : (Widened \o d)[i] = Widened[i]
      /\ \A i \in 1 .. 7 : (Widened \o d)[11 + i] = d[i]
  <2>1. /\ Len(Widened \o d) = Len(Widened) + Len(d)
        /\ \A i \in 1 .. Len(Widened) : (Widened \o d)[i] = Widened[i]
        /\ \A i \in 1 .. Len(d) : (Widened \o d)[Len(Widened) + i] = d[i]
    <3>1. d \in Seq(S) /\ Widened \in Seq(S)
      BY <1>4, <1>5
    <3>. QED BY <3>1, Joined
  <2>2. Len(Widened) + Len(d) = 18
    BY <1>4, <1>5
  <2>. QED BY <1>4, <1>5, <2>1, <2>2, Zenon
<1>7. \A i \in 1 .. 11 : Steady(Widened[i])
  <2>1. \A x \in Widenings : Steady(x)
    BY PlainStatements DEF Widenings
  <2>. QED BY <2>1, ElevenBegins, ElementOfSeq
<1>8. Steady(d[1]) /\ Steady(d[5]) /\ Steady(d[6]) /\ Steady(d[7])
  BY <1>1, PlainStatements
<1>9. /\ MigrationFiles[11][12] = d[1] /\ MigrationFiles[11][13] = d[2] /\ MigrationFiles[11][14] = d[3]
      /\ MigrationFiles[11][15] = d[4] /\ MigrationFiles[11][16] = d[5] /\ MigrationFiles[11][17] = d[6]
      /\ MigrationFiles[11][18] = d[7]
  <2>1. PICK w : w = MigrationFiles[11]
    OBVIOUS
  <2>2. \A i \in 1 .. 7 : w[11 + i] = d[i]
    BY <1>2, <1>6, <2>1, Zenon
  <2>3. /\ w[11 + 1] = d[1] /\ w[11 + 2] = d[2] /\ w[11 + 3] = d[3] /\ w[11 + 4] = d[4]
        /\ w[11 + 5] = d[5] /\ w[11 + 6] = d[6] /\ w[11 + 7] = d[7]
    <3>1. 1 \in 1 .. 7 /\ 2 \in 1 .. 7 /\ 3 \in 1 .. 7 /\ 4 \in 1 .. 7 /\ 5 \in 1 .. 7 /\ 6 \in 1 .. 7
          /\ 7 \in 1 .. 7
      OBVIOUS
    <3>. QED BY <2>2, <3>1, Zenon
  <2>4. /\ w[12] = d[1] /\ w[13] = d[2] /\ w[14] = d[3] /\ w[15] = d[4] /\ w[16] = d[5]
        /\ w[17] = d[6] /\ w[18] = d[7]
    BY <2>3
  <2>. QED BY <2>1, <2>4, Zenon
<1>10. \A u \in (1 .. 18) \ (13 .. 15) : Steady(MigrationFiles[11][u])
  <2>1. \A u \in (1 .. 18) \ (13 .. 15) : u \in 1 .. 11 \/ u \in {12, 16, 17, 18}
    OBVIOUS
  <2>. QED BY <1>2, <1>6, <1>7, <1>8, <1>9, <2>1, ZenonT(60)
<1>11. /\ MigrationFiles[11][13] = CopyRows("runs", {})
       /\ MigrationFiles[11][14] = DropTable("runs")
       /\ MigrationFiles[11][15] = RenameNew("runs")
       /\ MigrationFiles[11][12] = CreateTable("runs_new", Range(RunColumns))
       /\ MigrationFiles[11][16] = CreateIndex("runs", "runs_next_attempt", {"next_attempt_at"})
       /\ MigrationFiles[11][17] = CreateIndex("runs", "runs_parent", {"parent_run_id"})
       /\ MigrationFiles[11][18] = CreateIndex("runs", "runs_group", {})
  BY <1>1, <1>9
<1>12. \A u \in 1 .. 11 : MigrationFiles[11][u] = Widened[u]
  BY <1>2, <1>6, Zenon
<1>13. MigrationFiles[11][1] = AddColumn("users", "timezone") /\ Len(MigrationFiles[11]) = 18
  <2>1. 1 \in 1 .. 11
    OBVIOUS
  <2>. QED BY <1>2, <1>5, <1>6, <2>1, Zenon
<1>. QED BY <1>10, <1>11, <1>12, <1>13

-----------------------------------------------------------------------------
(* What the statements do to a connection.                                 *)

Conn(c) == c = [schema |-> c.schema, rows |-> c.rows, fk |-> c.fk, ok |-> c.ok]

\* A statement that succeeds has done what it does on a connection that was well.
LEMMA Executed ==
    ASSUME NEW c, NEW s, Conn(c), Execute(c, s).ok
    PROVE  c.ok /\ Works(s, c) /\ Execute(c, s) = Effect(s, c)
<1>1. [c EXCEPT !.ok = FALSE].ok = FALSE
  BY DEF Conn
<1>2. CASE c.ok /\ Works(s, c)
  BY <1>2 DEF Execute
<1>3. CASE ~(c.ok /\ Works(s, c))
  <2>1. Execute(c, s) = [c EXCEPT !.ok = FALSE]
    BY <1>3 DEF Execute
  <2>. QED BY <1>1, <2>1
<1>. QED BY <1>2, <1>3

LEMMA Added ==
    ASSUME NEW c, NEW s, Conn(c), s.op = "add", Execute(c, s).ok
    PROVE  LET d == Execute(c, s)
           IN  /\ c.ok /\ Conn(d) /\ d.fk = c.fk /\ d.rows = c.rows
               /\ d.schema = c.schema \cup s.adds
               /\ \A o \in s.adds : o \notin c.schema
<1>1. c.ok /\ Works(s, c) /\ Execute(c, s) = [c EXCEPT !.schema = @ \cup s.adds]
  BY Executed DEF Effect
<1>2. \A o \in s.adds : o \notin c.schema
  BY <1>1 DEF Works, Clashes
<1>. QED BY <1>1, <1>2 DEF Conn

LEMMA Other ==
    ASSUME NEW c, NEW s, Conn(c), s.op \in {"update", "on", "off"}, Execute(c, s).ok
    PROVE  LET d == Execute(c, s)
           IN  /\ c.ok /\ Conn(d) /\ d.rows = c.rows /\ d.schema = c.schema
               /\ s.op = "off" => d.fk = FALSE
               /\ s.op = "update" => d.fk = c.fk
<1>1. c.ok /\ Execute(c, s) = IF s.op = "update" THEN c ELSE [c EXCEPT !.fk = (s.op = "on")]
  BY Executed DEF Effect
<1>. QED BY <1>1 DEF Conn

LEMMA Copied ==
    ASSUME NEW c, NEW s, Conn(c), s.op = "copy", Execute(c, s).ok
    PROVE  LET d == Execute(c, s)
           IN  /\ c.ok /\ Conn(d) /\ d.fk = c.fk /\ d.schema = c.schema
               /\ c.rows \subseteq d.rows
               /\ s.table \in c.rows => New[s.table] \in d.rows
<1>1. c.ok /\ Execute(c, s) = [c EXCEPT !.rows = @ \cup {New[t] : t \in {s.table} \cap @}]
  BY Executed DEF Effect
<1>. QED BY <1>1 DEF Conn

LEMMA Dropped ==
    ASSUME NEW c, NEW s, Conn(c), s.op = "drop", Execute(c, s).ok
    PROVE  LET d == Execute(c, s)
           IN  /\ c.ok /\ Conn(d) /\ d.fk = c.fk
               /\ d.schema = {o \in c.schema : o.on # s.table}
               /\ d.rows = c.rows \ ({s.table} \cup IF c.fk THEN Dependents(s.table) ELSE {})
<1>1. c.ok /\ Execute(c, s) =
         [c EXCEPT !.schema = {o \in @ : o.on # s.table},
                   !.rows = @ \ ({s.table} \cup IF c.fk THEN Dependents(s.table) ELSE {})]
  BY Executed DEF Effect
<1>. HIDE DEF Dependents
<1>. QED BY <1>1 DEF Conn

LEMMA Replaced ==
    ASSUME NEW c, NEW s, Conn(c), s.op = "rename", Execute(c, s).ok
    PROVE  LET d == Execute(c, s)
           IN  /\ c.ok /\ Conn(d) /\ d.fk = c.fk
               /\ d.schema = {[o EXCEPT !.on = Renamed(@, s.table)] : o \in c.schema}
               /\ d.rows = {Renamed(t, s.table) : t \in c.rows}
<1>1. c.ok /\ Execute(c, s) =
         [c EXCEPT !.schema = {[o EXCEPT !.on = Renamed(@, s.table)] : o \in @},
                   !.rows = {Renamed(t, s.table) : t \in @}]
  BY Executed DEF Effect
<1>. QED BY <1>1 DEF Conn

LEMMA Connected ==
    ASSUME NEW sch, NEW rs, NEW fk
    PROVE  LET c == Connection(sch, rs, fk)
           IN  Conn(c) /\ c.schema = sch /\ c.rows = rs /\ c.fk = fk
BY DEF Conn, Connection

\* The first column of 011: while it is there, 011 cannot begin again.
TZ == [kind |-> "column", on |-> "users", name |-> "timezone"]

LEMMA TZAdded == TZ \in AddColumn("users", "timezone")[1].adds
<1>1. AddColumn("users", "timezone")[1].adds = Columns("users", {"timezone"})
  BY OneStatement DEF AddColumn
<1>2. TZ \in Columns("users", {"timezone"})
  BY DEF TZ, Columns
<1>. QED BY <1>1, <1>2

LEMMA TZStays ==
    ASSUME NEW sch, NEW t \in {"scripts", "runs"}, TZ \in sch
    PROVE  /\ TZ \in {o \in sch : o.on # t}
           /\ TZ \in {[o EXCEPT !.on = Renamed(@, t)] : o \in sch}
<1>1. TZ.on = "users" /\ Renamed("users", t) = "users"
  BY DEF TZ, Renamed, New
<1>2. [TZ EXCEPT !.on = Renamed(@, t)] = TZ
  BY <1>1 DEF TZ
<1>. QED BY <1>1, <1>2

-----------------------------------------------------------------------------
(* What the units do to the rows.                                          *)

\* What a unit may not lose, other than the table it rebuilds.
Keeps(c, sch, rs, t) ==
    /\ Conn(c)
    /\ \A x \in rs \ {t, New[t], "logs"} : x \in c.rows
    /\ TZ \in sch => TZ \in c.schema

\* A unit that succeeds on a connection just opened, and what it leaves.
Commits(sch, rs, fk, unit, d) == d = Run(Connection(sch, rs, fk), unit) /\ d.ok

LEMMA PlainRun ==
    ASSUME NEW sch, NEW rs, NEW fk, NEW unit, Plain(unit),
           NEW d, Commits(sch, rs, fk, unit, d)
    PROVE  /\ d.rows = rs /\ sch \subseteq d.schema
           /\ unit[1].op = "off" => d.fk = FALSE
           /\ unit[1].op = "add" => unit[1].adds \subseteq d.schema \ sch
<1>1. PICK c : c = Connection(sch, rs, fk)
  OBVIOUS
<1>2. Conn(c) /\ c.schema = sch /\ c.rows = rs
  BY <1>1, Connected
<1>3. PICK s : s = unit[1]
  OBVIOUS
<1>4. d = Execute(c, s)
  BY <1>1, <1>3, RunOfOne DEF Plain, Commits
<1>5. d.ok
  BY DEF Commits
<1>6. CASE s.op = "add"
  BY <1>2, <1>3, <1>4, <1>5, <1>6, Added
<1>7. CASE s.op \in {"update", "on", "off"}
  <2>1. d.rows = c.rows /\ d.schema = c.schema /\ (s.op = "off" => d.fk = FALSE)
    <3>1. Conn(c) /\ Execute(c, s).ok
      BY <1>2, <1>4, <1>5
    <3>2. Execute(c, s).rows = c.rows /\ Execute(c, s).schema = c.schema
      BY <1>7, <3>1, Other
    <3>3. s.op = "off" => Execute(c, s).fk = FALSE
      BY <1>7, <3>1, Other
    <3>. QED BY <1>4, <3>2, <3>3
  <2>2. s.op # "add"
    BY <1>7
  <2>. QED BY <1>2, <1>3, <2>1, <2>2
<1>. QED BY <1>3, <1>6, <1>7 DEF Plain

LEMMA SteadyRun ==
    ASSUME NEW sch, NEW rs, NEW fk, NEW unit, Steady(unit),
           NEW d, Commits(sch, rs, fk, unit, d)
    PROVE  d.fk = fk
<1>1. PICK c : c = Connection(sch, rs, fk)
  OBVIOUS
<1>2. Conn(c) /\ c.fk = fk
  BY <1>1, Connected
<1>3. PICK s : s = unit[1]
  OBVIOUS
<1>4. Execute(c, s).ok /\ d = Execute(c, s)
  BY <1>1, <1>3, RunOfOne DEF Steady, Commits
<1>5. s.op = "add" \/ s.op = "update"
  BY <1>3 DEF Steady
<1>6. Execute(c, s).fk = c.fk
  <2>1. CASE s.op = "add"
    BY <1>2, <1>4, <2>1, Added
  <2>2. CASE s.op = "update"
    BY <1>2, <1>4, <2>2, Other
  <2>. QED BY <1>5, <2>1, <2>2
<1>. QED BY <1>2, <1>4, <1>6

LEMMA CopyKeeps ==
    ASSUME NEW c, NEW s, NEW sch, NEW rs, NEW t \in {"scripts", "runs"}, Keeps(c, sch, rs, t),
           s.op = "copy", s.table = t, Execute(c, s).ok
    PROVE  LET d == Execute(c, s)
           IN  /\ c.ok /\ d.fk = c.fk /\ Keeps(d, sch, rs, t)
               /\ t \in c.rows \/ New[t] \in c.rows => New[t] \in d.rows
               /\ c.rows \subseteq d.rows
BY Copied DEF Keeps

LEMMA AddKeeps ==
    ASSUME NEW c, NEW s, NEW sch, NEW rs, NEW t, Keeps(c, sch, rs, t),
           s.op = "add", Execute(c, s).ok
    PROVE  LET d == Execute(c, s)
           IN  c.ok /\ d.fk = c.fk /\ d.rows = c.rows /\ Keeps(d, sch, rs, t)
BY Added DEF Keeps

LEMMA DropKeeps ==
    ASSUME NEW c, NEW s, NEW sch, NEW rs, NEW t \in {"scripts", "runs"}, Keeps(c, sch, rs, t),
           s.op = "drop", s.table = t, c.fk = FALSE \/ t = "runs", Execute(c, s).ok
    PROVE  LET d == Execute(c, s)
           IN  /\ c.ok /\ d.fk = c.fk /\ Keeps(d, sch, rs, t)
               /\ New[t] \in c.rows => New[t] \in d.rows
               /\ t = "scripts" => c.rows \ {"scripts"} \subseteq d.rows
<1>1. PICK d : d = Execute(c, s)
  OBVIOUS
<1>2. /\ c.ok /\ Conn(d) /\ d.fk = c.fk /\ d.schema = {o \in c.schema : o.on # t}
      /\ d.rows = c.rows \ ({t} \cup IF c.fk THEN Dependents(t) ELSE {})
  BY <1>1, Dropped DEF Keeps
<1>3. TZ \in sch => TZ \in d.schema
  BY <1>2, TZStays DEF Keeps
<1>4. Dependents("runs") = {"logs"} /\ New["scripts"] = "scripts_new" /\ New["runs"] = "runs_new"
  BY DEF Dependents, New
<1>5. c.rows \ {t, "logs"} \subseteq d.rows /\ (t = "scripts" => c.rows \ {"scripts"} \subseteq d.rows)
  BY <1>2, <1>4
<1>6. \A x \in rs \ {t, New[t], "logs"} : x \in d.rows
  BY <1>5 DEF Keeps
<1>7. New[t] \in c.rows => New[t] \in d.rows
  BY <1>4, <1>5
<1>. QED BY <1>1, <1>2, <1>3, <1>5, <1>6, <1>7 DEF Keeps

LEMMA RenameKeeps ==
    ASSUME NEW c, NEW s, NEW sch, NEW rs, NEW t \in {"scripts", "runs"}, Keeps(c, sch, rs, t),
           s.op = "rename", s.table = t, Execute(c, s).ok
    PROVE  LET d == Execute(c, s)
           IN  /\ c.ok /\ d.fk = c.fk /\ Keeps(d, sch, rs, t)
               /\ t \in c.rows \/ New[t] \in c.rows => t \in d.rows
               /\ c.rows \ {New[t]} \subseteq d.rows
<1>1. PICK d : d = Execute(c, s)
  OBVIOUS
<1>2. /\ c.ok /\ Conn(d) /\ d.fk = c.fk
      /\ d.schema = {[o EXCEPT !.on = Renamed(@, t)] : o \in c.schema}
      /\ d.rows = {Renamed(x, t) : x \in c.rows}
  BY <1>1, Replaced DEF Keeps
<1>3. TZ \in sch => TZ \in d.schema
  BY <1>2, TZStays DEF Keeps
<1>4. ASSUME NEW x \in c.rows, x # New[t] PROVE x \in d.rows
  BY <1>2, <1>4 DEF Renamed
<1>5. New[t] \in c.rows => t \in d.rows
  BY <1>2 DEF Renamed
<1>6. t # New[t]
  BY DEF New
<1>7. \A x \in rs \ {t, New[t], "logs"} : x \in d.rows
  BY <1>4 DEF Keeps
<1>. QED BY <1>1, <1>2, <1>3, <1>4, <1>5, <1>6, <1>7 DEF Keeps

LEMMA ConnStays ==
    ASSUME NEW c, NEW s, Conn(c)
    PROVE  Conn(Execute(c, s))
<1>. HIDE DEF Works, Dependents
<1>1. Conn([c EXCEPT !.ok = FALSE])
  <2>1. ASSUME NEW v PROVE Conn([c EXCEPT !.ok = v])
    BY DEF Conn
  <2>. QED BY <2>1
<1>2. Conn(Effect(s, c))
  <2>1. CASE s.op = "add"
    BY <2>1 DEF Effect, Conn
  <2>2. CASE s.op = "copy"
    BY <2>2 DEF Effect, Conn
  <2>3. CASE s.op = "drop"
    BY <2>3 DEF Effect, Conn
  <2>4. CASE s.op = "rename"
    BY <2>4 DEF Effect, Conn
  <2>5. CASE s.op \in {"on", "off"}
    BY <2>5 DEF Effect, Conn
  <2>6. CASE s.op \notin {"add", "copy", "drop", "rename", "on", "off"}
    BY <2>6 DEF Effect
  <2>. QED BY <2>1, <2>2, <2>3, <2>4, <2>5, <2>6
<1>. QED BY <1>1, <1>2 DEF Execute

\* 009 and 014, with foreign keys off: the scripts are back in their table, and no
\* other table has lost a row.
LEMMA RebuildRun ==
    ASSUME NEW sch, NEW rs, NEW unit, Rebuilds(unit),
           NEW d, Commits(sch, rs, FALSE, unit, d)
    PROVE  /\ Keeps(d, sch, rs, "scripts")
           /\ "scripts" \in rs => "scripts" \in d.rows
<1>1. PICK c0, c1, c2, c3, c4, c5, c6 :
         /\ c0 = Connection(sch, rs, FALSE)
         /\ c1 = Execute(c0, unit[1]) /\ c2 = Execute(c1, unit[2])
         /\ c3 = Execute(c2, unit[3]) /\ c4 = Execute(c3, unit[4])
         /\ c5 = Execute(c4, unit[5]) /\ c6 = Execute(c5, unit[6])
  OBVIOUS
<1>2. d = c6 /\ c6.ok
  BY <1>1, RunOfSix DEF Rebuilds, Commits
<1>3. Keeps(c0, sch, rs, "scripts") /\ c0.rows = rs /\ c0.fk = FALSE
  <2>1. Conn(c0) /\ c0.schema = sch /\ c0.rows = rs /\ c0.fk = FALSE
    BY <1>1 DEF Connection, Conn
  <2>. QED BY <2>1 DEF Keeps
<1>4. c0.ok /\ c1.ok /\ c2.ok /\ c3.ok /\ c4.ok /\ c5.ok /\ c6.ok
  <2>1. Conn(c0) /\ Conn(c1) /\ Conn(c2) /\ Conn(c3) /\ Conn(c4) /\ Conn(c5)
    <3>1. Conn(c0)
      BY <1>3 DEF Keeps
    <3>. QED BY <1>1, <3>1, ConnStays
  <2>2. c6.ok
    BY <1>2
  <2>3. ASSUME NEW c, NEW s, NEW e, e = Execute(c, s), e.ok, Conn(c) PROVE c.ok
    BY <2>3, Executed
  <2>4. c5.ok /\ c4.ok
    BY <1>1, <2>1, <2>2, <2>3
  <2>5. c3.ok /\ c2.ok
    BY <1>1, <2>1, <2>3, <2>4
  <2>6. c1.ok /\ c0.ok
    BY <1>1, <2>1, <2>3, <2>5
  <2>. QED BY <2>2, <2>4, <2>5, <2>6
<1>. DEFINE In(c) == "scripts" \in rs => "scripts" \in c.rows
            Aside(c) == "scripts" \in rs => New["scripts"] \in c.rows
            Succeeds(c, u, e) == e = Execute(c, u) /\ e.ok
            Fine(c) == Keeps(c, sch, rs, "scripts") /\ c.fk = FALSE
<1>5. ASSUME NEW c, NEW s, NEW e, Succeeds(c, s, e), s.op = "add", Fine(c)
      PROVE  Fine(e) /\ (In(c) => In(e))
  BY <1>5, AddKeeps
<1>6. ASSUME NEW c, NEW s, NEW e, Succeeds(c, s, e), s.op = "copy", s.table = "scripts",
             Fine(c), In(c)
      PROVE  Fine(e) /\ Aside(e)
  BY <1>6, CopyKeeps
<1>7. ASSUME NEW c, NEW s, NEW e, Succeeds(c, s, e), s.op = "drop", s.table = "scripts",
             Fine(c), Aside(c)
      PROVE  Fine(e) /\ Aside(e)
  BY <1>7, DropKeeps
<1>8. ASSUME NEW c, NEW s, NEW e, Succeeds(c, s, e), s.op = "rename", s.table = "scripts",
             Fine(c), Aside(c)
      PROVE  Fine(e) /\ In(e)
  BY <1>8, RenameKeeps
<1>9. Fine(c0) /\ In(c0)
  BY <1>3
<1>. HIDE DEF In, Aside, Fine
<1>20. /\ Succeeds(c0, unit[1], c1) /\ Succeeds(c1, unit[2], c2) /\ Succeeds(c2, unit[3], c3)
       /\ Succeeds(c3, unit[4], c4) /\ Succeeds(c4, unit[5], c5) /\ Succeeds(c5, unit[6], c6)
  BY <1>1, <1>4
<1>. HIDE DEF Succeeds
<1>10. PICK k \in 2 .. 3 :
          /\ unit[k].op = "copy" /\ unit[k + 1].op = "drop" /\ unit[k + 2].op = "rename"
          /\ \A i \in k .. k + 2 : unit[i].table = "scripts"
          /\ \A i \in (1 .. 6) \ (k .. k + 2) : unit[i].op = "add"
  BY Zenon DEF Rebuilds
<1>11. ASSUME k = 2 PROVE Fine(c6) /\ In(c6)
  <2>1. /\ unit[1].op = "add" /\ unit[2].op = "copy" /\ unit[3].op = "drop"
        /\ unit[4].op = "rename" /\ unit[5].op = "add" /\ unit[6].op = "add"
        /\ unit[2].table = "scripts" /\ unit[3].table = "scripts" /\ unit[4].table = "scripts"
    BY <1>10, <1>11
  <2>2. Fine(c1) /\ In(c1)
    BY <1>20, <1>5, <1>9, <2>1
  <2>3. Fine(c2) /\ Aside(c2)
    BY <1>20, <1>6, <2>1, <2>2
  <2>4. Fine(c3) /\ Aside(c3)
    BY <1>20, <1>7, <2>1, <2>3
  <2>5. Fine(c4) /\ In(c4)
    BY <1>20, <1>8, <2>1, <2>4
  <2>6. Fine(c5) /\ In(c5)
    BY <1>20, <1>5, <2>1, <2>5
  <2>. QED BY <1>20, <1>5, <2>1, <2>6
<1>12. ASSUME k = 3 PROVE Fine(c6) /\ In(c6)
  <2>1. /\ unit[1].op = "add" /\ unit[2].op = "add" /\ unit[3].op = "copy"
        /\ unit[4].op = "drop" /\ unit[5].op = "rename" /\ unit[6].op = "add"
        /\ unit[3].table = "scripts" /\ unit[4].table = "scripts" /\ unit[5].table = "scripts"
    BY <1>10, <1>12
  <2>2. Fine(c1) /\ In(c1)
    BY <1>20, <1>5, <1>9, <2>1
  <2>3. Fine(c2) /\ In(c2)
    BY <1>20, <1>5, <2>1, <2>2
  <2>4. Fine(c3) /\ Aside(c3)
    BY <1>20, <1>6, <2>1, <2>3
  <2>5. Fine(c4) /\ Aside(c4)
    BY <1>20, <1>7, <2>1, <2>4
  <2>6. Fine(c5) /\ In(c5)
    BY <1>20, <1>8, <2>1, <2>5
  <2>. QED BY <1>20, <1>5, <2>1, <2>6
<1>13. Fine(c6) /\ In(c6)
  <2>1. k = 2 \/ k = 3
    BY <1>10
  <2>. QED BY <1>11, <1>12, <2>1
<1>. QED BY <1>2, <1>13 DEF Fine, In

-----------------------------------------------------------------------------
(* No rows are lost: two processes never rebuild runs at once, since the   *)
(* one that comes second fails to add the column 011 begins with, and      *)
(* 009 and 014 drop scripts with foreign keys off.                         *)

InEleven(r) == r.next = 11 /\ r.unit > 1

\* The rows the database was found with, those of the logs left aside.
Safe(had, rs) ==
    /\ \A t \in had \ {"logs", "runs"} : t \in rs
    /\ "runs" \in had => "runs" \in rs \/ "runs_new" \in rs

\* A process that is to drop a table has made the copy, or has foreign keys off.
Fits(r, sch, rs, had) ==
    /\ r.unit \in Nat \ {0}
    /\ r.next \in {9, 14} /\ r.unit = 2 => r.fk = FALSE
    /\ InEleven(r) => TZ \in sch
    /\ r.next = 11 /\ r.unit = 14 /\ "runs" \in had => "runs_new" \in rs

Had == RowsAt(from)

RowsInv ==
    /\ GapInv
    /\ \A p \in Process : Fits(proc[p], schema, rows, Had)
    /\ \A p, q \in Process : InEleven(proc[p]) /\ InEleven(proc[q]) => p = q
    /\ Safe(Had, rows)

\* What a unit does to the rows, to the mark of 011 and to foreign keys.
Unit(n, k, sch, rs, fk, had, c) ==
    /\ Safe(had, c.rows)
    /\ "orphans" \in rs => "orphans" \in c.rows
    /\ n \in {9, 14} \/ c.fk = fk
    /\ TZ \in sch => TZ \in c.schema
    /\ n \in {9, 14} /\ k = 1 => c.fk = FALSE
    /\ n = 11 /\ k = 1 => TZ \in c.schema \ sch
    /\ n = 11 /\ k = 13 /\ "runs" \in had => "runs_new" \in c.rows
    /\ n # 11 /\ "runs_new" \in rs => "runs_new" \in c.rows

LEMMA PlainUnit ==
    ASSUME NEW n, NEW k, NEW sch, NEW rs, NEW fk, NEW had, NEW unit, Plain(unit), Safe(had, rs),
           n \in {9, 14} /\ k = 1 => unit[1].op = "off", n \in {9, 14} \/ Steady(unit),
           n = 11 /\ k = 1 => unit = AddColumn("users", "timezone"),
           ~(n = 11 /\ k = 13), NEW d, Commits(sch, rs, fk, unit, d)
    PROVE  Unit(n, k, sch, rs, fk, had, d)
<1>2. /\ d.rows = rs /\ sch \subseteq d.schema
      /\ unit[1].op = "off" => d.fk = FALSE
      /\ unit[1].op = "add" => unit[1].adds \subseteq d.schema \ sch
  BY PlainRun
<1>4. n \in {9, 14} \/ d.fk = fk
  BY SteadyRun
<1>3. ASSUME n = 11, k = 1 PROVE TZ \in d.schema \ sch
  <2>1. unit[1].op = "add"
    BY <1>3, OneStatement DEF AddColumn
  <2>2. TZ \in unit[1].adds
    BY <1>3, TZAdded
  <2>. QED BY <1>2, <2>1, <2>2
<1>. QED BY <1>2, <1>3, <1>4 DEF Unit

LEMMA RebuildUnit ==
    ASSUME NEW n \in {9, 14}, NEW sch, NEW rs, NEW unit, Rebuilds(unit),
           NEW had \in SUBSET {"scripts", "schedules", "runs", "logs"}, Safe(had, rs),
           NEW d, Commits(sch, rs, FALSE, unit, d)
    PROVE  Unit(n, 2, sch, rs, FALSE, had, d)
<1>2. Keeps(d, sch, rs, "scripts") /\ ("scripts" \in rs => "scripts" \in d.rows)
  BY RebuildRun
<1>3. /\ \A x \in rs \ {"scripts", "scripts_new", "logs"} : x \in d.rows
      /\ TZ \in sch => TZ \in d.schema
  BY <1>2 DEF Keeps, New
<1>4. Safe(had, d.rows)
  BY <1>2, <1>3 DEF Safe
<1>5. "runs_new" \in rs => "runs_new" \in d.rows
  BY <1>3
<1>. QED BY <1>3, <1>4, <1>5 DEF Unit

LEMMA RunsUnit ==
    ASSUME NEW k \in 13 .. 15, NEW sch, NEW rs, NEW fk,
           NEW had \in SUBSET {"scripts", "schedules", "runs", "logs"}, Safe(had, rs),
           k = 14 /\ "runs" \in had => "runs_new" \in rs,
           NEW d, Commits(sch, rs, fk, MigrationFiles[11][k], d)
    PROVE  Unit(11, k, sch, rs, fk, had, d)
<1>1. PICK c : c = Connection(sch, rs, fk)
  OBVIOUS
<1>2. Keeps(c, sch, rs, "runs") /\ c.rows = rs /\ c.fk = fk
  <2>1. Conn(c) /\ c.schema = sch /\ c.rows = rs /\ c.fk = fk
    BY <1>1, Connected
  <2>. QED BY <2>1 DEF Keeps
<1>3. PICK s : s = MigrationFiles[11][k][1]
  OBVIOUS
<1>4. /\ DOMAIN MigrationFiles[11][k] = {1} /\ s.table = "runs"
      /\ k = 13 => s.op = "copy"
      /\ k = 14 => s.op = "drop"
      /\ k = 15 => s.op = "rename"
  <2>1. CASE k = 13
    BY <1>3, <2>1, Eleven, OneStatement DEF CopyRows
  <2>2. CASE k = 14
    BY <1>3, <2>2, Eleven, OneStatement DEF DropTable
  <2>3. CASE k = 15
    BY <1>3, <2>3, Eleven, OneStatement DEF RenameNew
  <2>. QED BY <2>1, <2>2, <2>3
<1>5. d = Execute(c, s)
  BY <1>1, <1>3, <1>4, RunOfOne DEF Commits
<1>6. d.ok
  BY DEF Commits
<1>7. /\ Keeps(d, sch, rs, "runs") /\ d.fk = fk
      /\ k = 13 => rs \subseteq d.rows /\ ("runs" \in rs \/ "runs_new" \in rs => "runs_new" \in d.rows)
      /\ k = 14 => ("runs_new" \in rs => "runs_new" \in d.rows)
      /\ k = 15 => ("runs" \in rs \/ "runs_new" \in rs => "runs" \in d.rows)
  <2>1. New["runs"] = "runs_new"
    BY DEF New
  <2>2. CASE k = 13
    BY <1>2, <1>4, <1>5, <1>6, <2>1, <2>2, CopyKeeps
  <2>3. CASE k = 14
    <3>1. Execute(c, s).ok /\ s.op = "drop" /\ s.table = "runs"
      BY <1>4, <1>5, <1>6, <2>3
    <3>2. /\ Keeps(d, sch, rs, "runs") /\ d.fk = fk
          /\ "runs_new" \in rs => "runs_new" \in d.rows
      BY <1>2, <1>5, <2>1, <3>1, DropKeeps
    <3>. QED BY <2>3, <3>2
  <2>4. CASE k = 15
    <3>1. Execute(c, s).ok /\ s.op = "rename" /\ s.table = "runs"
      BY <1>4, <1>5, <1>6, <2>4
    <3>2. /\ Keeps(d, sch, rs, "runs") /\ d.fk = fk
          /\ "runs" \in rs \/ "runs_new" \in rs => "runs" \in d.rows
      BY <1>2, <1>5, <2>1, <3>1, RenameKeeps
    <3>. QED BY <2>4, <3>2
  <2>. QED BY <2>2, <2>3, <2>4
<1>8. /\ \A x \in rs \ {"runs", "runs_new", "logs"} : x \in d.rows
      /\ TZ \in sch => TZ \in d.schema
  BY <1>7 DEF Keeps, New
<1>9. Safe(had, d.rows)
  <2>1. \A t \in had \ {"logs", "runs"} : t \in d.rows
    BY <1>8 DEF Safe
  <2>2. "runs" \in had => "runs" \in d.rows \/ "runs_new" \in d.rows
    <3>1. k = 13 \/ k = 14 \/ k = 15
      OBVIOUS
    <3>. QED BY <1>7, <3>1 DEF Safe
  <2>. QED BY <2>1, <2>2 DEF Safe
<1>10. k = 13 /\ "runs" \in had => "runs_new" \in d.rows
  BY <1>7 DEF Safe
<1>. QED BY <1>7, <1>8, <1>9, <1>10 DEF Unit

\* Every unit of every script (one that rebuilds scripts has foreign keys off).
LEMMA EveryUnit ==
    ASSUME NEW n \in 1 .. 14, NEW k \in Nat \ {0}, k <= Len(MigrationFiles[n]),
           NEW sch, NEW rs, NEW fk,
           NEW had \in SUBSET {"scripts", "schedules", "runs", "logs"}, Safe(had, rs),
           n \in {9, 14} /\ k = 2 => fk = FALSE,
           n = 11 /\ k = 14 /\ "runs" \in had => "runs_new" \in rs,
           NEW d, Commits(sch, rs, fk, MigrationFiles[n][k], d)
    PROVE  Unit(n, k, sch, rs, fk, had, d)
<1>1. CASE n \notin {9, 11, 14}
  <2>1. k \in 1 .. Len(MigrationFiles[n])
    BY <1>1 DEF MigrationFiles
  <2>2. Steady(MigrationFiles[n][k]) /\ Plain(MigrationFiles[n][k])
    BY <1>1, <2>1, PlainScripts DEF Steady, Plain
  <2>. QED BY <1>1, <2>2, PlainUnit
<1>2. CASE n \in {9, 14} /\ k = 2
  BY <1>2, Nine, Fourteen, RebuildUnit
<1>3. CASE n \in {9, 14} /\ k # 2
  <2>1. /\ Len(MigrationFiles[n]) = 3
        /\ MigrationFiles[n][1] = ForeignKeys("off") /\ MigrationFiles[n][3] = ForeignKeys("on")
    BY <1>3, Nine, Fourteen
  <2>2. k = 1 \/ k = 3
    BY <1>3, <2>1
  <2>3. Plain(MigrationFiles[n][k])
    BY <2>1, <2>2, PlainStatements
  <2>4. k = 1 => MigrationFiles[n][k][1].op = "off"
    <3>1. ForeignKeys("off")[1].op = "off"
      BY DEF ForeignKeys, Statement
    <3>. QED BY <2>1, <3>1, Zenon
  <2>. QED BY <1>3, <2>3, <2>4, PlainUnit
<1>4. CASE n = 11 /\ k \in 13 .. 15
  BY <1>4, RunsUnit
<1>5. CASE n = 11 /\ k \notin 13 .. 15
  <2>1. k \in (1 .. 18) \ (13 .. 15)
    BY <1>5, Eleven
  <2>2. /\ Steady(MigrationFiles[n][k]) /\ Plain(MigrationFiles[n][k])
        /\ k = 1 => MigrationFiles[n][k] = AddColumn("users", "timezone")
    BY <1>5, <2>1, Eleven DEF Steady, Plain
  <2>3. k # 13
    BY <1>5
  <2>. QED BY <1>5, <2>2, <2>3, PlainUnit
<1>. QED BY <1>1, <1>2, <1>3, <1>4, <1>5

-----------------------------------------------------------------------------
LEMMA HadIs == Had \in SUBSET {"scripts", "schedules", "runs", "logs"}
BY DEF Had, RowsAt

LEMMA HadStays ==
    ASSUME from' = from
    PROVE  Had' = Had
BY DEF Had, RowsAt

LEMMA OffFits ==
    ASSUME NEW sch, NEW rs, NEW had, NEW pc
    PROVE  /\ Fits(Off, sch, rs, had) /\ ~InEleven(Off)
           /\ Fits([Off EXCEPT !.pc = "serving"], sch, rs, had)
           /\ ~InEleven([Off EXCEPT !.pc = "serving"])
           /\ Fits(Pass(pc), sch, rs, had) /\ ~InEleven(Pass(pc))
BY DEF Fits, InEleven, Off, Pass, Newest

\* The other processes keep their places while one of them moves.
LEMMA OneFits ==
    ASSUME RowsInv, GapInv', from' = from,
           NEW p \in Process, NEW r, proc' = [proc EXCEPT ![p] = r],
           Fits(r, schema', rows', Had), Safe(Had, rows'),
           TZ \in schema => TZ \in schema',
           InEleven(r) \/ "runs_new" \notin rows' =>
              ("runs_new" \in rows => \A q \in Process \ {p} : ~InEleven(proc[q])),
           InEleven(r) => \A q \in Process \ {p} : ~InEleven(proc[q])
    PROVE  RowsInv'
<1>1. Had' = Had
  BY HadStays
<1>2. /\ proc'[p] = r
      /\ \A q \in Process \ {p} : proc'[q] = proc[q]
  BY DEF RowsInv, GapInv
<1>3. ASSUME NEW q \in Process PROVE Fits(proc'[q], schema', rows', Had)
  <2>1. CASE q = p
    BY <1>2, <2>1
  <2>2. CASE q # p
    <3>1. proc'[q] = proc[q] /\ Fits(proc[q], schema, rows, Had)
      BY <1>2, <2>2 DEF RowsInv
    <3>2. proc[q].next = 11 /\ proc[q].unit = 14 => InEleven(proc[q])
      BY DEF InEleven
    <3>3. proc[q].next = 11 /\ proc[q].unit = 14 /\ "runs" \in Had => "runs_new" \in rows'
      BY <2>2, <3>1, <3>2 DEF Fits
    <3>. QED BY <3>1, <3>3 DEF Fits
  <2>. QED BY <2>1, <2>2
<1>4. ASSUME NEW q \in Process, NEW o \in Process, InEleven(proc'[q]), InEleven(proc'[o])
      PROVE  q = o
  BY <1>2, <1>4 DEF RowsInv
<1>5. Safe(Had', rows')
  BY <1>1
<1>. QED BY <1>1, <1>3, <1>4, <1>5 DEF RowsInv

\* The next unit of a script.
LEMMA StepRows ==
    ASSUME RowsInv, GapInv', NEW p \in Process, Step(p)
    PROVE  RowsInv'
<1>1. PICK n, k, fk, d : /\ n = proc[p].next /\ k = proc[p].unit /\ fk = proc[p].fk
                         /\ d = Run(Connection(schema, rows, fk), MigrationFiles[n][k])
  OBVIOUS
<1>2. from' = from
  BY DEF Step
<1>3. /\ Fits(proc[p], schema, rows, Had) /\ Behind(proc[p], recorded) /\ DOMAIN proc = Process
      /\ Safe(Had, rows)
  BY DEF RowsInv, GapInv
<1>4. n \in 1 .. 14 /\ k \in Nat \ {0} /\ k <= Len(MigrationFiles[n])
  BY <1>1, <1>3 DEF Fits, Behind, Place, Step, Pending, Newest
<1>5. CASE /\ d.ok /\ schema' = d.schema /\ rows' = d.rows
           /\ proc' = [proc EXCEPT ![p].unit = @ + 1, ![p].fk = d.fk]
  <2>1. Commits(schema, rows, fk, MigrationFiles[n][k], d)
    BY <1>1, <1>5 DEF Commits
  <2>2. /\ n \in {9, 14} /\ k = 2 => fk = FALSE
        /\ n = 11 /\ k = 14 /\ "runs" \in Had => "runs_new" \in rows
        /\ n = 11 /\ k > 1 => TZ \in schema
    BY <1>1, <1>3 DEF Fits, InEleven
  <2>3. Unit(n, k, schema, rows, fk, Had, d)
    BY <1>3, <1>4, <2>1, <2>2, HadIs, EveryUnit
  <2>4. PICK r : /\ proc' = [proc EXCEPT ![p] = r] /\ r.next = n /\ r.unit = k + 1 /\ r.fk = d.fk
    <3>1. PICK r : r = [proc[p] EXCEPT !.unit = @ + 1, !.fk = d.fk]
      OBVIOUS
    <3>2. proc' = [proc EXCEPT ![p] = r]
      BY <1>3, <1>5, <3>1
    <3>3. r.next = n /\ r.unit = k + 1 /\ r.fk = d.fk
      BY <1>1, <1>3, <3>1 DEF Behind, Place
    <3>. QED BY <3>2, <3>3
  <2>5. Safe(Had, rows') /\ (TZ \in schema => TZ \in schema')
    BY <1>5, <2>3 DEF Unit
  <2>6. Fits(r, schema', rows', Had)
    <3>1. r.next \in {9, 14} /\ r.unit = 2 => r.fk = FALSE
      BY <1>4, <2>3, <2>4 DEF Unit
    <3>2. InEleven(r) => TZ \in schema'
      <4>1. ASSUME InEleven(r) PROVE n = 11 /\ (k = 1 \/ k > 1)
        BY <1>4, <2>4, <4>1 DEF InEleven
      <4>. QED BY <1>5, <2>2, <2>3, <4>1 DEF Unit
    <3>3. r.next = 11 /\ r.unit = 14 /\ "runs" \in Had => "runs_new" \in rows'
      <4>1. r.unit = 14 => k = 13
        BY <1>4, <2>4
      <4>. QED BY <1>5, <2>3, <2>4, <4>1 DEF Unit
    <3>4. r.unit \in Nat \ {0}
      BY <1>4, <2>4
    <3>. QED BY <3>1, <3>2, <3>3, <3>4 DEF Fits
  <2>7. ASSUME n = 11, NEW q \in Process \ {p}, InEleven(proc[q]) PROVE FALSE
    <3>1. TZ \in schema
      BY <2>7 DEF RowsInv, Fits
    <3>2. k > 1
      <4>1. k # 1
        BY <2>3, <2>7, <3>1 DEF Unit
      <4>. QED BY <1>4, <4>1
    <3>3. InEleven(proc[p])
      BY <1>1, <2>7, <3>2 DEF InEleven
    <3>. QED BY <2>7, <3>3 DEF RowsInv
  <2>8. InEleven(r) => \A q \in Process \ {p} : ~InEleven(proc[q])
    BY <2>4, <2>7 DEF InEleven
  <2>9. "runs_new" \notin rows' => ("runs_new" \in rows => \A q \in Process \ {p} : ~InEleven(proc[q]))
    BY <1>5, <2>3, <2>7 DEF Unit
  <2>. QED BY <1>2, <2>4, <2>5, <2>6, <2>8, <2>9, OneFits
<1>6. CASE proc' = [proc EXCEPT ![p] = Off] /\ UNCHANGED <<schema, rows>>
  BY <1>2, <1>3, <1>6, OffFits, OneFits
<1>. QED BY <1>1, <1>5, <1>6 DEF Step

LEMMA RowsStep == RowsInv /\ [MigrateNext]_migrateVars => RowsInv'
<1>. SUFFICES ASSUME RowsInv, [MigrateNext]_migrateVars PROVE RowsInv'
  OBVIOUS
<1>1. GapInv'
  BY GapStep DEF RowsInv
<1>2. CASE UNCHANGED migrateVars
  <2>1. UNCHANGED <<schema, rows, proc, from>>
    BY <1>2 DEF migrateVars
  <2>2. Had' = Had
    BY <2>1, HadStays
  <2>. QED BY <1>1, <2>1, <2>2 DEF RowsInv
<1>3. ASSUME NEW p \in Process, Step(p) PROVE RowsInv'
  BY <1>1, <1>3, StepRows
<1>4. ASSUME NEW p \in Process, UNCHANGED <<schema, rows, from>>, NEW r,
             proc' = [proc EXCEPT ![p] = r], ~InEleven(r), Fits(r, schema, rows, Had)
      PROVE  RowsInv'
  BY <1>1, <1>4, OneFits DEF RowsInv
<1>5. ASSUME NEW p \in Process, Start(p) \/ PassEnds(p) \/ Stop(p) \/ Crash(p)
      PROVE  RowsInv'
  <2>1. UNCHANGED <<schema, rows, from>>
    BY <1>5 DEF Start, PassEnds, Stop, Crash
  <2>2. PICK r : /\ proc' = [proc EXCEPT ![p] = r]
                 /\ r \in {Off, [Off EXCEPT !.pc = "serving"],
                           Pass("create_app"), Pass("run_migrations")}
    BY <1>5 DEF Start, PassEnds, Stop, Crash
  <2>3. ~InEleven(r) /\ Fits(r, schema, rows, Had)
    BY <2>2, OffFits
  <2>. QED BY <1>4, <2>1, <2>2, <2>3
<1>6. ASSUME NEW p \in Process, Record(p) PROVE RowsInv'
  <2>1. UNCHANGED <<schema, rows, from>>
    BY <1>6 DEF Record
  <2>2. CASE proc' = [proc EXCEPT ![p] = Off]
    BY <1>4, <2>1, <2>2, OffFits
  <2>3. CASE proc' = [proc EXCEPT ![p].next = @ + 1, ![p].unit = 1]
    <3>1. PICK r : r = [proc[p] EXCEPT !.next = @ + 1, !.unit = 1]
      OBVIOUS
    <3>2. proc' = [proc EXCEPT ![p] = r]
      BY <2>3, <3>1 DEF RowsInv, GapInv
    <3>3. r.unit = 1
      BY <3>1 DEF RowsInv, GapInv, Behind, Place
    <3>4. ~InEleven(r) /\ Fits(r, schema, rows, Had)
      BY <3>3 DEF InEleven, Fits
    <3>. QED BY <1>4, <2>1, <3>2, <3>4
  <2>. QED BY <1>6, <2>2, <2>3 DEF Record
<1>. QED BY <1>2, <1>3, <1>5, <1>6 DEF MigrateNext

LEMMA RowsInit ==
    ASSUME MigrateInit
    PROVE  RowsInv
<1>1. GapInv
  BY GapInit
<1>2. \A p \in Process : proc[p] = Off
  BY DEF MigrateInit
<1>3. Had \subseteq rows
  BY DEF MigrateInit, Had
<1>. QED BY <1>1, <1>2, <1>3, OffFits DEF RowsInv, Safe

\* However the processes that migrate overlap, crash and start again, the
\* scripts, schedules and runs a database was found with are in their tables or
\* in the ones about to replace them (the scripts 009, 011 and 014 of
\* migrations/).
THEOREM RowsSurvive == MigrateSpec => []RowsKept
<1>1. RowsInv => RowsKept
  <2>1. New["runs"] = "runs_new" /\ "runs" \in DOMAIN New
    BY DEF New
  <2>. QED BY <2>1 DEF RowsInv, Safe, Had, RowsKept
<1>2. MigrateInit => RowsInv
  BY RowsInit
<1>. QED BY <1>1, <1>2, RowsStep, PTL DEF MigrateSpec

-----------------------------------------------------------------------------
(* What the schema is after every unit.  The objects the scripts make are  *)
(* numbered in the order they are made, those of runs_new from 36 on and   *)
(* those of scripts_new, which no unit leaves, from 45 on.  A schema is    *)
(* then a set of numbers, of which a unit adds some and takes some away.   *)

Column(t, c) == [kind |-> "column", on |-> t, name |-> c]

Made == <<
    Table("scripts"), Index("scripts", "scripts_name"),
    Column("scripts", "description"),
    Table("schedules"), Index("schedules", "schedules_script"),
    Table("runs"), Index("runs", "runs_script"), Index("runs", "runs_started"),
    Table("logs"), Index("logs", "logs_run"),
    Column("schedules", "last_error"),
    Table("users"), Table("invites"), Index("invites", "invites_token"),
    Table("script_envs"), Table("script_deps"), Table("audit_log"),
    Index("runs", "runs_script_started"), Index("schedules", "schedules_due"),
    Index("runs", "runs_status"), Index("audit_log", "audit_user_at"),
    Index("scripts", "scripts_name_new"),
    Column("scripts", "user_id"), Index("scripts", "scripts_user"),
    Column("users", "timezone"),
    Column("schedules", "timezone"), Column("schedules", "blackout_dates"),
    Column("schedules", "include_days"), Column("schedules", "overlap_policy"),
    Column("schedules", "queue_max"), Column("schedules", "queue_dropped"),
    Column("runs", "attempt"), Column("runs", "parent_run_id"),
    Column("runs", "next_attempt_at"), Column("runs", "skip_reason"),
    Table("runs_new"),
    Column("runs_new", "attempt"), Column("runs_new", "parent_run_id"),
    Column("runs_new", "next_attempt_at"), Column("runs_new", "skip_reason"),
    Index("runs", "runs_next_attempt"), Index("runs", "runs_parent"),
    Index("runs", "runs_group"),
    Column("scripts", "entrypoint"),
    Table("scripts_new"), Column("scripts_new", "description"),
    Column("scripts_new", "user_id"), Column("scripts_new", "entrypoint"),
    Index("scripts_new", "scripts_name_new") >>

Of(S) == {Made[i] : i \in S}

\* The objects made when the script n has committed its first k units ...
Grown == <<
    <<1, 2>>, <<3>>, <<4, 5>>, <<6, 7, 8>>, <<9, 10>>, <<11>>,
    <<12, 13, 14, 15, 16, 17>>, <<18, 19, 20, 21>>, <<21, 22, 22>>, <<23, 23, 24>>,
    <<25, 26, 27, 28, 29, 30, 31, 32, 33, 34, 35, 40, 40, 40, 40, 41, 42, 43>>,
    <<43>>, <<44, 44, 44, 44>>, <<44, 44, 44>> >>
Before == <<0, 2, 3, 5, 8, 10, 11, 17, 21, 22, 24, 43, 43, 44>>
Latest(n, k) == IF k = 0 THEN Before[n] ELSE Grown[n][k]

\* ... less those that went: with the table of runs, which 011 drops before it
\* gives runs_new its name, and with the table of scripts in 014.
Gone(n, k) ==
    CASE n < 11 \/ (n = 11 /\ k < 14) -> {}
      [] n = 11 /\ k = 14 -> {6, 7, 8, 18, 20} \cup 32 .. 35
      [] n = 14 /\ k >= 2 -> {7, 8, 18, 20, 22} \cup 36 .. 40
      [] OTHER -> {7, 8, 18, 20} \cup 36 .. 40

Stage(n, k) == (1 .. Latest(n, k)) \ Gone(n, k)

\* The number of an object: all an index is known by is its name.
TableNumber == [scripts |-> 1, schedules |-> 4, runs |-> 6, logs |-> 9, users |-> 12,
    invites |-> 13, script_envs |-> 15, script_deps |-> 16, audit_log |-> 17,
    runs_new |-> 36, scripts_new |-> 45]
IndexNumber == [scripts_name |-> 2, schedules_script |-> 5, runs_script |-> 7,
    runs_started |-> 8, logs_run |-> 10, invites_token |-> 14,
    runs_script_started |-> 18, schedules_due |-> 19, runs_status |-> 20,
    audit_user_at |-> 21, scripts_name_new |-> 22, scripts_user |-> 24,
    runs_next_attempt |-> 41, runs_parent |-> 42, runs_group |-> 43]
ColumnNumber == [
    scripts |-> [description |-> 3, user_id |-> 23, entrypoint |-> 44],
    users |-> [timezone |-> 25],
    schedules |-> [last_error |-> 11, timezone |-> 26, blackout_dates |-> 27,
                   include_days |-> 28, overlap_policy |-> 29, queue_max |-> 30,
                   queue_dropped |-> 31],
    runs |-> [attempt |-> 32, parent_run_id |-> 33, next_attempt_at |-> 34,
              skip_reason |-> 35],
    runs_new |-> [attempt |-> 37, parent_run_id |-> 38, next_attempt_at |-> 39,
                  skip_reason |-> 40],
    scripts_new |-> [description |-> 46, user_id |-> 47, entrypoint |-> 48]]

Number(o) ==
    CASE o.kind = "table" -> TableNumber[o.on]
      [] o.kind = "index" -> IndexNumber[o.name]
      [] OTHER            -> ColumnNumber[o.on][o.name]

LEMMA MadeIs ==
    /\ Made[1] = Table("scripts") /\ Made[2] = Index("scripts", "scripts_name")
    /\ Made[3] = Column("scripts", "description") /\ Made[4] = Table("schedules")
    /\ Made[5] = Index("schedules", "schedules_script") /\ Made[6] = Table("runs")
    /\ Made[7] = Index("runs", "runs_script")
    /\ Made[8] = Index("runs", "runs_started") /\ Made[9] = Table("logs")
    /\ Made[10] = Index("logs", "logs_run")
    /\ Made[11] = Column("schedules", "last_error") /\ Made[12] = Table("users")
    /\ Made[13] = Table("invites") /\ Made[14] = Index("invites", "invites_token")
    /\ Made[15] = Table("script_envs") /\ Made[16] = Table("script_deps")
    /\ Made[17] = Table("audit_log")
    /\ Made[18] = Index("runs", "runs_script_started")
    /\ Made[19] = Index("schedules", "schedules_due")
    /\ Made[20] = Index("runs", "runs_status")
    /\ Made[21] = Index("audit_log", "audit_user_at")
    /\ Made[22] = Index("scripts", "scripts_name_new")
    /\ Made[23] = Column("scripts", "user_id")
    /\ Made[24] = Index("scripts", "scripts_user")
    /\ Made[25] = Column("users", "timezone")
    /\ Made[26] = Column("schedules", "timezone")
    /\ Made[27] = Column("schedules", "blackout_dates")
    /\ Made[28] = Column("schedules", "include_days")
    /\ Made[29] = Column("schedules", "overlap_policy")
    /\ Made[30] = Column("schedules", "queue_max")
    /\ Made[31] = Column("schedules", "queue_dropped")
    /\ Made[32] = Column("runs", "attempt")
    /\ Made[33] = Column("runs", "parent_run_id")
    /\ Made[34] = Column("runs", "next_attempt_at")
    /\ Made[35] = Column("runs", "skip_reason") /\ Made[36] = Table("runs_new")
    /\ Made[37] = Column("runs_new", "attempt")
    /\ Made[38] = Column("runs_new", "parent_run_id")
    /\ Made[39] = Column("runs_new", "next_attempt_at")
    /\ Made[40] = Column("runs_new", "skip_reason")
    /\ Made[41] = Index("runs", "runs_next_attempt")
    /\ Made[42] = Index("runs", "runs_parent")
    /\ Made[43] = Index("runs", "runs_group")
    /\ Made[44] = Column("scripts", "entrypoint") /\ Made[45] = Table("scripts_new")
    /\ Made[46] = Column("scripts_new", "description")
    /\ Made[47] = Column("scripts_new", "user_id")
    /\ Made[48] = Column("scripts_new", "entrypoint")
    /\ Made[49] = Index("scripts_new", "scripts_name_new")
<1>1. PICK m : m = Made
  OBVIOUS
<1>. QED BY DEF Made

LEMMA NumberOf ==
    /\ \A t : Number(Table(t)) = TableNumber[t]
    /\ \A t, i : Number(Index(t, i)) = IndexNumber[i]
    /\ \A t, c : Number(Column(t, c)) = ColumnNumber[t][c]
<1>. HIDE DEF TableNumber, IndexNumber, ColumnNumber
<1>1. ASSUME NEW t PROVE Number(Table(t)) = TableNumber[t]
  BY DEF Number, Table
<1>2. ASSUME NEW t, NEW i PROVE Number(Index(t, i)) = IndexNumber[i]
  BY DEF Number, Index
<1>3. ASSUME NEW t, NEW c PROVE Number(Column(t, c)) = ColumnNumber[t][c]
  BY DEF Number, Column
<1>. QED BY <1>1, <1>2, <1>3

LEMMA NumbersClash ==
    ASSUME NEW o, NEW p, Clashes(o, p)
    PROVE  Number(o) = Number(p)
BY DEF Clashes, Number

\* An object's number is its place, but that an index which is renamed with its
\* table is in two places.
Known(i) == IF i = 49 THEN 22 ELSE i

LEMMA Numbered == \A i \in 1 .. 49 : Number(Made[i]) = Known(i)
<1>. HIDE DEF Made, Number, Table, Index, Column
<1>1. ASSUME NEW i \in 1 .. 22 PROVE Number(Made[i]) = Known(i)
  BY <1>1, MadeIs, NumberOf DEF Known, TableNumber, IndexNumber, ColumnNumber
<1>2. ASSUME NEW i \in 23 .. 35 PROVE Number(Made[i]) = Known(i)
  BY <1>2, MadeIs, NumberOf DEF Known, TableNumber, IndexNumber, ColumnNumber
<1>3. ASSUME NEW i \in 36 .. 49 PROVE Number(Made[i]) = Known(i)
  BY <1>3, MadeIs, NumberOf DEF Known, TableNumber, IndexNumber, ColumnNumber
<1>. QED BY <1>1, <1>2, <1>3

\* The objects of the tables that are rebuilt.
OfScripts == {1, 2, 3, 22, 23, 24, 44}
OfRuns == {6, 7, 8, 18, 20, 41, 42, 43} \cup 32 .. 35

On(o) == o.on

LEMMA OnOf ==
    /\ \A t : On(Table(t)) = t
    /\ \A t, i : On(Index(t, i)) = t
    /\ \A t, c : On(Column(t, c)) = t
BY DEF On, Table, Index, Column

LEMMA MadeOn ==
    /\ On(Made[1]) = "scripts" /\ On(Made[2]) = "scripts" /\ On(Made[3]) = "scripts"
    /\ On(Made[4]) = "schedules" /\ On(Made[5]) = "schedules"
    /\ On(Made[6]) = "runs" /\ On(Made[7]) = "runs" /\ On(Made[8]) = "runs"
    /\ On(Made[9]) = "logs" /\ On(Made[10]) = "logs" /\ On(Made[11]) = "schedules"
    /\ On(Made[12]) = "users" /\ On(Made[13]) = "invites"
    /\ On(Made[14]) = "invites" /\ On(Made[15]) = "script_envs"
    /\ On(Made[16]) = "script_deps" /\ On(Made[17]) = "audit_log"
    /\ On(Made[18]) = "runs" /\ On(Made[19]) = "schedules" /\ On(Made[20]) = "runs"
    /\ On(Made[21]) = "audit_log" /\ On(Made[22]) = "scripts"
    /\ On(Made[23]) = "scripts" /\ On(Made[24]) = "scripts"
    /\ On(Made[25]) = "users" /\ On(Made[26]) = "schedules"
    /\ On(Made[27]) = "schedules" /\ On(Made[28]) = "schedules"
    /\ On(Made[29]) = "schedules" /\ On(Made[30]) = "schedules"
    /\ On(Made[31]) = "schedules" /\ On(Made[32]) = "runs" /\ On(Made[33]) = "runs"
    /\ On(Made[34]) = "runs" /\ On(Made[35]) = "runs" /\ On(Made[36]) = "runs_new"
    /\ On(Made[37]) = "runs_new" /\ On(Made[38]) = "runs_new"
    /\ On(Made[39]) = "runs_new" /\ On(Made[40]) = "runs_new"
    /\ On(Made[41]) = "runs" /\ On(Made[42]) = "runs" /\ On(Made[43]) = "runs"
    /\ On(Made[44]) = "scripts" /\ On(Made[45]) = "scripts_new"
    /\ On(Made[46]) = "scripts_new" /\ On(Made[47]) = "scripts_new"
    /\ On(Made[48]) = "scripts_new" /\ On(Made[49]) = "scripts_new"
BY MadeIs, OnOf

LEMMA OnRebuilt ==
    ASSUME NEW i \in 1 .. 49
    PROVE  /\ On(Made[i]) = "scripts" <=> i \in OfScripts
           /\ On(Made[i]) = "runs" <=> i \in OfRuns
           /\ On(Made[i]) = "runs_new" <=> i \in 36 .. 40
           /\ On(Made[i]) = "scripts_new" <=> i \in 45 .. 49
<1>1. CASE i \in 1 .. 22
  BY <1>1, MadeOn DEF OfScripts, OfRuns
<1>2. CASE i \in 23 .. 35
  BY <1>2, MadeOn DEF OfScripts, OfRuns
<1>3. CASE i \in 36 .. 49
  BY <1>3, MadeOn DEF OfScripts, OfRuns
<1>. QED BY <1>1, <1>2, <1>3

\* What the objects of runs_new and scripts_new are when their table is renamed.
Back(i) ==
    CASE i = 36 -> 6
      [] i \in 37 .. 40 -> i - 5
      [] i = 45 -> 1
      [] i = 46 -> 3
      [] i = 47 -> 23
      [] i = 48 -> 44
      [] i = 49 -> 22
      [] OTHER -> i

AllBack(S) == {Back(i) : i \in S}

\* An object whose table is renamed.
Moved(o, t) == [o EXCEPT !.on = Renamed(@, t)]
AllMoved(sch, t) == {Moved(o, t) : o \in sch}
IsObject(o) == o = [kind |-> o.kind, on |-> o.on, name |-> o.name]

LEMMA MovedIs ==
    /\ \A u, t : Moved(Table(u), t) = Table(Renamed(u, t))
    /\ \A u, i, t : Moved(Index(u, i), t) = Index(Renamed(u, t), i)
    /\ \A u, c, t : Moved(Column(u, c), t) = Column(Renamed(u, t), c)
<1>1. ASSUME NEW o, NEW t, IsObject(o)
      PROVE  Moved(o, t) = [kind |-> o.kind, on |-> Renamed(o.on, t), name |-> o.name]
  BY <1>1 DEF Moved, IsObject
<1>2. ASSUME NEW u, NEW t PROVE Moved(Table(u), t) = Table(Renamed(u, t))
  <2>1. PICK o : o = Table(u)
    OBVIOUS
  <2>2. IsObject(o) /\ o.kind = "table" /\ o.on = u /\ o.name = ""
    BY <2>1 DEF Table, IsObject
  <2>3. Moved(o, t) = [kind |-> o.kind, on |-> Renamed(o.on, t), name |-> o.name]
    BY <1>1, <2>2
  <2>. QED BY <2>1, <2>2, <2>3 DEF Table
<1>3. ASSUME NEW u, NEW i, NEW t PROVE Moved(Index(u, i), t) = Index(Renamed(u, t), i)
  <2>1. PICK o : o = Index(u, i)
    OBVIOUS
  <2>2. IsObject(o) /\ o.kind = "index" /\ o.on = u /\ o.name = i
    BY <2>1 DEF Index, IsObject
  <2>3. Moved(o, t) = [kind |-> o.kind, on |-> Renamed(o.on, t), name |-> o.name]
    BY <1>1, <2>2
  <2>. QED BY <2>1, <2>2, <2>3 DEF Index
<1>4. ASSUME NEW u, NEW c, NEW t PROVE Moved(Column(u, c), t) = Column(Renamed(u, t), c)
  <2>1. PICK o : o = Column(u, c)
    OBVIOUS
  <2>2. IsObject(o) /\ o.kind = "column" /\ o.on = u /\ o.name = c
    BY <2>1 DEF Column, IsObject
  <2>3. Moved(o, t) = [kind |-> o.kind, on |-> Renamed(o.on, t), name |-> o.name]
    BY <1>1, <2>2
  <2>. QED BY <2>1, <2>2, <2>3 DEF Column
<1>. QED BY <1>2, <1>3, <1>4

LEMMA Objects == \A i \in 1 .. 49 : IsObject(Made[i])
<1>1. /\ \A t : IsObject(Table(t))
      /\ \A t, i : IsObject(Index(t, i))
      /\ \A t, c : IsObject(Column(t, c))
  BY DEF IsObject, Table, Index, Column
<1>. QED BY <1>1, MadeIs

LEMMA RenamedTo ==
    /\ Renamed("runs_new", "runs") = "runs"
    /\ Renamed("scripts_new", "scripts") = "scripts"
    /\ \A u : u # "runs_new" => Renamed(u, "runs") = u
    /\ \A u : u # "scripts_new" => Renamed(u, "scripts") = u
BY DEF Renamed, New

LEMMA MovedBack ==
    ASSUME NEW i \in 1 .. 49, NEW t \in {"runs", "scripts"},
           t = "runs" => i \notin 45 .. 49, t = "scripts" => i \notin 36 .. 40
    PROVE  Moved(Made[i], t) = Made[Back(i)]
<1>1. CASE i \in 36 .. 40
  BY <1>1, MadeIs, MovedIs, RenamedTo DEF Back
<1>2. CASE i \in 45 .. 49
  BY <1>2, MadeIs, MovedIs, RenamedTo DEF Back
<1>3. CASE i \notin 36 .. 40 /\ i \notin 45 .. 49
  <2>1. Renamed(On(Made[i]), t) = On(Made[i])
    BY <1>3, OnRebuilt, RenamedTo
  <2>2. IsObject(Made[i])
    BY Objects
  <2>3. Moved(Made[i], t) = Made[i]
    <3>1. PICK o : o = Made[i]
      OBVIOUS
    <3>2. Renamed(o.on, t) = o.on
      BY <2>1, <3>1 DEF On
    <3>3. IsObject(o)
      BY <2>2, <3>1
    <3>4. Moved(o, t) = o
      BY <3>2, <3>3 DEF Moved, IsObject
    <3>. QED BY <3>1, <3>4
  <2>4. Back(i) = i
    BY <1>3 DEF Back
  <2>. QED BY <2>3, <2>4
<1>. QED BY <1>1, <1>2, <1>3

-----------------------------------------------------------------------------
(* What the statements do to the schema, in numbers.                       *)

\* A connection that has not failed and sees the objects of S.
Sees(c, S) == Conn(c) /\ c.ok /\ c.schema = Of(S)

Executes(c, s, d) == d = Execute(c, s)

LEMMA NoClash ==
    ASSUME NEW A \in SUBSET (1 .. 49), NEW S \in SUBSET (1 .. 49),
           \A i \in A, j \in S : Known(i) # Known(j)
    PROVE  \A o \in Of(A), p \in Of(S) : ~ Clashes(o, p)
<1>. SUFFICES ASSUME NEW i \in A, NEW j \in S, Clashes(Made[i], Made[j])
              PROVE  FALSE
  BY DEF Of
<1>1. Number(Made[i]) = Number(Made[j])
  BY NumbersClash
<1>2. Number(Made[i]) = Known(i) /\ Number(Made[j]) = Known(j)
  BY Numbered
<1>. QED BY <1>1, <1>2

\* A statement that works has its effect.
LEMMA Worked ==
    ASSUME NEW c, NEW s, NEW d, Executes(c, s, d), c.ok, Works(s, c)
    PROVE  d = Effect(s, c)
BY DEF Executes, Execute

LEMMA EffectOfAdd ==
    ASSUME NEW c, NEW s, s.op = "add"
    PROVE  Effect(s, c) = [c EXCEPT !.schema = @ \cup s.adds]
BY DEF Effect

LEMMA EffectOfDrop ==
    ASSUME NEW c, NEW s, s.op = "drop"
    PROVE  Effect(s, c) = [c EXCEPT !.schema = {o \in @ : o.on # s.table},
                                    !.rows = @ \ ({s.table} \cup
                                       IF c.fk THEN Dependents(s.table) ELSE {})]
BY DEF Effect

Renames(d, c, t) ==
    \E rs : d = [c EXCEPT !.schema = AllMoved(c.schema, t), !.rows = rs]

LEMMA EffectOfRename ==
    ASSUME NEW c, NEW s, s.op = "rename"
    PROVE  Renames(Effect(s, c), c, s.table)
<1>. DEFINE rs == {Renamed(t, s.table) : t \in c.rows}
<1>1. Effect(s, c) =
         [c EXCEPT !.schema = {[o EXCEPT !.on = Renamed(@, s.table)] : o \in @}, !.rows = rs]
  BY DEF Effect
<1>2. {[o EXCEPT !.on = Renamed(@, s.table)] : o \in c.schema} = AllMoved(c.schema, s.table)
  BY DEF Moved, AllMoved
<1>. HIDE DEF rs, AllMoved
<1>. QED BY <1>1, <1>2 DEF Renames

LEMMA AddSees ==
    ASSUME NEW S \in SUBSET (1 .. 49), NEW A \in SUBSET (1 .. 49), NEW N \in SUBSET S,
           NEW c, NEW s, NEW d, Sees(c, S), Executes(c, s, d),
           s.op = "add", s.needs = Of(N), s.adds = Of(A),
           \A i \in A, j \in S : Known(i) # Known(j)
    PROVE  Sees(d, S \cup A) /\ d.fk = c.fk /\ d.rows = c.rows
<1>1. Works(s, c)
  <2>1. Of(N) \subseteq Of(S)
    BY DEF Of
  <2>. QED BY <2>1, NoClash DEF Works, Sees
<1>2. d = [c EXCEPT !.schema = @ \cup s.adds]
  BY <1>1, Worked, EffectOfAdd DEF Sees
<1>3. Of(S) \cup Of(A) = Of(S \cup A)
  BY DEF Of
<1>. QED BY <1>2, <1>3 DEF Sees, Conn

LEMMA OtherSees ==
    ASSUME NEW S \in SUBSET (1 .. 49), NEW N \in SUBSET S,
           NEW c, NEW s, NEW d, Sees(c, S), Executes(c, s, d),
           s.op \in {"update", "on", "off", "copy"}, s.needs = Of(N), s.adds = {},
           s.op = "copy" /\ s.table = "runs" => ~ (c.fk /\ "orphans" \in c.rows)
    PROVE  /\ Sees(d, S)
           /\ s.op \in {"update", "copy"} => d.fk = c.fk
<1>1. Works(s, c)
  <2>1. Of(N) \subseteq Of(S)
    BY DEF Of
  <2>. QED BY <2>1 DEF Works, Sees
<1>2. d = Effect(s, c)
  BY <1>1, Worked DEF Sees
<1>3. CASE s.op = "update"
  BY <1>2, <1>3 DEF Sees, Conn, Effect
<1>4. CASE s.op \in {"on", "off"}
  <2>1. d = [c EXCEPT !.fk = (s.op = "on")]
    BY <1>2, <1>4 DEF Effect
  <2>. QED BY <1>4, <2>1 DEF Sees, Conn
<1>5. CASE s.op = "copy"
  <2>1. d = [c EXCEPT !.rows = @ \cup {New[t] : t \in {s.table} \cap @}]
    BY <1>2, <1>5 DEF Effect
  <2>. QED BY <2>1 DEF Sees, Conn
<1>. QED BY <1>3, <1>4, <1>5

\* The objects of a table.
OfTable(t) == IF t = "scripts" THEN OfScripts ELSE OfRuns

LEMMA DropSees ==
    ASSUME NEW S \in SUBSET (1 .. 49), NEW N \in SUBSET S, NEW t \in {"runs", "scripts"},
           NEW c, NEW s, NEW d, Sees(c, S), Executes(c, s, d),
           s.op = "drop", s.table = t, s.needs = Of(N), s.adds = {},
           NEW T, T = S \ OfTable(t)
    PROVE  Sees(d, T) /\ d.fk = c.fk
<1>1. Works(s, c)
  <2>1. Of(N) \subseteq Of(S)
    BY DEF Of
  <2>. QED BY <2>1 DEF Works, Sees
<1>2. d = [c EXCEPT !.schema = {o \in @ : o.on # s.table},
                    !.rows = @ \ ({s.table} \cup
                                  IF c.fk THEN Dependents(s.table) ELSE {})]
  BY <1>1, Worked, EffectOfDrop DEF Sees
<1>3. {o \in Of(S) : o.on # t} = Of(S \ OfTable(t))
  <2>1. \A i \in S : Made[i].on = t <=> i \in OfTable(t)
    BY OnRebuilt DEF On, OfTable
  <2>. HIDE DEF OfTable
  <2>. QED BY <2>1 DEF Of
<1>. HIDE DEF Dependents
<1>. QED BY <1>2, <1>3 DEF Sees, Conn

LEMMA RenameSees ==
    ASSUME NEW S \in SUBSET (1 .. 49), NEW N \in SUBSET S, NEW A \in SUBSET (1 .. 49),
           NEW t \in {"runs", "scripts"},
           NEW c, NEW s, NEW d, Sees(c, S), Executes(c, s, d),
           s.op = "rename", s.table = t, s.needs = Of(N), s.adds = Of(A),
           \A i \in A, j \in S : Known(i) # Known(j),
           t = "runs" => S \cap 45 .. 49 = {}, t = "scripts" => S \cap 36 .. 40 = {}
    PROVE  Sees(d, AllBack(S)) /\ d.fk = c.fk
<1>1. Works(s, c)
  <2>1. Of(N) \subseteq Of(S)
    BY DEF Of
  <2>. QED BY <2>1, NoClash DEF Works, Sees
<1>2. PICK rs : d = [c EXCEPT !.schema = AllMoved(c.schema, t), !.rows = rs]
  <2>1. d = Effect(s, c)
    BY <1>1, Worked DEF Sees
  <2>2. Renames(d, c, t)
    BY <2>1, EffectOfRename
  <2>. QED BY <2>2 DEF Renames
<1>3. AllMoved(Of(S), t) = Of(AllBack(S))
  <2>1. \A i \in S : Moved(Made[i], t) = Made[Back(i)]
    BY MovedBack
  <2>. HIDE DEF Back, Moved
  <2>2. ASSUME NEW o \in Of(S) PROVE Moved(o, t) \in Of(AllBack(S))
    <3>1. PICK i \in S : o = Made[i]
      BY DEF Of
    <3>. QED BY <2>1, <3>1 DEF Of, AllBack
  <2>3. ASSUME NEW p \in Of(AllBack(S)) PROVE \E o \in Of(S) : p = Moved(o, t)
    <3>0. PICK j \in AllBack(S) : p = Made[j]
      BY DEF Of
    <3>1. PICK i \in S : p = Made[Back(i)]
      BY <3>0 DEF AllBack
    <3>2. Made[i] \in Of(S) /\ p = Moved(Made[i], t)
      BY <2>1, <3>1 DEF Of
    <3>. QED BY <3>2
  <2>. QED BY <2>2, <2>3 DEF AllMoved
<1>. HIDE DEF AllMoved, AllBack
<1>. QED BY <1>2, <1>3 DEF Sees, Conn

\* A statement that needs the objects of N and adds those of A, and a unit of one.
Is(x, op, t, N, A) ==
    x.op = op /\ x.table = t /\ x.needs = Of(N) /\ x.adds = Of(A)

\* What it makes of the objects of S, ...
After(op, t, A, S) ==
    CASE op = "add" -> S \cup A
      [] op = "drop" -> S \ OfTable(t)
      [] op = "rename" -> AllBack(S)
      [] OTHER -> S

\* ... when they are such that it works.
Ready(op, t, N, A, S) ==
    /\ S \subseteq 1 .. 49 /\ A \subseteq 1 .. 49 /\ N \subseteq S
    /\ op \in {"add", "update", "on", "off", "copy", "drop", "rename"}
    /\ op \notin {"add", "rename"} => A = {}
    /\ \A i \in A, j \in S : Known(i) # Known(j)
    /\ op \in {"drop", "rename"} => t \in {"runs", "scripts"}
    /\ op = "rename" /\ t = "runs" => S \cap 45 .. 49 = {}
    /\ op = "rename" /\ t = "scripts" => S \cap 36 .. 40 = {}

LEMMA StatementSees ==
    ASSUME NEW op, NEW t, NEW N, NEW A, NEW S, Ready(op, t, N, A, S),
           NEW c, NEW s, NEW d, Is(s, op, t, N, A), Sees(c, S), Executes(c, s, d),
           op = "copy" /\ t = "runs" => ~ (c.fk /\ "orphans" \in c.rows)
    PROVE  Sees(d, After(op, t, A, S)) /\ (op \notin {"on", "off"} => d.fk = c.fk)
<1>1. /\ S \in SUBSET (1 .. 49) /\ A \in SUBSET (1 .. 49) /\ N \in SUBSET S
      /\ \A i \in A, j \in S : Known(i) # Known(j)
      /\ s.op = op /\ s.table = t /\ s.needs = Of(N) /\ s.adds = Of(A)
  BY DEF Ready, Is
<1>2. CASE op = "add"
  BY <1>1, <1>2, AddSees DEF After
<1>3. CASE op \in {"update", "on", "off", "copy"}
  <2>1. s.adds = {}
    BY <1>1, <1>3 DEF Ready, Of
  <2>2. Sees(d, S) /\ (s.op \in {"update", "copy"} => d.fk = c.fk)
    BY <1>1, <1>3, <2>1, OtherSees
  <2>. QED BY <1>1, <1>3, <2>2 DEF After
<1>4. CASE op = "drop"
  <2>1. s.adds = {} /\ t \in {"runs", "scripts"}
    BY <1>1, <1>4 DEF Ready, Of
  <2>2. s.op = "drop" /\ s.table = t /\ s.needs = Of(N)
    BY <1>1, <1>4
  <2>3. PICK T : T = S \ OfTable(t)
    OBVIOUS
  <2>4. Sees(d, T) /\ d.fk = c.fk
    BY <1>1, <2>1, <2>2, <2>3, DropSees
  <2>. QED BY <1>4, <2>3, <2>4 DEF After
<1>5. CASE op = "rename"
  <2>1. /\ t \in {"runs", "scripts"}
        /\ t = "runs" => S \cap 45 .. 49 = {}
        /\ t = "scripts" => S \cap 36 .. 40 = {}
    BY <1>5 DEF Ready
  <2>2. Sees(d, AllBack(S)) /\ d.fk = c.fk
    BY <1>1, <1>5, <2>1, RenameSees
  <2>. QED BY <1>5, <2>2 DEF After
<1>. QED BY <1>2, <1>3, <1>4, <1>5 DEF Ready

-----------------------------------------------------------------------------
(* What the units do to the schema, in numbers.                            *)

Opens(d, unit, sch, rs, fk) == d = Run(Connection(sch, rs, fk), unit)

\* The unit takes a database with the objects of S to one with those of T ...
Leads(unit, S, T) ==
    \A rs, fk, d : Opens(d, unit, Of(S), rs, fk) => d.ok /\ d.schema = Of(T)
\* ... but that it may stumble over runs without their script ...
LeadsMostly(unit, S, T) ==
    \A rs, fk, d : Opens(d, unit, Of(S), rs, fk) /\ ~ (fk /\ "orphans" \in rs) =>
        d.ok /\ d.schema = Of(T)
\* ... or it fails on such a database.
Defeats(unit, S) == \A rs, fk, d : Opens(d, unit, Of(S), rs, fk) => ~ d.ok

Single(unit, op, t, N, A) == \E x : unit = <<x>> /\ Is(x, op, t, N, A)

LEMMA Opened ==
    ASSUME NEW S, NEW rs, NEW fk
    PROVE  LET c == Connection(Of(S), rs, fk)
           IN  Sees(c, S) /\ c.fk = fk /\ c.rows = rs
BY DEF Sees, Conn, Connection

LEMMA SingleRuns ==
    ASSUME NEW unit, NEW op, NEW t, NEW N, NEW A, Single(unit, op, t, N, A),
           NEW d, NEW sch, NEW rs, NEW fk, Opens(d, unit, sch, rs, fk)
    PROVE  \E s : Is(s, op, t, N, A) /\ Executes(Connection(sch, rs, fk), s, d)
<1>1. PICK x : unit = <<x>> /\ Is(x, op, t, N, A)
  BY Zenon DEF Single
<1>2. DOMAIN unit = {1} /\ unit[1] = x
  <2>1. PICK u : u = <<x>>
    OBVIOUS
  <2>2. DOMAIN u = {1} /\ u[1] = x
    BY <2>1, 1 .. 1 = {1}
  <2>. QED BY <1>1, <2>1, <2>2, Zenon
<1>3. PICK c : c = Connection(sch, rs, fk)
  OBVIOUS
<1>4. d = Execute(c, x)
  BY <1>2, <1>3, RunOfOne DEF Opens
<1>. QED BY <1>1, <1>3, <1>4 DEF Executes

LEMMA SingleLeads ==
    ASSUME NEW unit, NEW op, NEW t, NEW N, NEW A, Single(unit, op, t, N, A),
           NEW S, NEW T, Ready(op, t, N, A, S), T = After(op, t, A, S)
    PROVE  /\ LeadsMostly(unit, S, T)
           /\ ~ (op = "copy" /\ t = "runs") => Leads(unit, S, T)
<1>1. ASSUME NEW rs, NEW fk, NEW d, Opens(d, unit, Of(S), rs, fk),
             op = "copy" /\ t = "runs" => ~ (fk /\ "orphans" \in rs)
      PROVE  d.ok /\ d.schema = Of(T)
  <2>1. PICK c : c = Connection(Of(S), rs, fk)
    OBVIOUS
  <2>2. PICK s : Is(s, op, t, N, A) /\ Executes(c, s, d)
    BY <1>1, <2>1, SingleRuns
  <2>3. Sees(c, S) /\ c.fk = fk /\ c.rows = rs
    BY <2>1, Opened
  <2>4. Sees(d, T)
    BY <1>1, <2>2, <2>3, StatementSees
  <2>. QED BY <2>4 DEF Sees
<1>. QED BY <1>1 DEF Leads, LeadsMostly

LEMMA SingleDefeats ==
    ASSUME NEW unit, NEW op, NEW t, NEW N, NEW A, Single(unit, op, t, N, A),
           NEW S, NEW i \in A \cap S
    PROVE  Defeats(unit, S)
<1>. SUFFICES ASSUME NEW rs, NEW fk, NEW d, Opens(d, unit, Of(S), rs, fk), d.ok
              PROVE  FALSE
  BY DEF Defeats
<1>1. PICK c : c = Connection(Of(S), rs, fk)
  OBVIOUS
<1>2. PICK s : Is(s, op, t, N, A) /\ Executes(c, s, d)
  BY <1>1, SingleRuns
<1>3. Sees(c, S)
  BY <1>1, Opened
<1>4. Works(s, c)
  BY <1>2, <1>3, Executed DEF Executes, Sees
<1>5. Made[i] \in s.adds /\ Made[i] \in c.schema
  BY <1>2, <1>3 DEF Is, Sees, Of
<1>6. ~ Clashes(Made[i], Made[i])
  BY <1>4, <1>5 DEF Works
<1>. QED BY <1>6 DEF Clashes

-----------------------------------------------------------------------------
(* The constructors of statements, in numbers.                             *)

LEMMA OfThese ==
    /\ Of({}) = {}
    /\ \A i : Of({i}) = {Made[i]}
    /\ \A i, j : Of({i, j}) = {Made[i], Made[j]}
<1>1. Of({}) = {}
  BY DEF Of
<1>2. ASSUME NEW i PROVE Of({i}) = {Made[i]}
  BY DEF Of
<1>3. ASSUME NEW i, NEW j PROVE Of({i, j}) = {Made[i], Made[j]}
  BY DEF Of
<1>. QED BY <1>1, <1>2, <1>3

LEMMA ColumnsAre ==
    ASSUME NEW t, NEW cs
    PROVE  Columns(t, cs) = {Column(t, c) : c \in cs}
<1>1. ASSUME NEW o \in Columns(t, cs) PROVE \E c \in cs : o = Column(t, c)
  <2>1. o.name \in cs /\ o = [kind |-> "column", on |-> t, name |-> o.name]
    BY <1>1 DEF Columns
  <2>. QED BY <2>1 DEF Column
<1>2. ASSUME NEW c \in cs PROVE Column(t, c) \in Columns(t, cs)
  BY DEF Columns, Column
<1>. HIDE DEF Columns, Column
<1>. QED BY <1>1, <1>2

LEMMA FewColumns ==
    /\ \A t : Columns(t, {}) = {}
    /\ \A t, c : Columns(t, {c}) = {Column(t, c)}
<1>1. ASSUME NEW t PROVE Columns(t, {}) = {}
  BY ColumnsAre
<1>2. ASSUME NEW t, NEW c PROVE Columns(t, {c}) = {Column(t, c)}
  <2>1. Columns(t, {c}) = {Column(t, d) : d \in {c}}
    BY ColumnsAre
  <2>. QED BY <2>1
<1>. QED BY <1>1, <1>2

LEMMA StatementIs ==
    ASSUME NEW op, NEW t, NEW needs, NEW adds, NEW N, NEW A, needs = Of(N), adds = Of(A)
    PROVE  Single(Statement(op, t, needs, adds), op, t, N, A)
<1>. DEFINE r == [op |-> op, table |-> t, needs |-> needs, adds |-> adds]
<1>1. Is(r, op, t, N, A)
  BY DEF Is
<1>2. Statement(op, t, needs, adds) = <<r>>
  BY DEF Statement
<1>. HIDE DEF r
<1>. QED BY <1>1, <1>2, Zenon DEF Single

LEMMA TableUnit ==
    ASSUME NEW t, NEW i, Made[i] = Table(t)
    PROVE  Single(CreateTable(t, {}), "add", t, {}, {i})
<1>1. {Table(t)} \cup Columns(t, {}) = Of({i})
  BY OfThese, FewColumns
<1>. QED BY <1>1, OfThese, StatementIs DEF CreateTable

LEMMA ColumnUnit ==
    ASSUME NEW t, NEW c, NEW i, NEW j, Made[i] = Table(t), Made[j] = Column(t, c)
    PROVE  Single(AddColumn(t, c), "add", t, {i}, {j})
<1>1. {Table(t)} = Of({i}) /\ Columns(t, {c}) = Of({j})
  BY OfThese, FewColumns
<1>. QED BY <1>1, StatementIs DEF AddColumn

LEMMA IndexUnit ==
    ASSUME NEW t, NEW x, NEW i, NEW j, Made[i] = Table(t), Made[j] = Index(t, x)
    PROVE  Single(CreateIndex(t, x, {}), "add", t, {i}, {j})
<1>1. {Table(t)} \cup Columns(t, {}) = Of({i})
  BY OfThese, FewColumns
<1>. QED BY <1>1, OfThese, StatementIs DEF CreateIndex

LEMMA IndexOnUnit ==
    ASSUME NEW t, NEW c, NEW x, NEW i, NEW j, NEW k, NEW cs, NEW N, cs = {c}, N = {i, k},
           Made[i] = Table(t), Made[j] = Index(t, x), Made[k] = Column(t, c)
    PROVE  Single(CreateIndex(t, x, cs), "add", t, N, {j})
<1>1. Columns(t, {c}) = {Made[k]}
  BY FewColumns
<1>2. Of({i, k}) = {Made[i], Made[k]}
  BY OfThese
<1>3. {Table(t)} \cup Columns(t, {c}) = Of({i, k})
  BY <1>1, <1>2
<1>. QED BY <1>3, OfThese, StatementIs DEF CreateIndex

LEMMA UpdateUnit ==
    ASSUME NEW t, NEW i, Made[i] = Table(t)
    PROVE  Single(Update(t, {}), "update", t, {i}, {})
<1>1. {Table(t)} \cup Columns(t, {}) = Of({i})
  BY OfThese, FewColumns
<1>. QED BY <1>1, OfThese, StatementIs DEF Update

LEMMA UpdateOnUnit ==
    ASSUME NEW t, NEW c, NEW i, NEW k, NEW cs, NEW N, cs = {c}, N = {i, k},
           Made[i] = Table(t), Made[k] = Column(t, c)
    PROVE  Single(Update(t, cs), "update", t, N, {})
<1>1. Columns(t, {c}) = {Made[k]}
  BY FewColumns
<1>2. Of({i, k}) = {Made[i], Made[k]}
  BY OfThese
<1>3. {Table(t)} \cup Columns(t, {c}) = Of({i, k})
  BY <1>1, <1>2
<1>. QED BY <1>3, OfThese, StatementIs DEF Update

LEMMA ForeignKeysUnit ==
    ASSUME NEW to
    PROVE  Single(ForeignKeys(to), to, "", {}, {})
BY OfThese, StatementIs DEF ForeignKeys

LEMMA DropUnit ==
    ASSUME NEW t, NEW i, Made[i] = Table(t)
    PROVE  Single(DropTable(t), "drop", t, {i}, {})
BY OfThese, StatementIs DEF DropTable

LEMMA RenameUnit ==
    ASSUME NEW t, NEW i, NEW j, Made[i] = Table(t), Made[j] = Table(New[t])
    PROVE  Single(RenameNew(t), "rename", t, {j}, {i})
BY OfThese, StatementIs DEF RenameNew

\* The tables that are to replace others, and the copies.
LEMMA NewTables ==
    /\ Single(CreateTable("runs_new", Range(RunColumns)), "add", "runs_new", {}, 36 .. 40)
    /\ Single(CreateTable("scripts_new", {"description"}), "add", "scripts_new", {}, {45, 46})
    /\ Single(CreateTable("scripts_new", {"description", "user_id", "entrypoint"}),
              "add", "scripts_new", {}, 45 .. 48)
<1>. HIDE DEF Made, Table, Column
<1>1. {Table("runs_new")} \cup Columns("runs_new", Range(RunColumns)) = Of(36 .. 40)
  <2>1. Range(RunColumns) = {"attempt", "parent_run_id", "next_attempt_at", "skip_reason"}
    <3>1. PICK f : f = RunColumns
      OBVIOUS
    <3>2. DOMAIN f = 1 .. 4 /\ f[1] = "attempt" /\ f[2] = "parent_run_id"
          /\ f[3] = "next_attempt_at" /\ f[4] = "skip_reason"
      BY <3>1 DEF RunColumns
    <3>3. 1 .. 4 = {1, 2, 3, 4}
      OBVIOUS
    <3>. QED BY <3>1, <3>2, <3>3 DEF Range
  <2>2. Columns("runs_new", Range(RunColumns)) = {Made[37], Made[38], Made[39], Made[40]}
    <3>1. PICK cs : cs = Range(RunColumns)
      OBVIOUS
    <3>2. Columns("runs_new", cs) = {Column("runs_new", c) : c \in cs}
      BY ColumnsAre
    <3>. QED BY <2>1, <3>1, <3>2, MadeIs
  <2>3. 36 .. 40 = {36, 37, 38, 39, 40}
    OBVIOUS
  <2>. QED BY <2>2, <2>3, MadeIs DEF Of
<1>2. {Table("scripts_new")} \cup Columns("scripts_new", {"description"}) = Of({45, 46})
  <2>1. Columns("scripts_new", {"description"}) = {Made[46]}
    BY FewColumns, MadeIs
  <2>2. Of({45, 46}) = {Made[45], Made[46]}
    BY OfThese
  <2>. QED BY <2>1, <2>2, MadeIs
<1>3. {Table("scripts_new")} \cup Columns("scripts_new", {"description", "user_id", "entrypoint"})
        = Of(45 .. 48)
  <2>1. Columns("scripts_new", {"description", "user_id", "entrypoint"})
          = {Made[46], Made[47], Made[48]}
    <3>1. Columns("scripts_new", {"description", "user_id", "entrypoint"})
            = {Column("scripts_new", c) : c \in {"description", "user_id", "entrypoint"}}
      BY ColumnsAre
    <3>. QED BY <3>1, MadeIs
  <2>2. 45 .. 48 = {45, 46, 47, 48}
    OBVIOUS
  <2>. QED BY <2>1, <2>2, MadeIs DEF Of
<1>. QED BY <1>1, <1>2, <1>3, OfThese, StatementIs, ZenonT(60) DEF CreateTable

LEMMA Copies ==
    /\ Single(CopyRows("runs", {}), "copy", "runs", {6, 36}, {})
    /\ Single(CopyRows("scripts", {"description"}), "copy", "scripts", {1, 3, 45}, {})
    /\ Single(CopyRows("scripts", {"description", "user_id", "entrypoint"}),
              "copy", "scripts", {1, 3, 23, 44, 45}, {})
<1>. HIDE DEF Made, Table, Column
<1>0. New["runs"] = "runs_new" /\ New["scripts"] = "scripts_new"
  BY DEF New
<1>1. {Table("runs"), Table(New["runs"])} \cup Columns("runs", {}) = Of({6, 36})
  <2>1. Columns("runs", {}) = {} /\ Of({6, 36}) = {Made[6], Made[36]}
    BY OfThese, FewColumns
  <2>. QED BY <1>0, <2>1, MadeIs
<1>2. {Table("scripts"), Table(New["scripts"])} \cup Columns("scripts", {"description"})
        = Of({1, 3, 45})
  <2>1. Columns("scripts", {"description"}) = {Made[3]}
    BY FewColumns, MadeIs
  <2>. QED BY <1>0, <2>1, MadeIs DEF Of
<1>3. {Table("scripts"), Table(New["scripts"])}
         \cup Columns("scripts", {"description", "user_id", "entrypoint"})
        = Of({1, 3, 23, 44, 45})
  <2>1. Columns("scripts", {"description", "user_id", "entrypoint"})
          = {Made[3], Made[23], Made[44]}
    <3>1. Columns("scripts", {"description", "user_id", "entrypoint"})
            = {Column("scripts", c) : c \in {"description", "user_id", "entrypoint"}}
      BY ColumnsAre
    <3>. QED BY <3>1, MadeIs
  <2>. QED BY <1>0, <2>1, MadeIs DEF Of
<1>. QED BY <1>1, <1>2, <1>3, OfThese, StatementIs DEF CopyRows

LEMMA Mostly ==
    ASSUME NEW unit, NEW S, NEW T, Leads(unit, S, T)
    PROVE  LeadsMostly(unit, S, T)
BY DEF Leads, LeadsMostly

-----------------------------------------------------------------------------
(* The stages that the units of each script go through.                    *)

\* Every unit takes the database from one stage to the next.
Onward(n) ==
    \A k \in 1 .. Len(MigrationFiles[n]) :
        /\ LeadsMostly(MigrationFiles[n][k], Stage(n, k - 1), Stage(n, k))
        /\ ~ (n = 11 /\ k = 13) => Leads(MigrationFiles[n][k], Stage(n, k - 1), Stage(n, k))

\* The script begins with an object that is there at all later stages.
Once(n) ==
    \A k \in 1 .. Len(MigrationFiles[n]) : Defeats(MigrationFiles[n][1], Stage(n, k))

LEMMA Script1 ==
    /\ Len(MigrationFiles[1]) = 2
    /\ Single(MigrationFiles[1][1], "add", "scripts", {}, {1})
    /\ Single(MigrationFiles[1][2], "add", "scripts", {1}, {2})
<1>1. /\ Len(MigrationFiles[1]) = 2
      /\ MigrationFiles[1][1] = CreateTable("scripts", {})
      /\ MigrationFiles[1][2] = CreateIndex("scripts", "scripts_name", {})
  BY DEF MigrationFiles, v001_init
<1>. QED BY <1>1, MadeIs, IndexUnit, TableUnit

LEMMA Onward1 == Onward(1) /\ Once(1)
<1>1. /\ Stage(1, 0) = 1 .. 0
      /\ Stage(1, 1) = 1 .. 1
      /\ Stage(1, 2) = 1 .. 2
  BY DEF Stage, Latest, Gone, Grown, Before
<1>2. /\ Ready("add", "scripts", {}, {1}, Stage(1, 0))
      /\ Ready("add", "scripts", {1}, {2}, Stage(1, 1))
  BY <1>1 DEF Ready, Known
<1>3. /\ Stage(1, 1) = After("add", "scripts", {1}, Stage(1, 0))
      /\ Stage(1, 2) = After("add", "scripts", {2}, Stage(1, 1))
  BY <1>1 DEF After
<1>4. /\ Leads(MigrationFiles[1][1], Stage(1, 0), Stage(1, 1))
      /\ Leads(MigrationFiles[1][2], Stage(1, 1), Stage(1, 2))
  BY <1>2, <1>3, Script1, SingleLeads
<1>5. Onward(1)
  BY <1>4, Script1, Mostly DEF Onward
<1>6. \A k \in 1 .. 2 : 1 \in Stage(1, k)
  BY <1>1
<1>7. Once(1)
  BY <1>6, Script1, SingleDefeats DEF Once
<1>. QED BY <1>5, <1>7

LEMMA Script2 ==
    /\ Len(MigrationFiles[2]) = 1
    /\ Single(MigrationFiles[2][1], "add", "scripts", {1}, {3})
<1>1. /\ Len(MigrationFiles[2]) = 1
      /\ MigrationFiles[2][1] = AddColumn("scripts", "description")
  BY DEF MigrationFiles, v002_scripts_v2
<1>. QED BY <1>1, MadeIs, ColumnUnit

LEMMA Onward2 == Onward(2) /\ Once(2)
<1>1. /\ Stage(2, 0) = 1 .. 2
      /\ Stage(2, 1) = 1 .. 3
  BY DEF Stage, Latest, Gone, Grown, Before
<1>2. /\ Ready("add", "scripts", {1}, {3}, Stage(2, 0))
  BY <1>1 DEF Ready, Known
<1>3. /\ Stage(2, 1) = After("add", "scripts", {3}, Stage(2, 0))
  BY <1>1 DEF After
<1>4. /\ Leads(MigrationFiles[2][1], Stage(2, 0), Stage(2, 1))
  BY <1>2, <1>3, Script2, SingleLeads
<1>5. Onward(2)
  BY <1>4, Script2, Mostly DEF Onward
<1>6. \A k \in 1 .. 1 : 3 \in Stage(2, k)
  BY <1>1
<1>7. Once(2)
  BY <1>6, Script2, SingleDefeats DEF Once
<1>. QED BY <1>5, <1>7

LEMMA Script3 ==
    /\ Len(MigrationFiles[3]) = 2
    /\ Single(MigrationFiles[3][1], "add", "schedules", {}, {4})
    /\ Single(MigrationFiles[3][2], "add", "schedules", {4}, {5})
<1>1. /\ Len(MigrationFiles[3]) = 2
      /\ MigrationFiles[3][1] = CreateTable("schedules", {})
      /\ MigrationFiles[3][2] = CreateIndex("schedules", "schedules_script", {})
  BY DEF MigrationFiles, v003_schedules
<1>. QED BY <1>1, MadeIs, IndexUnit, TableUnit

LEMMA Onward3 == Onward(3) /\ Once(3)
<1>1. /\ Stage(3, 0) = 1 .. 3
      /\ Stage(3, 1) = 1 .. 4
      /\ Stage(3, 2) = 1 .. 5
  BY DEF Stage, Latest, Gone, Grown, Before
<1>2. /\ Ready("add", "schedules", {}, {4}, Stage(3, 0))
      /\ Ready("add", "schedules", {4}, {5}, Stage(3, 1))
  BY <1>1 DEF Ready, Known
<1>3. /\ Stage(3, 1) = After("add", "schedules", {4}, Stage(3, 0))
      /\ Stage(3, 2) = After("add", "schedules", {5}, Stage(3, 1))
  BY <1>1 DEF After
<1>4. /\ Leads(MigrationFiles[3][1], Stage(3, 0), Stage(3, 1))
      /\ Leads(MigrationFiles[3][2], Stage(3, 1), Stage(3, 2))
  BY <1>2, <1>3, Script3, SingleLeads
<1>5. Onward(3)
  BY <1>4, Script3, Mostly DEF Onward
<1>6. \A k \in 1 .. 2 : 4 \in Stage(3, k)
  BY <1>1
<1>7. Once(3)
  BY <1>6, Script3, SingleDefeats DEF Once
<1>. QED BY <1>5, <1>7

LEMMA Script4 ==
    /\ Len(MigrationFiles[4]) = 3
    /\ Single(MigrationFiles[4][1], "add", "runs", {}, {6})
    /\ Single(MigrationFiles[4][2], "add", "runs", {6}, {7})
    /\ Single(MigrationFiles[4][3], "add", "runs", {6}, {8})
<1>1. /\ Len(MigrationFiles[4]) = 3
      /\ MigrationFiles[4][1] = CreateTable("runs", {})
      /\ MigrationFiles[4][2] = CreateIndex("runs", "runs_script", {})
      /\ MigrationFiles[4][3] = CreateIndex("runs", "runs_started", {})
  BY DEF MigrationFiles, v004_runs
<1>. QED BY <1>1, MadeIs, IndexUnit, TableUnit

LEMMA Onward4 == Onward(4) /\ Once(4)
<1>1. /\ Stage(4, 0) = 1 .. 5
      /\ Stage(4, 1) = 1 .. 6
      /\ Stage(4, 2) = 1 .. 7
      /\ Stage(4, 3) = 1 .. 8
  BY DEF Stage, Latest, Gone, Grown, Before
<1>2. /\ Ready("add", "runs", {}, {6}, Stage(4, 0))
      /\ Ready("add", "runs", {6}, {7}, Stage(4, 1))
      /\ Ready("add", "runs", {6}, {8}, Stage(4, 2))
  BY <1>1 DEF Ready, Known
<1>3. /\ Stage(4, 1) = After("add", "runs", {6}, Stage(4, 0))
      /\ Stage(4, 2) = After("add", "runs", {7}, Stage(4, 1))
      /\ Stage(4, 3) = After("add", "runs", {8}, Stage(4, 2))
  BY <1>1 DEF After
<1>4. /\ Leads(MigrationFiles[4][1], Stage(4, 0), Stage(4, 1))
      /\ Leads(MigrationFiles[4][2], Stage(4, 1), Stage(4, 2))
      /\ Leads(MigrationFiles[4][3], Stage(4, 2), Stage(4, 3))
  BY <1>2, <1>3, Script4, SingleLeads
<1>5. Onward(4)
  BY <1>4, Script4, Mostly DEF Onward
<1>6. \A k \in 1 .. 3 : 6 \in Stage(4, k)
  BY <1>1
<1>7. Once(4)
  BY <1>6, Script4, SingleDefeats DEF Once
<1>. QED BY <1>5, <1>7

LEMMA Script5 ==
    /\ Len(MigrationFiles[5]) = 2
    /\ Single(MigrationFiles[5][1], "add", "logs", {}, {9})
    /\ Single(MigrationFiles[5][2], "add", "logs", {9}, {10})
<1>1. /\ Len(MigrationFiles[5]) = 2
      /\ MigrationFiles[5][1] = CreateTable("logs", {})
      /\ MigrationFiles[5][2] = CreateIndex("logs", "logs_run", {})
  BY DEF MigrationFiles, v005_logs_v5
<1>. QED BY <1>1, MadeIs, IndexUnit, TableUnit

LEMMA Onward5 == Onward(5) /\ Once(5)
<1>1. /\ Stage(5, 0) = 1 .. 8
      /\ Stage(5, 1) = 1 .. 9
      /\ Stage(5, 2) = 1 .. 10
  BY DEF Stage, Latest, Gone, Grown, Before
<1>2. /\ Ready("add", "logs", {}, {9}, Stage(5, 0))
      /\ Ready("add", "logs", {9}, {10}, Stage(5, 1))
  BY <1>1 DEF Ready, Known
<1>3. /\ Stage(5, 1) = After("add", "logs", {9}, Stage(5, 0))
      /\ Stage(5, 2) = After("add", "logs", {10}, Stage(5, 1))
  BY <1>1 DEF After
<1>4. /\ Leads(MigrationFiles[5][1], Stage(5, 0), Stage(5, 1))
      /\ Leads(MigrationFiles[5][2], Stage(5, 1), Stage(5, 2))
  BY <1>2, <1>3, Script5, SingleLeads
<1>5. Onward(5)
  BY <1>4, Script5, Mostly DEF Onward
<1>6. \A k \in 1 .. 2 : 9 \in Stage(5, k)
  BY <1>1
<1>7. Once(5)
  BY <1>6, Script5, SingleDefeats DEF Once
<1>. QED BY <1>5, <1>7

LEMMA Script6 ==
    /\ Len(MigrationFiles[6]) = 1
    /\ Single(MigrationFiles[6][1], "add", "schedules", {4}, {11})
<1>1. /\ Len(MigrationFiles[6]) = 1
      /\ MigrationFiles[6][1] = AddColumn("schedules", "last_error")
  BY DEF MigrationFiles, v006_retry
<1>. QED BY <1>1, MadeIs, ColumnUnit

LEMMA Onward6 == Onward(6) /\ Once(6)
<1>1. /\ Stage(6, 0) = 1 .. 10
      /\ Stage(6, 1) = 1 .. 11
  BY DEF Stage, Latest, Gone, Grown, Before
<1>2. /\ Ready("add", "schedules", {4}, {11}, Stage(6, 0))
  BY <1>1 DEF Ready, Known
<1>3. /\ Stage(6, 1) = After("add", "schedules", {11}, Stage(6, 0))
  BY <1>1 DEF After
<1>4. /\ Leads(MigrationFiles[6][1], Stage(6, 0), Stage(6, 1))
  BY <1>2, <1>3, Script6, SingleLeads
<1>5. Onward(6)
  BY <1>4, Script6, Mostly DEF Onward
<1>6. \A k \in 1 .. 1 : 11 \in Stage(6, k)
  BY <1>1
<1>7. Once(6)
  BY <1>6, Script6, SingleDefeats DEF Once
<1>. QED BY <1>5, <1>7

LEMMA Script7 ==
    /\ Len(MigrationFiles[7]) = 6
    /\ Single(MigrationFiles[7][1], "add", "users", {}, {12})
    /\ Single(MigrationFiles[7][2], "add", "invites", {}, {13})
    /\ Single(MigrationFiles[7][3], "add", "invites", {13}, {14})
    /\ Single(MigrationFiles[7][4], "add", "script_envs", {}, {15})
    /\ Single(MigrationFiles[7][5], "add", "script_deps", {}, {16})
    /\ Single(MigrationFiles[7][6], "add", "audit_log", {}, {17})
<1>1. /\ Len(MigrationFiles[7]) = 6
      /\ MigrationFiles[7][1] = CreateTable("users", {})
      /\ MigrationFiles[7][2] = CreateTable("invites", {})
      /\ MigrationFiles[7][3] = CreateIndex("invites", "invites_token", {})
      /\ MigrationFiles[7][4] = CreateTable("script_envs", {})
      /\ MigrationFiles[7][5] = CreateTable("script_deps", {})
      /\ MigrationFiles[7][6] = CreateTable("audit_log", {})
  BY DEF MigrationFiles, v007_from_v1
<1>. QED BY <1>1, MadeIs, IndexUnit, TableUnit

LEMMA Onward7 == Onward(7) /\ Once(7)
<1>1. /\ Stage(7, 0) = 1 .. 11
      /\ Stage(7, 1) = 1 .. 12
      /\ Stage(7, 2) = 1 .. 13
      /\ Stage(7, 3) = 1 .. 14
      /\ Stage(7, 4) = 1 .. 15
      /\ Stage(7, 5) = 1 .. 16
      /\ Stage(7, 6) = 1 .. 17
  BY DEF Stage, Latest, Gone, Grown, Before
<1>2. /\ Ready("add", "users", {}, {12}, Stage(7, 0))
      /\ Ready("add", "invites", {}, {13}, Stage(7, 1))
      /\ Ready("add", "invites", {13}, {14}, Stage(7, 2))
      /\ Ready("add", "script_envs", {}, {15}, Stage(7, 3))
      /\ Ready("add", "script_deps", {}, {16}, Stage(7, 4))
      /\ Ready("add", "audit_log", {}, {17}, Stage(7, 5))
  BY <1>1 DEF Ready, Known
<1>3. /\ Stage(7, 1) = After("add", "users", {12}, Stage(7, 0))
      /\ Stage(7, 2) = After("add", "invites", {13}, Stage(7, 1))
      /\ Stage(7, 3) = After("add", "invites", {14}, Stage(7, 2))
      /\ Stage(7, 4) = After("add", "script_envs", {15}, Stage(7, 3))
      /\ Stage(7, 5) = After("add", "script_deps", {16}, Stage(7, 4))
      /\ Stage(7, 6) = After("add", "audit_log", {17}, Stage(7, 5))
  BY <1>1 DEF After
<1>4. /\ Leads(MigrationFiles[7][1], Stage(7, 0), Stage(7, 1))
      /\ Leads(MigrationFiles[7][2], Stage(7, 1), Stage(7, 2))
      /\ Leads(MigrationFiles[7][3], Stage(7, 2), Stage(7, 3))
      /\ Leads(MigrationFiles[7][4], Stage(7, 3), Stage(7, 4))
      /\ Leads(MigrationFiles[7][5], Stage(7, 4), Stage(7, 5))
      /\ Leads(MigrationFiles[7][6], Stage(7, 5), Stage(7, 6))
  BY <1>2, <1>3, Script7, SingleLeads
<1>5. Onward(7)
  BY <1>4, Script7, Mostly DEF Onward
<1>6. \A k \in 1 .. 6 : 12 \in Stage(7, k)
  BY <1>1
<1>7. Once(7)
  BY <1>6, Script7, SingleDefeats DEF Once
<1>. QED BY <1>5, <1>7

LEMMA Script8 ==
    /\ Len(MigrationFiles[8]) = 4
    /\ Single(MigrationFiles[8][1], "add", "runs", {6}, {18})
    /\ Single(MigrationFiles[8][2], "add", "schedules", {4}, {19})
    /\ Single(MigrationFiles[8][3], "add", "runs", {6}, {20})
    /\ Single(MigrationFiles[8][4], "add", "audit_log", {17}, {21})
<1>1. /\ Len(MigrationFiles[8]) = 4
      /\ MigrationFiles[8][1] = CreateIndex("runs", "runs_script_started", {})
      /\ MigrationFiles[8][2] = CreateIndex("schedules", "schedules_due", {})
      /\ MigrationFiles[8][3] = CreateIndex("runs", "runs_status", {})
      /\ MigrationFiles[8][4] = CreateIndex("audit_log", "audit_user_at", {})
  BY DEF MigrationFiles, v008_indexes
<1>. QED BY <1>1, MadeIs, IndexUnit

LEMMA Onward8 == Onward(8) /\ Once(8)
<1>1. /\ Stage(8, 0) = 1 .. 17
      /\ Stage(8, 1) = 1 .. 18
      /\ Stage(8, 2) = 1 .. 19
      /\ Stage(8, 3) = 1 .. 20
      /\ Stage(8, 4) = 1 .. 21
  BY DEF Stage, Latest, Gone, Grown, Before
<1>2. /\ Ready("add", "runs", {6}, {18}, Stage(8, 0))
      /\ Ready("add", "schedules", {4}, {19}, Stage(8, 1))
      /\ Ready("add", "runs", {6}, {20}, Stage(8, 2))
      /\ Ready("add", "audit_log", {17}, {21}, Stage(8, 3))
  BY <1>1 DEF Ready, Known
<1>3. /\ Stage(8, 1) = After("add", "runs", {18}, Stage(8, 0))
      /\ Stage(8, 2) = After("add", "schedules", {19}, Stage(8, 1))
      /\ Stage(8, 3) = After("add", "runs", {20}, Stage(8, 2))
      /\ Stage(8, 4) = After("add", "audit_log", {21}, Stage(8, 3))
  BY <1>1 DEF After
<1>4. /\ Leads(MigrationFiles[8][1], Stage(8, 0), Stage(8, 1))
      /\ Leads(MigrationFiles[8][2], Stage(8, 1), Stage(8, 2))
      /\ Leads(MigrationFiles[8][3], Stage(8, 2), Stage(8, 3))
      /\ Leads(MigrationFiles[8][4], Stage(8, 3), Stage(8, 4))
  BY <1>2, <1>3, Script8, SingleLeads
<1>5. Onward(8)
  BY <1>4, Script8, Mostly DEF Onward
<1>6. \A k \in 1 .. 4 : 18 \in Stage(8, k)
  BY <1>1
<1>7. Once(8)
  BY <1>6, Script8, SingleDefeats DEF Once
<1>. QED BY <1>5, <1>7

LEMMA Script10 ==
    /\ Len(MigrationFiles[10]) = 3
    /\ Single(MigrationFiles[10][1], "add", "scripts", {1}, {23})
    /\ Single(MigrationFiles[10][2], "update", "scripts", {1, 23}, {})
    /\ Single(MigrationFiles[10][3], "add", "scripts", {1, 23}, {24})
<1>1. /\ Len(MigrationFiles[10]) = 3
      /\ MigrationFiles[10][1] = AddColumn("scripts", "user_id")
      /\ MigrationFiles[10][2] = Update("scripts", {"user_id"})
      /\ MigrationFiles[10][3] = CreateIndex("scripts", "scripts_user", {"user_id"})
  BY DEF MigrationFiles, v010_user_id_isolation
<1>2. Single(Update("scripts", {"user_id"}), "update", "scripts", {1, 23}, {})
  <2>1. Made[1] = Table("scripts") /\ Made[23] = Column("scripts", "user_id")
    BY MadeIs
  <2>. QED BY <2>1, UpdateOnUnit
<1>3. Single(CreateIndex("scripts", "scripts_user", {"user_id"}), "add", "scripts", {1, 23}, {24})
  <2>1. Made[1] = Table("scripts") /\ Made[23] = Column("scripts", "user_id") /\ Made[24] = Index("scripts", "scripts_user")
    BY MadeIs
  <2>. QED BY <2>1, IndexOnUnit
<1>. QED BY <1>1, <1>2, <1>3, MadeIs, ColumnUnit

LEMMA Onward10 == Onward(10) /\ Once(10)
<1>1. /\ Stage(10, 0) = 1 .. 22
      /\ Stage(10, 1) = 1 .. 23
      /\ Stage(10, 2) = 1 .. 23
      /\ Stage(10, 3) = 1 .. 24
  BY DEF Stage, Latest, Gone, Grown, Before
<1>2. /\ Ready("add", "scripts", {1}, {23}, Stage(10, 0))
      /\ Ready("update", "scripts", {1, 23}, {}, Stage(10, 1))
      /\ Ready("add", "scripts", {1, 23}, {24}, Stage(10, 2))
  BY <1>1 DEF Ready, Known
<1>3. /\ Stage(10, 1) = After("add", "scripts", {23}, Stage(10, 0))
      /\ Stage(10, 2) = After("update", "scripts", {}, Stage(10, 1))
      /\ Stage(10, 3) = After("add", "scripts", {24}, Stage(10, 2))
  BY <1>1 DEF After
<1>4. /\ Leads(MigrationFiles[10][1], Stage(10, 0), Stage(10, 1))
      /\ Leads(MigrationFiles[10][2], Stage(10, 1), Stage(10, 2))
      /\ Leads(MigrationFiles[10][3], Stage(10, 2), Stage(10, 3))
  BY <1>2, <1>3, Script10, SingleLeads
<1>5. Onward(10)
  BY <1>4, Script10, Mostly DEF Onward
<1>6. \A k \in 1 .. 3 : 23 \in Stage(10, k)
  BY <1>1
<1>7. Once(10)
  BY <1>6, Script10, SingleDefeats DEF Once
<1>. QED BY <1>5, <1>7

LEMMA Script12 ==
    /\ Len(MigrationFiles[12]) = 1
    /\ Single(MigrationFiles[12][1], "update", "runs", {6}, {})
<1>1. /\ Len(MigrationFiles[12]) = 1
      /\ MigrationFiles[12][1] = Update("runs", {})
  BY DEF MigrationFiles, v012_runs_timestamps
<1>. QED BY <1>1, MadeIs, UpdateUnit

LEMMA Onward12 == Onward(12)
<1>1. /\ Stage(12, 0) = (1 .. 43) \ ({7, 8, 18, 20} \cup 36 .. 40)
      /\ Stage(12, 1) = (1 .. 43) \ ({7, 8, 18, 20} \cup 36 .. 40)
  BY DEF Stage, Latest, Gone, Grown, Before
<1>2. /\ Ready("update", "runs", {6}, {}, Stage(12, 0))
  BY <1>1 DEF Ready, Known
<1>3. /\ Stage(12, 1) = After("update", "runs", {}, Stage(12, 0))
  BY <1>1 DEF After
<1>4. /\ Leads(MigrationFiles[12][1], Stage(12, 0), Stage(12, 1))
  BY <1>2, <1>3, Script12, SingleLeads
<1>5. Onward(12)
  BY <1>4, Script12, Mostly DEF Onward
<1>. QED BY <1>5

LEMMA Script13 ==
    /\ Len(MigrationFiles[13]) = 4
    /\ Single(MigrationFiles[13][1], "add", "scripts", {1}, {44})
    /\ Single(MigrationFiles[13][2], "update", "scripts", {1, 44}, {})
    /\ Single(MigrationFiles[13][3], "update", "scripts", {1, 44}, {})
    /\ Single(MigrationFiles[13][4], "update", "scripts", {1, 44}, {})
<1>1. /\ Len(MigrationFiles[13]) = 4
      /\ MigrationFiles[13][1] = AddColumn("scripts", "entrypoint")
      /\ MigrationFiles[13][2] = Update("scripts", {"entrypoint"})
      /\ MigrationFiles[13][3] = Update("scripts", {"entrypoint"})
      /\ MigrationFiles[13][4] = Update("scripts", {"entrypoint"})
  BY DEF MigrationFiles, v013_entrypoint
<1>2. Single(Update("scripts", {"entrypoint"}), "update", "scripts", {1, 44}, {})
  <2>1. Made[1] = Table("scripts") /\ Made[44] = Column("scripts", "entrypoint")
    BY MadeIs
  <2>. QED BY <2>1, UpdateOnUnit
<1>. QED BY <1>1, <1>2, MadeIs, ColumnUnit

LEMMA Onward13 == Onward(13) /\ Once(13)
<1>1. /\ Stage(13, 0) = (1 .. 43) \ ({7, 8, 18, 20} \cup 36 .. 40)
      /\ Stage(13, 1) = (1 .. 44) \ ({7, 8, 18, 20} \cup 36 .. 40)
      /\ Stage(13, 2) = (1 .. 44) \ ({7, 8, 18, 20} \cup 36 .. 40)
      /\ Stage(13, 3) = (1 .. 44) \ ({7, 8, 18, 20} \cup 36 .. 40)
      /\ Stage(13, 4) = (1 .. 44) \ ({7, 8, 18, 20} \cup 36 .. 40)
  BY DEF Stage, Latest, Gone, Grown, Before
<1>2. /\ Ready("add", "scripts", {1}, {44}, Stage(13, 0))
      /\ Ready("update", "scripts", {1, 44}, {}, Stage(13, 1))
      /\ Ready("update", "scripts", {1, 44}, {}, Stage(13, 2))
      /\ Ready("update", "scripts", {1, 44}, {}, Stage(13, 3))
  BY <1>1 DEF Ready, Known
<1>3. /\ Stage(13, 1) = After("add", "scripts", {44}, Stage(13, 0))
      /\ Stage(13, 2) = After("update", "scripts", {}, Stage(13, 1))
      /\ Stage(13, 3) = After("update", "scripts", {}, Stage(13, 2))
      /\ Stage(13, 4) = After("update", "scripts", {}, Stage(13, 3))
  BY <1>1 DEF After
<1>4. /\ Leads(MigrationFiles[13][1], Stage(13, 0), Stage(13, 1))
      /\ Leads(MigrationFiles[13][2], Stage(13, 1), Stage(13, 2))
      /\ Leads(MigrationFiles[13][3], Stage(13, 2), Stage(13, 3))
      /\ Leads(MigrationFiles[13][4], Stage(13, 3), Stage(13, 4))
  BY <1>2, <1>3, Script13, SingleLeads
<1>5. Onward(13)
  BY <1>4, Script13, Mostly DEF Onward
<1>6. \A k \in 1 .. 4 : 44 \in Stage(13, k)
  BY <1>1
<1>7. Once(13)
  BY <1>6, Script13, SingleDefeats DEF Once
<1>. QED BY <1>5, <1>7


LEMMA Script11 ==
    /\ Len(MigrationFiles[11]) = 18
    /\ Single(MigrationFiles[11][1], "add", "users", {12}, {25})
    /\ Single(MigrationFiles[11][2], "add", "schedules", {4}, {26})
    /\ Single(MigrationFiles[11][3], "add", "schedules", {4}, {27})
    /\ Single(MigrationFiles[11][4], "add", "schedules", {4}, {28})
    /\ Single(MigrationFiles[11][5], "add", "schedules", {4}, {29})
    /\ Single(MigrationFiles[11][6], "add", "schedules", {4}, {30})
    /\ Single(MigrationFiles[11][7], "add", "schedules", {4}, {31})
    /\ Single(MigrationFiles[11][8], "add", "runs", {6}, {32})
    /\ Single(MigrationFiles[11][9], "add", "runs", {6}, {33})
    /\ Single(MigrationFiles[11][10], "add", "runs", {6}, {34})
    /\ Single(MigrationFiles[11][11], "add", "runs", {6}, {35})
    /\ Single(MigrationFiles[11][12], "add", "runs_new", {}, 36 .. 40)
    /\ Single(MigrationFiles[11][13], "copy", "runs", {6, 36}, {})
    /\ Single(MigrationFiles[11][14], "drop", "runs", {6}, {})
    /\ Single(MigrationFiles[11][15], "rename", "runs", {36}, {6})
    /\ Single(MigrationFiles[11][16], "add", "runs", {6, 34}, {41})
    /\ Single(MigrationFiles[11][17], "add", "runs", {6, 33}, {42})
    /\ Single(MigrationFiles[11][18], "add", "runs", {6}, {43})
<1>1. PICK f : f = MigrationFiles[11]
  OBVIOUS
<1>2. /\ ScheduleColumns[1] = "timezone"
      /\ ScheduleColumns[2] = "blackout_dates"
      /\ ScheduleColumns[3] = "include_days"
      /\ ScheduleColumns[4] = "overlap_policy"
      /\ ScheduleColumns[5] = "queue_max"
      /\ ScheduleColumns[6] = "queue_dropped"
      /\ RunColumns[1] = "attempt"
      /\ RunColumns[2] = "parent_run_id"
      /\ RunColumns[3] = "next_attempt_at"
      /\ RunColumns[4] = "skip_reason"
  BY DEF ScheduleColumns, RunColumns
<1>3. \A i \in 1 .. 6 : f[1 + i] = AddColumn("schedules", ScheduleColumns[i])
  <2>1. \A i \in 1 .. 6 : f[1 + i] = Widened[1 + i]
    BY <1>1, Eleven
  <2>. QED BY <2>1, ElevenBegins
<1>4. \A i \in 1 .. 4 : f[7 + i] = AddColumn("runs", RunColumns[i])
  BY <1>1, Eleven, ElevenBegins, SMTT(60)
<1>5. /\ f[1] = AddColumn("users", "timezone")
      /\ f[2] = AddColumn("schedules", "timezone")
      /\ f[3] = AddColumn("schedules", "blackout_dates")
      /\ f[4] = AddColumn("schedules", "include_days")
      /\ f[5] = AddColumn("schedules", "overlap_policy")
      /\ f[6] = AddColumn("schedules", "queue_max")
      /\ f[7] = AddColumn("schedules", "queue_dropped")
      /\ f[8] = AddColumn("runs", "attempt")
      /\ f[9] = AddColumn("runs", "parent_run_id")
      /\ f[10] = AddColumn("runs", "next_attempt_at")
      /\ f[11] = AddColumn("runs", "skip_reason")
  BY <1>1, <1>2, <1>3, <1>4, Eleven
<1>6. /\ Single(AddColumn("users", "timezone"), "add", "users", {12}, {25})
      /\ Single(AddColumn("schedules", "timezone"), "add", "schedules", {4}, {26})
      /\ Single(AddColumn("schedules", "blackout_dates"), "add", "schedules", {4}, {27})
      /\ Single(AddColumn("schedules", "include_days"), "add", "schedules", {4}, {28})
      /\ Single(AddColumn("schedules", "overlap_policy"), "add", "schedules", {4}, {29})
      /\ Single(AddColumn("schedules", "queue_max"), "add", "schedules", {4}, {30})
      /\ Single(AddColumn("schedules", "queue_dropped"), "add", "schedules", {4}, {31})
      /\ Single(AddColumn("runs", "attempt"), "add", "runs", {6}, {32})
      /\ Single(AddColumn("runs", "parent_run_id"), "add", "runs", {6}, {33})
      /\ Single(AddColumn("runs", "next_attempt_at"), "add", "runs", {6}, {34})
      /\ Single(AddColumn("runs", "skip_reason"), "add", "runs", {6}, {35})
  BY MadeIs, ColumnUnit, ZenonT(60)
<1>7. /\ Single(DropTable("runs"), "drop", "runs", {6}, {})
      /\ Single(RenameNew("runs"), "rename", "runs", {36}, {6})
  <2>1. New["runs"] = "runs_new"
    BY DEF New
  <2>. QED BY <2>1, MadeIs, DropUnit, RenameUnit
<1>8. Single(CreateIndex("runs", "runs_next_attempt", {"next_attempt_at"}), "add", "runs", {6, 34}, {41})
  <2>1. Made[6] = Table("runs") /\ Made[34] = Column("runs", "next_attempt_at") /\ Made[41] = Index("runs", "runs_next_attempt")
    BY MadeIs
  <2>. QED BY <2>1, IndexOnUnit
<1>9. Single(CreateIndex("runs", "runs_parent", {"parent_run_id"}), "add", "runs", {6, 33}, {42})
  <2>1. Made[6] = Table("runs") /\ Made[33] = Column("runs", "parent_run_id") /\ Made[42] = Index("runs", "runs_parent")
    BY MadeIs
  <2>. QED BY <2>1, IndexOnUnit
<1>10. Single(CreateIndex("runs", "runs_group", {}), "add", "runs", {6}, {43})
  BY MadeIs, IndexUnit
<1>11. /\ f[12] = CreateTable("runs_new", Range(RunColumns))
       /\ f[13] = CopyRows("runs", {})
       /\ f[14] = DropTable("runs")
       /\ f[15] = RenameNew("runs")
       /\ f[16] = CreateIndex("runs", "runs_next_attempt", {"next_attempt_at"})
       /\ f[17] = CreateIndex("runs", "runs_parent", {"parent_run_id"})
       /\ f[18] = CreateIndex("runs", "runs_group", {})
  BY <1>1, Eleven
<1>. QED BY <1>1, <1>5, <1>6, <1>7, <1>8, <1>9, <1>10, <1>11, Eleven, NewTables, Copies, ZenonT(60)

LEMMA Onward11 == Onward(11) /\ Once(11)
<1>1. /\ Stage(11, 0) = 1 .. 24
      /\ Stage(11, 1) = 1 .. 25
      /\ Stage(11, 2) = 1 .. 26
      /\ Stage(11, 3) = 1 .. 27
      /\ Stage(11, 4) = 1 .. 28
      /\ Stage(11, 5) = 1 .. 29
      /\ Stage(11, 6) = 1 .. 30
      /\ Stage(11, 7) = 1 .. 31
      /\ Stage(11, 8) = 1 .. 32
      /\ Stage(11, 9) = 1 .. 33
      /\ Stage(11, 10) = 1 .. 34
      /\ Stage(11, 11) = 1 .. 35
      /\ Stage(11, 12) = 1 .. 40
      /\ Stage(11, 13) = 1 .. 40
      /\ Stage(11, 14) = (1 .. 40) \ ({6, 7, 8, 18, 20} \cup 32 .. 35)
      /\ Stage(11, 15) = (1 .. 40) \ ({7, 8, 18, 20} \cup 36 .. 40)
      /\ Stage(11, 16) = (1 .. 41) \ ({7, 8, 18, 20} \cup 36 .. 40)
      /\ Stage(11, 17) = (1 .. 42) \ ({7, 8, 18, 20} \cup 36 .. 40)
      /\ Stage(11, 18) = (1 .. 43) \ ({7, 8, 18, 20} \cup 36 .. 40)
  BY DEF Stage, Latest, Gone, Grown, Before
<1>2. /\ Ready("add", "users", {12}, {25}, Stage(11, 0))
      /\ Ready("add", "schedules", {4}, {26}, Stage(11, 1))
      /\ Ready("add", "schedules", {4}, {27}, Stage(11, 2))
      /\ Ready("add", "schedules", {4}, {28}, Stage(11, 3))
      /\ Ready("add", "schedules", {4}, {29}, Stage(11, 4))
      /\ Ready("add", "schedules", {4}, {30}, Stage(11, 5))
      /\ Ready("add", "schedules", {4}, {31}, Stage(11, 6))
      /\ Ready("add", "runs", {6}, {32}, Stage(11, 7))
      /\ Ready("add", "runs", {6}, {33}, Stage(11, 8))
      /\ Ready("add", "runs", {6}, {34}, Stage(11, 9))
      /\ Ready("add", "runs", {6}, {35}, Stage(11, 10))
      /\ Ready("add", "runs_new", {}, 36 .. 40, Stage(11, 11))
      /\ Ready("copy", "runs", {6, 36}, {}, Stage(11, 12))
      /\ Ready("drop", "runs", {6}, {}, Stage(11, 13))
      /\ Ready("rename", "runs", {36}, {6}, Stage(11, 14))
      /\ Ready("add", "runs", {6, 34}, {41}, Stage(11, 15))
      /\ Ready("add", "runs", {6, 33}, {42}, Stage(11, 16))
      /\ Ready("add", "runs", {6}, {43}, Stage(11, 17))
  BY <1>1 DEF Ready, Known
<1>3. /\ Stage(11, 1) = After("add", "users", {25}, Stage(11, 0))
      /\ Stage(11, 2) = After("add", "schedules", {26}, Stage(11, 1))
      /\ Stage(11, 3) = After("add", "schedules", {27}, Stage(11, 2))
      /\ Stage(11, 4) = After("add", "schedules", {28}, Stage(11, 3))
      /\ Stage(11, 5) = After("add", "schedules", {29}, Stage(11, 4))
      /\ Stage(11, 6) = After("add", "schedules", {30}, Stage(11, 5))
      /\ Stage(11, 7) = After("add", "schedules", {31}, Stage(11, 6))
      /\ Stage(11, 8) = After("add", "runs", {32}, Stage(11, 7))
      /\ Stage(11, 9) = After("add", "runs", {33}, Stage(11, 8))
      /\ Stage(11, 10) = After("add", "runs", {34}, Stage(11, 9))
      /\ Stage(11, 11) = After("add", "runs", {35}, Stage(11, 10))
      /\ Stage(11, 12) = After("add", "runs_new", 36 .. 40, Stage(11, 11))
      /\ Stage(11, 13) = After("copy", "runs", {}, Stage(11, 12))
      /\ Stage(11, 16) = After("add", "runs", {41}, Stage(11, 15))
      /\ Stage(11, 17) = After("add", "runs", {42}, Stage(11, 16))
      /\ Stage(11, 18) = After("add", "runs", {43}, Stage(11, 17))
  <2>1. /\ Stage(11, 1) = After("add", "users", {25}, Stage(11, 0))
       /\ Stage(11, 2) = After("add", "schedules", {26}, Stage(11, 1))
       /\ Stage(11, 3) = After("add", "schedules", {27}, Stage(11, 2))
       /\ Stage(11, 4) = After("add", "schedules", {28}, Stage(11, 3))
       /\ Stage(11, 5) = After("add", "schedules", {29}, Stage(11, 4))
       /\ Stage(11, 6) = After("add", "schedules", {30}, Stage(11, 5))
    BY <1>1 DEF After
  <2>2. /\ Stage(11, 7) = After("add", "schedules", {31}, Stage(11, 6))
       /\ Stage(11, 8) = After("add", "runs", {32}, Stage(11, 7))
       /\ Stage(11, 9) = After("add", "runs", {33}, Stage(11, 8))
       /\ Stage(11, 10) = After("add", "runs", {34}, Stage(11, 9))
       /\ Stage(11, 11) = After("add", "runs", {35}, Stage(11, 10))
    BY <1>1 DEF After
  <2>3. /\ Stage(11, 12) = After("add", "runs_new", 36 .. 40, Stage(11, 11))
       /\ Stage(11, 13) = After("copy", "runs", {}, Stage(11, 12))
    BY <1>1, SMTT(60) DEF After
  <2>4. /\ Stage(11, 16) = After("add", "runs", {41}, Stage(11, 15))
    BY <1>1 DEF After
  <2>5. /\ Stage(11, 17) = After("add", "runs", {42}, Stage(11, 16))
    BY <1>1 DEF After
  <2>6. /\ Stage(11, 18) = After("add", "runs", {43}, Stage(11, 17))
    BY <1>1 DEF After
  <2>. QED BY <2>1, <2>2, <2>3, <2>4, <2>5, <2>6
<1>4. Stage(11, 14) = After("drop", "runs", {}, Stage(11, 13))
  BY <1>1 DEF After, OfTable, OfRuns
<1>5. Stage(11, 15) = After("rename", "runs", {6}, Stage(11, 14))
  <2>1. ASSUME NEW i \in Stage(11, 14) PROVE Back(i) \in Stage(11, 15)
    BY <1>1 DEF Back
  <2>2. ASSUME NEW j \in Stage(11, 15) PROVE \E i \in Stage(11, 14) : j = Back(i)
    <3>1. CASE j = 6
      <4>1. 36 \in Stage(11, 14) /\ Back(36) = 6
        BY <1>1 DEF Back
      <4>. QED BY <3>1, <4>1
    <3>2. CASE j \in 32 .. 35
      <4>1. j + 5 \in Stage(11, 14) /\ Back(j + 5) = j
        BY <1>1, <3>2 DEF Back
      <4>. QED BY <4>1
    <3>3. CASE j # 6 /\ j \notin 32 .. 35
      <4>1. j \in Stage(11, 14) /\ Back(j) = j
        BY <1>1, <3>3 DEF Back
      <4>. QED BY <4>1
    <3>. QED BY <3>1, <3>2, <3>3
  <2>. HIDE DEF Stage, Back
  <2>3. AllBack(Stage(11, 14)) = Stage(11, 15)
    BY <2>1, <2>2 DEF AllBack
  <2>. QED BY <2>3 DEF After
<1>6. /\ Leads(MigrationFiles[11][1], Stage(11, 0), Stage(11, 1))
      /\ Leads(MigrationFiles[11][2], Stage(11, 1), Stage(11, 2))
      /\ Leads(MigrationFiles[11][3], Stage(11, 2), Stage(11, 3))
      /\ Leads(MigrationFiles[11][4], Stage(11, 3), Stage(11, 4))
      /\ Leads(MigrationFiles[11][5], Stage(11, 4), Stage(11, 5))
      /\ Leads(MigrationFiles[11][6], Stage(11, 5), Stage(11, 6))
      /\ Leads(MigrationFiles[11][7], Stage(11, 6), Stage(11, 7))
      /\ Leads(MigrationFiles[11][8], Stage(11, 7), Stage(11, 8))
      /\ Leads(MigrationFiles[11][9], Stage(11, 8), Stage(11, 9))
  BY <1>2, <1>3, Script11, SingleLeads
<1>7. /\ Leads(MigrationFiles[11][10], Stage(11, 9), Stage(11, 10))
      /\ Leads(MigrationFiles[11][11], Stage(11, 10), Stage(11, 11))
      /\ Leads(MigrationFiles[11][12], Stage(11, 11), Stage(11, 12))
      /\ Leads(MigrationFiles[11][14], Stage(11, 13), Stage(11, 14))
      /\ Leads(MigrationFiles[11][15], Stage(11, 14), Stage(11, 15))
      /\ Leads(MigrationFiles[11][16], Stage(11, 15), Stage(11, 16))
      /\ Leads(MigrationFiles[11][17], Stage(11, 16), Stage(11, 17))
      /\ Leads(MigrationFiles[11][18], Stage(11, 17), Stage(11, 18))
  BY <1>2, <1>3, <1>4, <1>5, Script11, SingleLeads
<1>8. LeadsMostly(MigrationFiles[11][13], Stage(11, 12), Stage(11, 13))
  BY <1>2, <1>3, Script11, SingleLeads
<1>9. Onward(11)
  <2>1. ASSUME NEW k \in 1 .. 18, k # 13
        PROVE  Leads(MigrationFiles[11][k], Stage(11, k - 1), Stage(11, k))
    <3>1. CASE k \in 1 .. 9
      BY <1>6, <3>1
    <3>2. CASE k \in 10 .. 18
      BY <1>7, <2>1, <3>2
    <3>. QED BY <3>1, <3>2
  <2>2. ASSUME NEW k \in 1 .. 18
        PROVE  LeadsMostly(MigrationFiles[11][k], Stage(11, k - 1), Stage(11, k))
    BY <1>8, <2>1, Mostly
  <2>. QED BY <2>1, <2>2, Script11 DEF Onward
<1>10. \A k \in 1 .. 18 : 25 \in Stage(11, k)
  BY DEF Stage, Latest, Gone, Grown, Before
<1>11. Once(11)
  BY <1>10, Script11, SingleDefeats DEF Once
<1>. QED BY <1>9, <1>11

\* What a statement makes of the objects of S, whatever else there is.
Takes(x, S, T) ==
    \E op, t, N, A :
        /\ Is(x, op, t, N, A) /\ Ready(op, t, N, A, S) /\ T = After(op, t, A, S)
        /\ ~ (op = "copy" /\ t = "runs")

LEMMA TakesIt ==
    ASSUME NEW x, NEW op, NEW t, NEW N, NEW A, Is(x, op, t, N, A),
           NEW S, NEW T, Ready(op, t, N, A, S), T = After(op, t, A, S),
           ~ (op = "copy" /\ t = "runs")
    PROVE  Takes(x, S, T)
BY DEF Takes

LEMMA TakesSees ==
    ASSUME NEW x, NEW S, NEW T, Takes(x, S, T),
           NEW c, NEW d, Sees(c, S), Executes(c, x, d)
    PROVE  Sees(d, T)
<1>1. PICK op, t, N, A :
        /\ Is(x, op, t, N, A) /\ Ready(op, t, N, A, S) /\ T = After(op, t, A, S)
        /\ ~ (op = "copy" /\ t = "runs")
  BY Zenon DEF Takes
<1>2. Sees(d, After(op, t, A, S))
  BY <1>1, StatementSees
<1>. QED BY <1>1, <1>2

Six(unit, x1, x2, x3, x4, x5, x6) == unit = <<x1, x2, x3, x4, x5, x6>>

LEMMA SixRun ==
    ASSUME NEW unit, NEW x1, NEW x2, NEW x3, NEW x4, NEW x5, NEW x6,
           Six(unit, x1, x2, x3, x4, x5, x6),
           NEW d, NEW sch, NEW rs, NEW fk, Opens(d, unit, sch, rs, fk)
    PROVE  \E c0, c1, c2, c3, c4, c5 :
              /\ c0 = Connection(sch, rs, fk)
              /\ Executes(c0, x1, c1) /\ Executes(c1, x2, c2) /\ Executes(c2, x3, c3)
              /\ Executes(c3, x4, c4) /\ Executes(c4, x5, c5) /\ Executes(c5, x6, d)
<1>1. /\ DOMAIN unit = 1 .. 6 /\ unit[1] = x1 /\ unit[2] = x2 /\ unit[3] = x3
      /\ unit[4] = x4 /\ unit[5] = x5 /\ unit[6] = x6
  BY DEF Six
<1>2. PICK c0, c1, c2, c3, c4, c5, c6 :
         /\ c0 = Connection(sch, rs, fk)
         /\ c1 = Execute(c0, x1) /\ c2 = Execute(c1, x2) /\ c3 = Execute(c2, x3)
         /\ c4 = Execute(c3, x4) /\ c5 = Execute(c4, x5) /\ c6 = Execute(c5, x6)
  OBVIOUS
<1>3. d = c6
  BY <1>1, <1>2, RunOfSix DEF Opens
<1>. QED BY <1>2, <1>3 DEF Executes

LEMMA SixLeads ==
    ASSUME NEW unit, NEW x1, NEW x2, NEW x3, NEW x4, NEW x5, NEW x6,
           Six(unit, x1, x2, x3, x4, x5, x6),
           NEW S0, NEW S1, NEW S2, NEW S3, NEW S4, NEW S5, NEW S6,
           Takes(x1, S0, S1), Takes(x2, S1, S2), Takes(x3, S2, S3),
           Takes(x4, S3, S4), Takes(x5, S4, S5), Takes(x6, S5, S6)
    PROVE  Leads(unit, S0, S6)
<1>. SUFFICES ASSUME NEW rs, NEW fk, NEW d, Opens(d, unit, Of(S0), rs, fk)
              PROVE  d.ok /\ d.schema = Of(S6)
  BY DEF Leads
<1>1. PICK c0, c1, c2, c3, c4, c5 :
              /\ c0 = Connection(Of(S0), rs, fk)
              /\ Executes(c0, x1, c1) /\ Executes(c1, x2, c2) /\ Executes(c2, x3, c3)
              /\ Executes(c3, x4, c4) /\ Executes(c4, x5, c5) /\ Executes(c5, x6, d)
  BY SixRun
<1>2. Sees(c0, S0)
  BY <1>1, Opened
<1>3. Sees(c1, S1)
  BY <1>1, <1>2, TakesSees
<1>4. Sees(c2, S2)
  BY <1>1, <1>3, TakesSees
<1>5. Sees(c3, S3)
  BY <1>1, <1>4, TakesSees
<1>6. Sees(c4, S4)
  BY <1>1, <1>5, TakesSees
<1>7. Sees(c5, S5)
  BY <1>1, <1>6, TakesSees
<1>8. Sees(d, S6)
  BY <1>1, <1>7, TakesSees
<1>. QED BY <1>8 DEF Sees

LEMMA Script9 ==
    /\ Len(MigrationFiles[9]) = 3
    /\ Single(MigrationFiles[9][1], "off", "", {}, {})
    /\ Single(MigrationFiles[9][3], "on", "", {}, {})
    /\ \E x1, x2, x3, x4, x5, x6 :
          /\ Six(MigrationFiles[9][2], x1, x2, x3, x4, x5, x6)
          /\ Is(x1, "add", "scripts_new", {}, {45, 46})
          /\ Is(x2, "add", "scripts_new", {45}, {49})
          /\ Is(x3, "copy", "scripts", {1, 3, 45}, {})
          /\ Is(x4, "drop", "scripts", {1}, {})
          /\ Is(x5, "rename", "scripts", {45}, {1})
          /\ Is(x6, "add", "scripts", {1}, {2})
<1>1. /\ Len(MigrationFiles[9]) = 3
      /\ MigrationFiles[9][1] = ForeignKeys("off") /\ MigrationFiles[9][3] = ForeignKeys("on")
      /\ MigrationFiles[9][2] = CreateTable("scripts_new", {"description"})
           \o CreateIndex("scripts_new", "scripts_name_new", {})
           \o CopyRows("scripts", {"description"})
           \o DropTable("scripts")
           \o RenameNew("scripts")
           \o CreateIndex("scripts", "scripts_name", {})
  BY DEF MigrationFiles, v009_no_bash
<1>2. PICK x1 : CreateTable("scripts_new", {"description"}) = <<x1>> /\ Is(x1, "add", "scripts_new", {}, {45, 46})
  <2>1. Single(CreateTable("scripts_new", {"description"}), "add", "scripts_new", {}, {45, 46})
    BY NewTables
  <2>. QED BY <2>1, Zenon DEF Single
<1>3. PICK x2 : CreateIndex("scripts_new", "scripts_name_new", {}) = <<x2>> /\ Is(x2, "add", "scripts_new", {45}, {49})
  <2>1. Single(CreateIndex("scripts_new", "scripts_name_new", {}), "add", "scripts_new", {45}, {49})
    BY MadeIs, IndexUnit
  <2>. QED BY <2>1, Zenon DEF Single
<1>4. PICK x3 : CopyRows("scripts", {"description"}) = <<x3>> /\ Is(x3, "copy", "scripts", {1, 3, 45}, {})
  <2>1. Single(CopyRows("scripts", {"description"}), "copy", "scripts", {1, 3, 45}, {})
    BY Copies
  <2>. QED BY <2>1, Zenon DEF Single
<1>5. PICK x4 : DropTable("scripts") = <<x4>> /\ Is(x4, "drop", "scripts", {1}, {})
  <2>1. Single(DropTable("scripts"), "drop", "scripts", {1}, {})
    BY MadeIs, DropUnit
  <2>. QED BY <2>1, Zenon DEF Single
<1>6. PICK x5 : RenameNew("scripts") = <<x5>> /\ Is(x5, "rename", "scripts", {45}, {1})
  <2>1. Single(RenameNew("scripts"), "rename", "scripts", {45}, {1})
    <3>1. New["scripts"] = "scripts_new"
      BY DEF New
    <3>. QED BY <3>1, MadeIs, RenameUnit
  <2>. QED BY <2>1, Zenon DEF Single
<1>7. PICK x6 : CreateIndex("scripts", "scripts_name", {}) = <<x6>> /\ Is(x6, "add", "scripts", {1}, {2})
  <2>1. Single(CreateIndex("scripts", "scripts_name", {}), "add", "scripts", {1}, {2})
    BY MadeIs, IndexUnit
  <2>. QED BY <2>1, Zenon DEF Single
<1>8. Chain(MigrationFiles[9][2], x1, x2, x3, x4, x5, x6)
  BY <1>1, <1>2, <1>3, <1>4, <1>5, <1>6, <1>7, Zenon DEF Chain
<1>9. Six(MigrationFiles[9][2], x1, x2, x3, x4, x5, x6)
  BY <1>8, SixStatements DEF Six
<1>10. Single(ForeignKeys("off"), "off", "", {}, {}) /\ Single(ForeignKeys("on"), "on", "", {}, {})
  BY ForeignKeysUnit
<1>. QED BY <1>1, <1>2, <1>3, <1>4, <1>5, <1>6, <1>7, <1>9, <1>10, Zenon

LEMMA Script14 ==
    /\ Len(MigrationFiles[14]) = 3
    /\ Single(MigrationFiles[14][1], "off", "", {}, {})
    /\ Single(MigrationFiles[14][3], "on", "", {}, {})
    /\ \E x1, x2, x3, x4, x5, x6 :
          /\ Six(MigrationFiles[14][2], x1, x2, x3, x4, x5, x6)
          /\ Is(x1, "add", "scripts_new", {}, 45 .. 48)
          /\ Is(x2, "copy", "scripts", {1, 3, 23, 44, 45}, {})
          /\ Is(x3, "drop", "scripts", {1}, {})
          /\ Is(x4, "rename", "scripts", {45}, {1})
          /\ Is(x5, "add", "scripts", {1}, {2})
          /\ Is(x6, "add", "scripts", {1, 23}, {24})
<1>1. /\ Len(MigrationFiles[14]) = 3
      /\ MigrationFiles[14][1] = ForeignKeys("off") /\ MigrationFiles[14][3] = ForeignKeys("on")
      /\ MigrationFiles[14][2] = CreateTable("scripts_new", {"description", "user_id", "entrypoint"})
           \o CopyRows("scripts", {"description", "user_id", "entrypoint"})
           \o DropTable("scripts")
           \o RenameNew("scripts")
           \o CreateIndex("scripts", "scripts_name", {})
           \o CreateIndex("scripts", "scripts_user", {"user_id"})
  BY DEF MigrationFiles, v014_bash_language
<1>2. PICK x1 : CreateTable("scripts_new", {"description", "user_id", "entrypoint"}) = <<x1>> /\ Is(x1, "add", "scripts_new", {}, 45 .. 48)
  <2>1. Single(CreateTable("scripts_new", {"description", "user_id", "entrypoint"}), "add", "scripts_new", {}, 45 .. 48)
    BY NewTables
  <2>. QED BY <2>1, Zenon DEF Single
<1>3. PICK x2 : CopyRows("scripts", {"description", "user_id", "entrypoint"}) = <<x2>> /\ Is(x2, "copy", "scripts", {1, 3, 23, 44, 45}, {})
  <2>1. Single(CopyRows("scripts", {"description", "user_id", "entrypoint"}), "copy", "scripts", {1, 3, 23, 44, 45}, {})
    BY Copies
  <2>. QED BY <2>1, Zenon DEF Single
<1>4. PICK x3 : DropTable("scripts") = <<x3>> /\ Is(x3, "drop", "scripts", {1}, {})
  <2>1. Single(DropTable("scripts"), "drop", "scripts", {1}, {})
    BY MadeIs, DropUnit
  <2>. QED BY <2>1, Zenon DEF Single
<1>5. PICK x4 : RenameNew("scripts") = <<x4>> /\ Is(x4, "rename", "scripts", {45}, {1})
  <2>1. Single(RenameNew("scripts"), "rename", "scripts", {45}, {1})
    <3>1. New["scripts"] = "scripts_new"
      BY DEF New
    <3>. QED BY <3>1, MadeIs, RenameUnit
  <2>. QED BY <2>1, Zenon DEF Single
<1>6. PICK x5 : CreateIndex("scripts", "scripts_name", {}) = <<x5>> /\ Is(x5, "add", "scripts", {1}, {2})
  <2>1. Single(CreateIndex("scripts", "scripts_name", {}), "add", "scripts", {1}, {2})
    BY MadeIs, IndexUnit
  <2>. QED BY <2>1, Zenon DEF Single
<1>7. PICK x6 : CreateIndex("scripts", "scripts_user", {"user_id"}) = <<x6>> /\ Is(x6, "add", "scripts", {1, 23}, {24})
  <2>1. Single(CreateIndex("scripts", "scripts_user", {"user_id"}), "add", "scripts", {1, 23}, {24})
    <3>1. Made[1] = Table("scripts") /\ Made[23] = Column("scripts", "user_id") /\ Made[24] = Index("scripts", "scripts_user")
      BY MadeIs
    <3>. QED BY <3>1, IndexOnUnit
  <2>. QED BY <2>1, Zenon DEF Single
<1>8. Chain(MigrationFiles[14][2], x1, x2, x3, x4, x5, x6)
  BY <1>1, <1>2, <1>3, <1>4, <1>5, <1>6, <1>7, Zenon DEF Chain
<1>9. Six(MigrationFiles[14][2], x1, x2, x3, x4, x5, x6)
  BY <1>8, SixStatements DEF Six
<1>10. Single(ForeignKeys("off"), "off", "", {}, {}) /\ Single(ForeignKeys("on"), "on", "", {}, {})
  BY ForeignKeysUnit
<1>. QED BY <1>1, <1>2, <1>3, <1>4, <1>5, <1>6, <1>7, <1>9, <1>10, Zenon


LEMMA SwitchLeads ==
    ASSUME NEW unit, NEW to \in {"on", "off"}, Single(unit, to, "", {}, {}),
           NEW S \in SUBSET (1 .. 49)
    PROVE  Leads(unit, S, S)
<1>1. Ready(to, "", {}, {}, S) /\ S = After(to, "", {}, S)
  BY DEF Ready, After
<1>. QED BY <1>1, SingleLeads

LEMMA Stages9 ==
    /\ Stage(9, 0) = 1 .. 21 /\ Stage(9, 1) = 1 .. 21
    /\ Stage(9, 2) = 1 .. 22 /\ Stage(9, 3) = 1 .. 22
BY DEF Stage, Latest, Gone, Grown, Before

\* 009 goes on as a whole, but cannot be run again: its second index has kept the
\* name that its own has.
LEMMA Onward9 ==
    /\ Onward(9)
    /\ \A k \in 0 .. 3 : Leads(MigrationFiles[9][1], Stage(9, k), Stage(9, k))
    /\ \A k \in 2 .. 3 : Defeats(MigrationFiles[9][2], Stage(9, k))
<1>1. PICK x1, x2, x3, x4, x5, x6 :
          /\ Six(MigrationFiles[9][2], x1, x2, x3, x4, x5, x6)
          /\ Is(x1, "add", "scripts_new", {}, {45, 46})
          /\ Is(x2, "add", "scripts_new", {45}, {49})
          /\ Is(x3, "copy", "scripts", {1, 3, 45}, {})
          /\ Is(x4, "drop", "scripts", {1}, {})
          /\ Is(x5, "rename", "scripts", {45}, {1})
          /\ Is(x6, "add", "scripts", {1}, {2})
  BY Script9, Zenon
<1>2. PICK S1, S2, S4, S5 :
         /\ S1 = (1 .. 21) \cup {45, 46} /\ S2 = S1 \cup {49}
         /\ S4 = (4 .. 21) \cup {45, 46, 49} /\ S5 = (1 .. 22) \ {2}
  OBVIOUS
<1>3. Takes(x1, 1 .. 21, S1)
  <2>1. Ready("add", "scripts_new", {}, {45, 46}, 1 .. 21)
    BY DEF Ready, Known
  <2>2. S1 = After("add", "scripts_new", {45, 46}, 1 .. 21)
    BY <1>2 DEF After
  <2>. QED BY <1>1, <2>1, <2>2, TakesIt
<1>4. Takes(x2, S1, S2)
  <2>1. Ready("add", "scripts_new", {45}, {49}, S1)
    BY <1>2 DEF Ready, Known
  <2>2. S2 = After("add", "scripts_new", {49}, S1)
    BY <1>2 DEF After
  <2>. QED BY <1>1, <2>1, <2>2, TakesIt
<1>5. Takes(x3, S2, S2)
  <2>1. Ready("copy", "scripts", {1, 3, 45}, {}, S2)
    BY <1>2 DEF Ready
  <2>2. S2 = After("copy", "scripts", {}, S2)
    BY DEF After
  <2>. QED BY <1>1, <2>1, <2>2, TakesIt
<1>6. Takes(x4, S2, S4)
  <2>1. Ready("drop", "scripts", {1}, {}, S2)
    BY <1>2 DEF Ready
  <2>2. S4 = After("drop", "scripts", {}, S2)
    BY <1>2 DEF After, OfTable, OfScripts
  <2>. QED BY <1>1, <2>1, <2>2, TakesIt
<1>7. Takes(x5, S4, S5)
  <2>1. Ready("rename", "scripts", {45}, {1}, S4)
    BY <1>2 DEF Ready, Known
  <2>2. AllBack(S4) = S5
    <3>1. ASSUME NEW i \in S4 PROVE Back(i) \in S5
      BY <1>2 DEF Back
    <3>2. ASSUME NEW j \in S5 PROVE \E i \in S4 : j = Back(i)
      <4>1. CASE j = 1 \/ j = 3 \/ j = 22
        <5>1. /\ 45 \in S4 /\ Back(45) = 1 /\ 46 \in S4 /\ Back(46) = 3
              /\ 49 \in S4 /\ Back(49) = 22
          BY <1>2 DEF Back
        <5>. QED BY <4>1, <5>1
      <4>2. CASE j \in 4 .. 21
        <5>1. j \in S4 /\ Back(j) = j
          BY <1>2, <4>2 DEF Back
        <5>. QED BY <5>1
      <4>. QED BY <1>2, <4>1, <4>2
    <3>. HIDE DEF Back
    <3>. QED BY <3>1, <3>2 DEF AllBack
  <2>3. S5 = After("rename", "scripts", {1}, S4)
    BY <2>2 DEF After
  <2>. QED BY <1>1, <2>1, <2>3, TakesIt
<1>8. Takes(x6, S5, 1 .. 22)
  <2>1. Ready("add", "scripts", {1}, {2}, S5)
    BY <1>2 DEF Ready, Known
  <2>2. 1 .. 22 = After("add", "scripts", {2}, S5)
    BY <1>2 DEF After
  <2>. QED BY <1>1, <2>1, <2>2, TakesIt
<1>9. Leads(MigrationFiles[9][2], 1 .. 21, 1 .. 22)
  BY <1>1, <1>3, <1>4, <1>5, <1>6, <1>7, <1>8, SixLeads
<1>10. \A S \in SUBSET (1 .. 49) :
          Leads(MigrationFiles[9][1], S, S) /\ Leads(MigrationFiles[9][3], S, S)
  BY Script9, SwitchLeads
<1>11. ASSUME NEW rs, NEW fk, NEW d, Opens(d, MigrationFiles[9][2], Of(1 .. 22), rs, fk), d.ok
       PROVE  FALSE
  <2>1. PICK c0, c1, c2, c3, c4, c5 :
              /\ c0 = Connection(Of(1 .. 22), rs, fk)
              /\ Executes(c0, x1, c1) /\ Executes(c1, x2, c2) /\ Executes(c2, x3, c3)
              /\ Executes(c3, x4, c4) /\ Executes(c4, x5, c5) /\ Executes(c5, x6, d)
    BY <1>1, <1>11, SixRun
  <2>2. Sees(c0, 1 .. 22)
    BY <2>1, Opened
  <2>3. Sees(c1, (1 .. 22) \cup {45, 46})
    <3>1. Ready("add", "scripts_new", {}, {45, 46}, 1 .. 22)
      BY DEF Ready, Known
    <3>2. (1 .. 22) \cup {45, 46} = After("add", "scripts_new", {45, 46}, 1 .. 22)
      BY DEF After
    <3>3. Takes(x1, 1 .. 22, (1 .. 22) \cup {45, 46})
      BY <1>1, <3>1, <3>2, TakesIt
    <3>. QED BY <2>1, <2>2, <3>3, TakesSees
  <2>4. ASSUME NEW c, NEW s, NEW e, Executes(c, s, e), Conn(c)
        PROVE  Conn(e) /\ (e.ok => c.ok /\ Works(s, c))
    BY <2>4, ConnStays, Executed DEF Executes
  <2>5. Conn(c1)
    BY <2>3 DEF Sees
  <2>6. Conn(c2)
    BY <2>1, <2>4, <2>5
  <2>7. Conn(c3)
    BY <2>1, <2>4, <2>6
  <2>8. Conn(c4)
    BY <2>1, <2>4, <2>7
  <2>9. Conn(c5)
    BY <2>1, <2>4, <2>8
  <2>10. c5.ok
    BY <1>11, <2>1, <2>4, <2>9
  <2>11. c4.ok
    BY <2>1, <2>4, <2>8, <2>10
  <2>12. c3.ok
    BY <2>1, <2>4, <2>7, <2>11
  <2>13. c2.ok
    BY <2>1, <2>4, <2>6, <2>12
  <2>14. Works(x2, c1)
    BY <2>1, <2>4, <2>5, <2>13
  <2>15. Made[49] \in x2.adds /\ Made[22] \in c1.schema
    BY <1>1, <2>3 DEF Is, Sees, Of
  <2>16. ~ Clashes(Made[49], Made[22])
    BY <2>14, <2>15 DEF Works
  <2>17. Clashes(Index("scripts_new", "scripts_name_new"), Index("scripts", "scripts_name_new"))
    BY DEF Clashes, Index
  <2>. QED BY <2>16, <2>17, MadeIs
<1>12. Defeats(MigrationFiles[9][2], 1 .. 22)
  BY <1>11 DEF Defeats
<1>13. Onward(9)
  <2>1. /\ Leads(MigrationFiles[9][1], Stage(9, 0), Stage(9, 1))
        /\ Leads(MigrationFiles[9][2], Stage(9, 1), Stage(9, 2))
        /\ Leads(MigrationFiles[9][3], Stage(9, 2), Stage(9, 3))
    BY <1>9, <1>10, Stages9
  <2>2. \A k \in 1 .. 3 : Leads(MigrationFiles[9][k], Stage(9, k - 1), Stage(9, k))
    BY <2>1
  <2>3. Len(MigrationFiles[9]) = 3
    BY Script9
  <2>. QED BY <2>2, <2>3, Mostly DEF Onward
<1>14. \A k \in 0 .. 3 : Leads(MigrationFiles[9][1], Stage(9, k), Stage(9, k))
  BY <1>10, Stages9
<1>15. \A k \in 2 .. 3 : Defeats(MigrationFiles[9][2], Stage(9, k))
  BY <1>12, Stages9
<1>. QED BY <1>13, <1>14, <1>15

\* 014 loses idx_scripts_name_new, and can be run again when it has.
LEMMA Rebuilt14 ==
    ASSUME NEW S \in {(1 .. 44) \ ({7, 8, 18, 20} \cup 36 .. 40),
                      (1 .. 44) \ ({7, 8, 18, 20, 22} \cup 36 .. 40)}
    PROVE  Leads(MigrationFiles[14][2], S, (1 .. 44) \ ({7, 8, 18, 20, 22} \cup 36 .. 40))
<1>1. PICK x1, x2, x3, x4, x5, x6 :
          /\ Six(MigrationFiles[14][2], x1, x2, x3, x4, x5, x6)
          /\ Is(x1, "add", "scripts_new", {}, 45 .. 48)
          /\ Is(x2, "copy", "scripts", {1, 3, 23, 44, 45}, {})
          /\ Is(x3, "drop", "scripts", {1}, {})
          /\ Is(x4, "rename", "scripts", {45}, {1})
          /\ Is(x5, "add", "scripts", {1}, {2})
          /\ Is(x6, "add", "scripts", {1, 23}, {24})
  BY Script14, Zenon
<1>2. PICK T : T = (1 .. 44) \ ({7, 8, 18, 20, 22} \cup 36 .. 40)
  OBVIOUS
<1>3. PICK S1, S3, S4, S5 :
         /\ S1 = S \cup 45 .. 48
         /\ S3 = (T \ {1, 2, 3, 23, 24, 44}) \cup 45 .. 48
         /\ S4 = T \ {2, 24} /\ S5 = T \ {24}
  OBVIOUS
<1>4. Takes(x1, S, S1)
  <2>1. Ready("add", "scripts_new", {}, 45 .. 48, S)
    BY DEF Ready, Known
  <2>2. S1 = After("add", "scripts_new", 45 .. 48, S)
    BY <1>3, <1>2 DEF After
  <2>. QED BY <1>1, <2>1, <2>2, TakesIt
<1>5. Takes(x2, S1, S1)
  <2>1. Ready("copy", "scripts", {1, 3, 23, 44, 45}, {}, S1)
    BY <1>3, <1>2 DEF Ready
  <2>2. S1 = After("copy", "scripts", {}, S1)
    BY DEF After
  <2>. QED BY <1>1, <2>1, <2>2, TakesIt
<1>6. Takes(x3, S1, S3)
  <2>1. Ready("drop", "scripts", {1}, {}, S1)
    BY <1>3, <1>2 DEF Ready
  <2>2. S3 = S1 \ OfScripts
    BY <1>3, <1>2 DEF OfScripts
  <2>3. S3 = After("drop", "scripts", {}, S1)
    BY <2>2 DEF After, OfTable
  <2>. QED BY <1>1, <2>1, <2>3, TakesIt
<1>7. Takes(x4, S3, S4)
  <2>1. Ready("rename", "scripts", {45}, {1}, S3)
    BY <1>3, <1>2 DEF Ready, Known
  <2>2. AllBack(S3) = S4
    <3>1. ASSUME NEW i \in S3 PROVE Back(i) \in S4
      BY <1>3, <1>2 DEF Back
    <3>2. ASSUME NEW j \in S4 PROVE \E i \in S3 : j = Back(i)
      <4>1. CASE j \in {1, 3, 23, 44}
        <5>1. /\ 45 \in S3 /\ Back(45) = 1 /\ 46 \in S3 /\ Back(46) = 3
              /\ 47 \in S3 /\ Back(47) = 23 /\ 48 \in S3 /\ Back(48) = 44
          BY <1>3, <1>2 DEF Back
        <5>. QED BY <4>1, <5>1
      <4>2. CASE j \notin {1, 3, 23, 44}
        <5>1. j \in S3 /\ Back(j) = j
          BY <1>3, <1>2, <4>2 DEF Back
        <5>. QED BY <5>1
      <4>. QED BY <4>1, <4>2
    <3>. HIDE DEF Back
    <3>. QED BY <3>1, <3>2 DEF AllBack
  <2>3. S4 = After("rename", "scripts", {1}, S3)
    BY <2>2 DEF After
  <2>. QED BY <1>1, <2>1, <2>3, TakesIt
<1>8. Takes(x5, S4, S5)
  <2>1. Ready("add", "scripts", {1}, {2}, S4)
    BY <1>3, <1>2 DEF Ready, Known
  <2>2. S5 = After("add", "scripts", {2}, S4)
    BY <1>3, <1>2 DEF After
  <2>. QED BY <1>1, <2>1, <2>2, TakesIt
<1>9. Takes(x6, S5, T)
  <2>1. Ready("add", "scripts", {1, 23}, {24}, S5)
    BY <1>3, <1>2 DEF Ready, Known
  <2>2. T = After("add", "scripts", {24}, S5)
    BY <1>3, <1>2 DEF After
  <2>. QED BY <1>1, <2>1, <2>2, TakesIt
<1>10. Leads(MigrationFiles[14][2], S, T)
  BY <1>1, <1>4, <1>5, <1>6, <1>7, <1>8, <1>9, SixLeads
<1>. QED BY <1>10, <1>2

LEMMA Stages14 ==
    /\ Stage(14, 0) = (1 .. 44) \ ({7, 8, 18, 20} \cup 36 .. 40)
    /\ Stage(14, 1) = (1 .. 44) \ ({7, 8, 18, 20} \cup 36 .. 40)
    /\ Stage(14, 2) = (1 .. 44) \ ({7, 8, 18, 20, 22} \cup 36 .. 40)
    /\ Stage(14, 3) = (1 .. 44) \ ({7, 8, 18, 20, 22} \cup 36 .. 40)
BY DEF Stage, Latest, Gone, Grown, Before

LEMMA Onward14 ==
    /\ Onward(14)
    /\ \A k \in 0 .. 3 :
          /\ Leads(MigrationFiles[14][1], Stage(14, k), Stage(14, k))
          /\ Leads(MigrationFiles[14][2], Stage(14, k), Stage(14, 2))
<1>1. \A S \in SUBSET (1 .. 49) :
          Leads(MigrationFiles[14][1], S, S) /\ Leads(MigrationFiles[14][3], S, S)
  BY Script14, SwitchLeads
<1>2. \A k \in 0 .. 3 : Leads(MigrationFiles[14][2], Stage(14, k), Stage(14, 2))
  BY Stages14, Rebuilt14
<1>3. \A k \in 0 .. 3 : Leads(MigrationFiles[14][1], Stage(14, k), Stage(14, k))
  BY <1>1, Stages14
<1>4. Onward(14)
  <2>1. /\ Leads(MigrationFiles[14][1], Stage(14, 0), Stage(14, 1))
        /\ Leads(MigrationFiles[14][2], Stage(14, 1), Stage(14, 2))
        /\ Leads(MigrationFiles[14][3], Stage(14, 2), Stage(14, 3))
    BY <1>1, <1>2, Stages14
  <2>2. \A k \in 1 .. 3 : Leads(MigrationFiles[14][k], Stage(14, k - 1), Stage(14, k))
    BY <2>1
  <2>3. Len(MigrationFiles[14]) = 3
    BY Script14
  <2>. QED BY <2>2, <2>3, Mostly DEF Onward
<1>. QED BY <1>2, <1>3, <1>4

-----------------------------------------------------------------------------
(* The schema of a new install.                                            *)

LEMMA Lengths ==
    /\ Len(MigrationFiles[1]) = 2 /\ Len(MigrationFiles[2]) = 1
    /\ Len(MigrationFiles[3]) = 2 /\ Len(MigrationFiles[4]) = 3
    /\ Len(MigrationFiles[5]) = 2 /\ Len(MigrationFiles[6]) = 1
    /\ Len(MigrationFiles[7]) = 6 /\ Len(MigrationFiles[8]) = 4
    /\ Len(MigrationFiles[9]) = 3 /\ Len(MigrationFiles[10]) = 3
    /\ Len(MigrationFiles[11]) = 18 /\ Len(MigrationFiles[12]) = 1
    /\ Len(MigrationFiles[13]) = 4 /\ Len(MigrationFiles[14]) = 3
<1>1. Len(MigrationFiles[1]) = 2 /\ Len(MigrationFiles[2]) = 1 /\ Len(MigrationFiles[3]) = 2
  BY Script1, Script2, Script3, Zenon
<1>2. Len(MigrationFiles[4]) = 3 /\ Len(MigrationFiles[5]) = 2 /\ Len(MigrationFiles[6]) = 1
  BY Script4, Script5, Script6, Zenon
<1>3. Len(MigrationFiles[7]) = 6 /\ Len(MigrationFiles[8]) = 4 /\ Len(MigrationFiles[9]) = 3
  BY Script7, Script8, Script9, Zenon
<1>4. Len(MigrationFiles[10]) = 3 /\ Len(MigrationFiles[11]) = 18 /\ Len(MigrationFiles[12]) = 1
  BY Script10, Script11, Script12, Zenon
<1>5. Len(MigrationFiles[13]) = 4 /\ Len(MigrationFiles[14]) = 3
  BY Script13, Script14, Zenon
<1>. QED BY <1>1, <1>2, <1>3, <1>4, <1>5

LEMMA SomeUnits ==
    \A n \in 1 .. 14 :
        /\ Len(MigrationFiles[n]) \in Nat \ {0}
        /\ n \in {9, 14} => Len(MigrationFiles[n]) = 3
<1>. DEFINE Good(n) == /\ Len(MigrationFiles[n]) \in Nat \ {0}
                       /\ n \in {9, 14} => Len(MigrationFiles[n]) = 3
<1>1. Good(1) /\ Good(2) /\ Good(3) /\ Good(4) /\ Good(5) /\ Good(6) /\ Good(7)
  BY Lengths
<1>2. Good(8) /\ Good(9) /\ Good(10) /\ Good(11) /\ Good(12) /\ Good(13) /\ Good(14)
  BY Lengths
<1>3. \A n \in 1 .. 14 : Good(n)
  <2>. HIDE DEF Good
  <2>. QED BY <1>1, <1>2
<1>. QED BY <1>3

LEMMA AllOnward == \A n \in 1 .. 14 : Onward(n)
BY Onward1, Onward2, Onward3, Onward4, Onward5, Onward6, Onward7, Onward8, Onward9,
   Onward10, Onward11, Onward12, Onward13, Onward14

LEMMA AllOnce == \A n \in (1 .. 14) \ {9, 12, 14} : Once(n)
BY Onward1, Onward2, Onward3, Onward4, Onward5, Onward6, Onward7, Onward8,
   Onward10, Onward11, Onward13

\* Where a script ends, the next begins.
Meets(n) == Stage(n, Len(MigrationFiles[n])) = Stage(n + 1, 0)

LEMMA StagesMeet == \A n \in 1 .. 13 : Meets(n)
<1>1. /\ Stage(1, 2) = Stage(2, 0) /\ Stage(2, 1) = Stage(3, 0) /\ Stage(3, 2) = Stage(4, 0)
      /\ Stage(4, 3) = Stage(5, 0) /\ Stage(5, 2) = Stage(6, 0) /\ Stage(6, 1) = Stage(7, 0)
      /\ Stage(7, 6) = Stage(8, 0) /\ Stage(8, 4) = Stage(9, 0) /\ Stage(9, 3) = Stage(10, 0)
      /\ Stage(10, 3) = Stage(11, 0)
  BY DEF Stage, Latest, Gone, Grown, Before
<1>2. /\ Stage(11, 18) = Stage(12, 0) /\ Stage(12, 1) = Stage(13, 0)
      /\ Stage(13, 4) = Stage(14, 0)
  BY DEF Stage, Latest, Gone, Grown, Before
<1>3. /\ Meets(1) /\ Meets(2) /\ Meets(3) /\ Meets(4) /\ Meets(5) /\ Meets(6) /\ Meets(7)
      /\ Meets(8) /\ Meets(9) /\ Meets(10) /\ Meets(11) /\ Meets(12) /\ Meets(13)
  BY <1>1, <1>2, Lengths DEF Meets
<1>. QED BY <1>3

LEMMA UpgradedIs ==
    ASSUME NEW n \in 1 .. 14
    PROVE  Upgraded(Of(Stage(n, 0)), MigrationFiles[n]) = Of(Stage(n, Len(MigrationFiles[n])))
<1>. DEFINE L == Len(MigrationFiles[n])
            Next1(f) == [k \in 0 .. L |->
                          IF k = 0 THEN Of(Stage(n, 0))
                          ELSE Run(Connection(f[k - 1], {}, FALSE), MigrationFiles[n][k]).schema]
            made == CHOOSE f : f = Next1(f)
            w == [k \in 0 .. L |-> Of(Stage(n, k))]
<1>1. L \in 1 .. 18
  BY Lengths
<1>2. ASSUME NEW k \in 1 .. L
      PROVE  Run(Connection(Of(Stage(n, k - 1)), {}, FALSE), MigrationFiles[n][k]).schema
               = Of(Stage(n, k))
  <2>1. LeadsMostly(MigrationFiles[n][k], Stage(n, k - 1), Stage(n, k))
    BY AllOnward DEF Onward
  <2>. QED BY <2>1 DEF LeadsMostly, Opens
<1>3. Upgraded(Of(Stage(n, 0)), MigrationFiles[n]) = made[L]
  BY DEF Upgraded
<1>4. w = Next1(w)
  <2>1. ASSUME NEW k \in 0 .. L PROVE w[k] = Next1(w)[k]
    <3>1. CASE k = 0
      BY <3>1
    <3>2. CASE k \in 1 .. L
      <4>1. w[k - 1] = Of(Stage(n, k - 1)) /\ w[k] = Of(Stage(n, k))
        BY <3>2, <1>1
      <4>2. Next1(w)[k] = Run(Connection(w[k - 1], {}, FALSE), MigrationFiles[n][k]).schema
        <5>. HIDE DEF w
        <5>. QED BY <3>2, <1>1
      <4>. QED BY <3>2, <4>1, <4>2, <1>2
    <3>3. k = 0 \/ k \in 1 .. L
      BY <1>1
    <3>. HIDE DEF w, Next1
    <3>. QED BY <3>1, <3>2, <3>3
  <2>. QED BY <2>1
<1>5. made = Next1(made)
  BY <1>4
<1>. HIDE DEF made
<1>6. made[0] = Of(Stage(n, 0))
  BY <1>1, <1>5
<1>7. ASSUME NEW k \in 1 .. L, made[k - 1] = Of(Stage(n, k - 1))
      PROVE  made[k] = Of(Stage(n, k))
  <2>1. made[k] = Run(Connection(made[k - 1], {}, FALSE), MigrationFiles[n][k]).schema
    BY <1>1, <1>5
  <2>. QED BY <1>2, <1>7, <2>1
<1>. HIDE DEF L
<1>8. /\ made[1] = Of(Stage(n, 1))
      /\ 2 <= L => made[2] = Of(Stage(n, 2))
      /\ 3 <= L => made[3] = Of(Stage(n, 3))
      /\ 4 <= L => made[4] = Of(Stage(n, 4))
      /\ 5 <= L => made[5] = Of(Stage(n, 5))
      /\ 6 <= L => made[6] = Of(Stage(n, 6))
  BY <1>1, <1>6, <1>7
<1>9. /\ 7 <= L => made[7] = Of(Stage(n, 7))
      /\ 8 <= L => made[8] = Of(Stage(n, 8))
      /\ 9 <= L => made[9] = Of(Stage(n, 9))
      /\ 10 <= L => made[10] = Of(Stage(n, 10))
      /\ 11 <= L => made[11] = Of(Stage(n, 11))
      /\ 12 <= L => made[12] = Of(Stage(n, 12))
  BY <1>1, <1>7, <1>8
<1>10. /\ 13 <= L => made[13] = Of(Stage(n, 13))
       /\ 14 <= L => made[14] = Of(Stage(n, 14))
       /\ 15 <= L => made[15] = Of(Stage(n, 15))
       /\ 16 <= L => made[16] = Of(Stage(n, 16))
       /\ 17 <= L => made[17] = Of(Stage(n, 17))
       /\ 18 <= L => made[18] = Of(Stage(n, 18))
  BY <1>1, <1>7, <1>9
<1>11. made[L] = Of(Stage(n, L))
  BY <1>1, <1>8, <1>9, <1>10
<1>. QED BY <1>3, <1>11 DEF L

Reached(v) == IF v = 14 THEN Of(Stage(14, 3)) ELSE Of(Stage(v + 1, 0))

LEMMA ReachedNext ==
    /\ Reached(0) = {}
    /\ \A v \in 1 .. 14 :
          UNION {Upgraded(sch, MigrationFiles[v]) : sch \in {Reached(v - 1)}} = Reached(v)
<1>1. Reached(0) = {}
  BY DEF Reached, Stage, Latest, Before, Gone, Of
<1>2. ASSUME NEW v \in 1 .. 14
      PROVE  UNION {Upgraded(sch, MigrationFiles[v]) : sch \in {Reached(v - 1)}} = Reached(v)
  <2>1. Reached(v - 1) = Of(Stage(v, 0))
    BY DEF Reached
  <2>2. Of(Stage(v, Len(MigrationFiles[v]))) = Reached(v)
    <3>1. CASE v = 14
      BY <3>1, Lengths DEF Reached
    <3>2. CASE v \in 1 .. 13
      <4>1. Meets(v)
        BY <3>2, StagesMeet
      <4>2. v # 14
        BY <3>2
      <4>. QED BY <4>1, <4>2 DEF Reached, Meets
    <3>. QED BY <3>1, <3>2
  <2>3. Upgraded(Reached(v - 1), MigrationFiles[v]) = Reached(v)
    BY <2>1, <2>2, UpgradedIs
  <2>. QED BY <2>3
<1>. QED BY <1>1, <1>2

\* A database made by the scripts up to v.
LEMMA SchemaAtIs == \A v \in 0 .. 14 : SchemaAt[v] = Reached(v)
<1>. DEFINE Next1(f) == [v \in 0 .. Newest |->
                IF v = 0 THEN {}
                ELSE UNION {Upgraded(sch, MigrationFiles[v]) : sch \in {f[v - 1]}}]
            w == [v \in 0 .. Newest |-> Reached(v)]
<1>1. Newest = 14
  BY DEF Newest
<1>2. ASSUME NEW f, NEW v \in 1 .. 14
       PROVE  Next1(f)[v] = UNION {Upgraded(sch, MigrationFiles[v]) : sch \in {f[v - 1]}}
  BY <1>1
<1>3. w = Next1(w)
  <2>1. ASSUME NEW v \in 0 .. Newest PROVE w[v] = Next1(w)[v]
    <3>1. CASE v = 0
      BY <3>1, ReachedNext
    <3>2. CASE v \in 1 .. 14
      <4>1. w[v - 1] = Reached(v - 1) /\ w[v] = Reached(v)
        BY <1>1, <3>2
      <4>2. Next1(w)[v] = UNION {Upgraded(sch, MigrationFiles[v]) : sch \in {w[v - 1]}}
        BY <1>2, <3>2
      <4>. HIDE DEF w, Next1
      <4>. QED BY <3>2, <4>1, <4>2, ReachedNext
    <3>3. v = 0 \/ v \in 1 .. 14
      BY <1>1
    <3>. HIDE DEF w, Next1
    <3>. QED BY <3>1, <3>2, <3>3
  <2>. QED BY <2>1
<1>4. SchemaAt = CHOOSE f : f = Next1(f)
  BY DEF SchemaAt
<1>5. SchemaAt = Next1(SchemaAt)
  <2>. HIDE DEF w, Next1
  <2>. QED BY <1>3, <1>4
<1>6. SchemaAt[0] = {}
  BY <1>1, <1>5
<1>7. ASSUME NEW v \in 1 .. 14, SchemaAt[v - 1] = Reached(v - 1)
      PROVE  SchemaAt[v] = Reached(v)
  <2>1. SchemaAt[v] = UNION {Upgraded(sch, MigrationFiles[v]) : sch \in {SchemaAt[v - 1]}}
    <3>. HIDE DEF Next1
    <3>. QED BY <1>5, <1>2
  <2>. QED BY <1>7, <2>1, ReachedNext
<1>. HIDE DEF Next1, w
<1>. DEFINE Good(v) == SchemaAt[v] = Reached(v)
<1>8. Good(0)
  BY <1>6, ReachedNext
<1>9. \A v \in 1 .. 14 : Good(v - 1) => Good(v)
  BY <1>7
<1>10. \A v \in 0 .. 14 : Good(v)
  <2>. HIDE DEF Good
  <2>1. Good(1) /\ Good(2) /\ Good(3) /\ Good(4) /\ Good(5)
    BY <1>8, <1>9
  <2>2. Good(6) /\ Good(7) /\ Good(8) /\ Good(9) /\ Good(10)
    BY <1>9, <2>1
  <2>3. Good(11) /\ Good(12) /\ Good(13) /\ Good(14)
    BY <1>9, <2>2
  <2>. QED BY <1>8, <2>1, <2>2, <2>3
<1>. QED BY <1>10

-----------------------------------------------------------------------------
(* A process that takes up a script, wherever the one before it left off.  *)

At(sch, n, k) == sch = Of(Stage(n, k))

\* Between two units of the script n.
Among(sch, n) == \E k \in 0 .. Len(MigrationFiles[n]) : At(sch, n, k)

\* The unit k is next, or the script is begun again; 009 and 014 begin with a unit
\* that leaves the schema as it is.
Enters(sch, n, k) ==
    \/ At(sch, n, k - 1)
    \/ k = 1
    \/ n \in {9, 14} /\ k = 2

Advances(n, k, d) == d.ok /\ At(d.schema, n, k)
Passes(n, k, sch, d) ==
    d.ok /\ d.schema = sch /\ n \in {9, 14} /\ k = 1 /\ ~At(sch, n, 0)
Fails(n, k, sch, rs, fk, d) ==
    /\ ~d.ok /\ n \notin {12, 14}
    /\ \/ n = 11 /\ fk /\ "orphans" \in rs
       \/ ~At(sch, n, 0) /\ ~At(sch, n, k - 1)

LEMMA CopyFails ==
    ASSUME NEW unit, NEW N, NEW A, Single(unit, "copy", "runs", N, A),
           NEW d, NEW sch, NEW rs, NEW fk, Opens(d, unit, sch, rs, fk)
    PROVE  fk /\ "orphans" \in rs => ~d.ok
<1>1. PICK c : c = Connection(sch, rs, fk)
  OBVIOUS
<1>2. PICK s : Is(s, "copy", "runs", N, A) /\ Executes(c, s, d)
  BY <1>1, SingleRuns
<1>3. Conn(c) /\ c.rows = rs /\ c.fk = fk
  BY <1>1, Connected
<1>4. fk /\ "orphans" \in rs => ~Works(s, c)
  BY <1>2, <1>3 DEF Is, Works
<1>. QED BY <1>2, <1>3, <1>4, Executed DEF Executes

LEMMA InStepAdvances ==
    ASSUME NEW n \in 1 .. 14, NEW k \in 1 .. Len(MigrationFiles[n]),
           NEW sch, At(sch, n, k - 1), NEW rs, NEW fk, NEW d,
           Opens(d, MigrationFiles[n][k], sch, rs, fk)
    PROVE  Advances(n, k, d) \/ Fails(n, k, sch, rs, fk, d)
<1>1. Onward(n)
  BY AllOnward
<1>2. Opens(d, MigrationFiles[n][k], Of(Stage(n, k - 1)), rs, fk)
  BY DEF At
<1>3. CASE ~(n = 11 /\ k = 13)
  <2>1. Leads(MigrationFiles[n][k], Stage(n, k - 1), Stage(n, k))
    BY <1>1, <1>3 DEF Onward
  <2>. QED BY <1>2, <2>1 DEF Leads, Advances, At
<1>4. CASE n = 11 /\ k = 13 /\ ~(fk /\ "orphans" \in rs)
  <2>1. LeadsMostly(MigrationFiles[n][k], Stage(n, k - 1), Stage(n, k))
    BY <1>1 DEF Onward
  <2>. QED BY <1>2, <1>4, <2>1 DEF LeadsMostly, Advances, At
<1>5. CASE n = 11 /\ k = 13 /\ fk /\ "orphans" \in rs
  <2>1. PICK N, A : Single(MigrationFiles[11][13], "copy", "runs", N, A)
    BY Script11
  <2>2. ~d.ok
    BY <1>5, <2>1, CopyFails, Zenon
  <2>. QED BY <1>5, <2>2 DEF Fails
<1>. QED BY <1>3, <1>4, <1>5

LEMMA BeganAgain ==
    ASSUME NEW n \in 1 .. 14, NEW sch, Among(sch, n), ~At(sch, n, 0),
           NEW rs, NEW fk, NEW d, Opens(d, MigrationFiles[n][1], sch, rs, fk)
    PROVE  Passes(n, 1, sch, d) \/ Fails(n, 1, sch, rs, fk, d)
<1>1. PICK j \in 1 .. Len(MigrationFiles[n]) : At(sch, n, j)
  BY DEF Among
<1>2. Opens(d, MigrationFiles[n][1], Of(Stage(n, j)), rs, fk)
  BY <1>1 DEF At
<1>3. CASE n \notin {9, 12, 14}
  <2>1. Defeats(MigrationFiles[n][1], Stage(n, j))
    BY <1>1, <1>3, AllOnce DEF Once
  <2>2. ~d.ok
    BY <1>2, <2>1 DEF Defeats
  <2>. QED BY <1>3, <2>2 DEF Fails
<1>4. CASE n = 12
  <2>1. j = 1
    BY <1>1, <1>4, Lengths
  <2>2. Stage(12, 1) = Stage(12, 0)
    BY DEF Stage, Latest, Gone, Grown, Before
  <2>. QED BY <1>1, <1>4, <2>1, <2>2 DEF At
<1>5. CASE n \in {9, 14}
  <2>1. j \in 0 .. 3
    <3>1. Len(MigrationFiles[n]) = 3
      BY <1>5, Lengths
    <3>. QED BY <1>1, <3>1
  <2>2. Leads(MigrationFiles[n][1], Stage(n, j), Stage(n, j))
    BY <1>5, <2>1, Onward9, Onward14
  <2>3. d.ok /\ d.schema = sch
    BY <1>1, <1>2, <2>2 DEF Leads, At
  <2>. QED BY <1>5, <2>3 DEF Passes
<1>. QED BY <1>3, <1>4, <1>5

LEMMA UnitStep ==
    ASSUME NEW n \in 1 .. 14, NEW k \in 1 .. Len(MigrationFiles[n]),
           NEW sch, Among(sch, n), Enters(sch, n, k), NEW rs, NEW fk, NEW d,
           Opens(d, MigrationFiles[n][k], sch, rs, fk)
    PROVE  Advances(n, k, d) \/ Passes(n, k, sch, d) \/ Fails(n, k, sch, rs, fk, d)
<1>1. CASE At(sch, n, k - 1)
  BY <1>1, InStepAdvances
<1>2. CASE ~At(sch, n, k - 1) /\ k = 1
  BY <1>2, BeganAgain
<1>. DEFINE Second == ~At(sch, n, 1) /\ k = 2
<1>3. CASE Second /\ n = 9
  <2>1. PICK j \in 0 .. 3 : At(sch, 9, j)
    BY <1>3, Lengths DEF Among
  <2>2. Stage(9, 0) = Stage(9, 1)
    BY Stages9
  <2>3. ~At(sch, 9, 0) /\ ~At(sch, 9, 1)
    BY <1>3, <2>2 DEF At
  <2>4. j \in 2 .. 3
    BY <2>1, <2>3
  <2>5. Defeats(MigrationFiles[9][2], Stage(9, j))
    BY <2>4, Onward9
  <2>6. ~d.ok
    BY <1>3, <2>1, <2>5 DEF Defeats, At
  <2>. QED BY <1>3, <2>3, <2>6 DEF Fails
<1>4. CASE Second /\ n = 14
  <2>1. PICK j \in 0 .. 3 : At(sch, 14, j)
    BY <1>4, Lengths DEF Among
  <2>2. Leads(MigrationFiles[14][2], Stage(14, j), Stage(14, 2))
    BY Onward14
  <2>3. d.ok /\ d.schema = Of(Stage(14, 2))
    BY <1>4, <2>1, <2>2 DEF Leads, At
  <2>. QED BY <1>4, <2>3 DEF Advances, At
<1>5. At(sch, n, k - 1) \/ k = 1 \/ (Second /\ n = 9) \/ (Second /\ n = 14)
  <2>1. k = 2 => k - 1 = 1
    OBVIOUS
  <2>. QED BY <2>1 DEF Enters
<1>. QED BY <1>1, <1>2, <1>3, <1>4, <1>5

-----------------------------------------------------------------------------
(* The schema, as long as no two processes migrate at once: it is at some  *)
(* stage of the first script that is not recorded.  It is at the beginning *)
(* of that script unless a process is in it, at the unit it says, or there *)
(* is a reason that the script may fail.                                   *)

Working(r) == r.pc \in {"create_app", "run_migrations"} /\ r.next <= Newest

\* Foreign keys are on in a pass that has run 009 or 014.
Ahead(r) ==
    /\ r.next > from
    /\ Working(r) => r.unit \in 1 .. Len(MigrationFiles[r.next]) + 1
    /\ r.fk /\ r.next <= 13 => from <= 8

\* What may stand in the way of the script n when it is run.
InTheWay(n) == n = 11 /\ "orphans" \in rows /\ from <= 8
Excused(n) == n \in torn \/ InTheWay(n)

Upto(v) ==
    /\ recorded = 1 .. v
    /\ \A p \in Process : Working(proc[p]) =>
          proc[p].next = v + 1 /\ Enters(schema, v + 1, proc[p].unit)
    /\ v = 14 => At(schema, 14, 3)
    /\ v < 14 =>
          /\ Among(schema, v + 1)
          /\ \/ At(schema, v + 1, 0)
             \/ Excused(v + 1)
             \/ \E p \in Process : Working(proc[p]) /\ At(schema, v + 1, proc[p].unit - 1)

SchemaInv ==
    /\ from \in 0 .. 14 /\ 1 .. from \subseteq recorded
    /\ \A p \in Process : Ahead(proc[p])
    /\ FailsOnlyTorn /\ refused \subseteq 1 .. 14
    /\ overlapped \/ \E v \in 0 .. 14 : Upto(v)

LEMMA PendingWorks == \A p \in Process : Pending(p) <=> Working(proc[p])
BY DEF Pending, Migrating, Working

LEMMA OffRests ==
    /\ ~Working(Off) /\ ~Working([Off EXCEPT !.pc = "serving"])
    /\ from \in 0 .. 14 => Ahead(Off) /\ Ahead([Off EXCEPT !.pc = "serving"])
BY DEF Working, Ahead, Off, Newest

LEMMA PassAhead ==
    ASSUME GapInv, SchemaInv, NEW pc \in {"create_app", "run_migrations"}
    PROVE  /\ Ahead(Pass(pc))
           /\ \A v \in 0 .. 14 : recorded = 1 .. v => Pass(pc).next = v + 1 /\ Pass(pc).unit = 1
<1>1. PICK v \in 0 .. 14 : recorded = 1 .. v
  BY DEF GapInv, NoGaps, Newest
<1>2. Pass(pc) = [pc |-> pc, next |-> v + 1, unit |-> 1, fk |-> FALSE]
  BY <1>1, HighestOfPrefix DEF Pass, Newest
<1>3. v >= from
  <2>1. from = 0 \/ from \in 1 .. v
    BY <1>1 DEF SchemaInv
  <2>. QED BY <2>1, <1>1
<1>4. v + 1 <= 14 => 1 \in 1 .. Len(MigrationFiles[v + 1]) + 1
  BY <1>1, Lengths
<1>5. Ahead(Pass(pc))
  BY <1>1, <1>2, <1>3, <1>4 DEF Ahead, Working, Newest, SchemaInv
<1>6. ASSUME NEW w \in 0 .. 14, recorded = 1 .. w
      PROVE  Pass(pc).next = w + 1 /\ Pass(pc).unit = 1
  BY <1>6, HighestOfPrefix DEF Pass, Newest
<1>. QED BY <1>5, <1>6

\* A process goes to another place; the others stay.
Moves(p, r) ==
    /\ proc' = [proc EXCEPT ![p] = r] /\ from' = from
    /\ recorded \subseteq recorded' /\ (overlapped => overlapped')

LEMMA AheadStays ==
    ASSUME GapInv, SchemaInv, NEW p \in Process, NEW r, Moves(p, r), Ahead(r)
    PROVE  /\ from' \in 0 .. 14 /\ (1 .. from \subseteq recorded)'
           /\ (\A q \in Process : Ahead(proc[q]))'
           /\ proc'[p] = r /\ \A q \in Process \ {p} : proc'[q] = proc[q]
<1>1. proc'[p] = r /\ \A q \in Process \ {p} : proc'[q] = proc[q]
  BY DEF GapInv, Moves
<1>2. from' = from /\ recorded \subseteq recorded' /\ Process' = Process
  BY DEF Moves, Process
<1>3. ASSUME NEW q \in Process PROVE Ahead(proc[q])'
  <2>1. Ahead(proc[q]) /\ Ahead(r)
    BY DEF SchemaInv
  <2>2. proc'[q] = proc[q] \/ proc'[q] = r
    BY <1>1
  <2>. QED BY <1>2, <2>1, <2>2 DEF Ahead, Working
<1>. QED BY <1>1, <1>2, <1>3 DEF SchemaInv

\* A process that is at no script begins a pass or ends one.
LEMMA QuietMoves ==
    ASSUME GapInv, SchemaInv, NEW p \in Process, NEW r, Moves(p, r), ~Working(proc[p]),
           Ahead(r), \A v \in 0 .. 14 :
              Working(r) /\ recorded = 1 .. v => r.next = v + 1 /\ r.unit = 1,
           UNCHANGED <<schema, rows, recorded, refused, torn, overlapped>>
    PROVE  SchemaInv'
<1>1. /\ from' \in 0 .. 14 /\ (1 .. from \subseteq recorded)'
      /\ (\A q \in Process : Ahead(proc[q]))'
      /\ proc'[p] = r /\ \A q \in Process \ {p} : proc'[q] = proc[q]
  BY AheadStays
<1>2. FailsOnlyTorn' /\ refused' \subseteq 1 .. 14
  BY DEF SchemaInv, FailsOnlyTorn, Moves
<1>3. ASSUME NEW v \in 0 .. 14, Upto(v) PROVE Upto(v)'
  <2>1. recorded = 1 .. v /\ recorded' = recorded /\ schema' = schema
    BY <1>3 DEF Upto
  <2>2. ASSUME NEW q \in Process, Working(proc'[q])
        PROVE  proc'[q].next = v + 1 /\ Enters(schema, v + 1, proc'[q].unit)
    <3>1. CASE q = p
      BY <1>1, <2>1, <2>2, <3>1 DEF Enters
    <3>2. CASE q # p
      BY <1>1, <1>3, <2>2, <3>2 DEF Upto
    <3>. QED BY <3>1, <3>2
  <2>3. \A n : Excused(n) => Excused(n)'
    BY DEF Excused, InTheWay, Moves
  <2>4. ASSUME NEW q \in Process, Working(proc[q]), At(schema, v + 1, proc[q].unit - 1)
        PROVE  Working(proc'[q]) /\ At(schema, v + 1, proc'[q].unit - 1)
    <3>1. proc'[q] = proc[q]
      BY <1>1, <2>4
    <3>. QED BY <2>4, <3>1
  <2>5. v < 14 =>
          /\ Among(schema', v + 1)
          /\ \/ At(schema', v + 1, 0)
             \/ Excused(v + 1)'
             \/ \E q \in Process : Working(proc'[q]) /\ At(schema', v + 1, proc'[q].unit - 1)
    BY <1>3, <2>1, <2>3, <2>4 DEF Upto
  <2>6. Process' = Process
    BY DEF Process
  <2>7. /\ recorded' = 1 .. v /\ (v = 14 => At(schema', 14, 3))
        /\ \A q \in Process : Working(proc'[q]) =>
              proc'[q].next = v + 1 /\ Enters(schema', v + 1, proc'[q].unit)
    BY <1>3, <2>1, <2>2 DEF Upto
  <2>. QED BY <2>5, <2>6, <2>7 DEF Upto
<1>4. (overlapped \/ \E v \in 0 .. 14 : Upto(v))'
  BY <1>3 DEF SchemaInv
<1>. QED BY <1>1, <1>2, <1>4 DEF SchemaInv

\* The process dies in its script: the script is torn, or not yet begun.
LEMMA CrashSchema ==
    ASSUME GapInv, SchemaInv, NEW p \in Process, Crash(p)
    PROVE  SchemaInv'
<1>1. Moves(p, Off) /\ Working(proc[p]) /\ UNCHANGED <<schema, rows, recorded, refused, overlapped>>
  BY PendingWorks DEF Crash, Moves
<1>2. /\ from' \in 0 .. 14 /\ (1 .. from \subseteq recorded)'
      /\ (\A q \in Process : Ahead(proc[q]))'
      /\ proc'[p] = Off /\ \A q \in Process \ {p} : proc'[q] = proc[q]
  BY <1>1, OffRests, AheadStays DEF SchemaInv
<1>3. torn \subseteq torn' /\ (proc[p].unit > 1 => proc[p].next \in torn')
  BY DEF Crash
<1>4. FailsOnlyTorn' /\ refused' \subseteq 1 .. 14
  BY <1>1, <1>3 DEF SchemaInv, FailsOnlyTorn, Moves
<1>5. ASSUME NEW v \in 0 .. 14, Upto(v) PROVE Upto(v)'
  <2>1. /\ recorded = 1 .. v /\ recorded' = recorded /\ schema' = schema
        /\ rows' = rows /\ from' = from
    BY <1>1, <1>5 DEF Upto, Moves
  <2>2. ASSUME NEW q \in Process, Working(proc'[q])
        PROVE  proc'[q].next = v + 1 /\ Enters(schema, v + 1, proc'[q].unit)
    <3>1. q # p
      BY <1>2, <2>2, OffRests
    <3>. QED BY <1>2, <1>5, <2>2, <3>1 DEF Upto
  <2>3. \A n : Excused(n) => Excused(n)'
    BY <1>3, <2>1 DEF Excused, InTheWay
  <2>4. ASSUME NEW q \in Process, Working(proc[q]), At(schema, v + 1, proc[q].unit - 1)
        PROVE  \/ At(schema, v + 1, 0)
               \/ Excused(v + 1)'
               \/ Working(proc'[q]) /\ At(schema, v + 1, proc'[q].unit - 1)
    <3>1. CASE q # p
      <4>1. proc'[q] = proc[q]
        BY <1>2, <3>1
      <4>. QED BY <2>4, <4>1
    <3>2. CASE q = p
      <4>1. proc[p].unit \in Nat \ {0} /\ proc[p].next = v + 1
        <5>1. proc[p].next = v + 1 /\ v + 1 \in 1 .. 14
          BY <1>1, <1>5 DEF Upto, Working, Newest
        <5>. QED BY <1>1, <5>1, Lengths DEF SchemaInv, Ahead
      <4>2. CASE proc[p].unit > 1
        BY <1>3, <4>1, <4>2 DEF Excused
      <4>3. CASE proc[p].unit = 1
        BY <2>4, <3>2, <4>3
      <4>. QED BY <4>1, <4>2, <4>3
    <3>. QED BY <3>1, <3>2
  <2>5. v < 14 =>
          /\ Among(schema', v + 1)
          /\ \/ At(schema', v + 1, 0)
             \/ Excused(v + 1)'
             \/ \E q \in Process : Working(proc'[q]) /\ At(schema', v + 1, proc'[q].unit - 1)
    BY <1>5, <2>1, <2>3, <2>4 DEF Upto
  <2>6. Process' = Process
    BY DEF Process
  <2>7. /\ recorded' = 1 .. v /\ (v = 14 => At(schema', 14, 3))
        /\ \A q \in Process : Working(proc'[q]) =>
              proc'[q].next = v + 1 /\ Enters(schema', v + 1, proc'[q].unit)
    BY <1>5, <2>1, <2>2 DEF Upto
  <2>. QED BY <2>5, <2>6, <2>7 DEF Upto
<1>6. (overlapped \/ \E v \in 0 .. 14 : Upto(v))'
  BY <1>1, <1>5 DEF SchemaInv
<1>. QED BY <1>2, <1>4, <1>6 DEF SchemaInv

\* The only process that migrates has moved.
LEMMA AloneMoves ==
    ASSUME NEW v \in 0 .. 14, recorded' = 1 .. v, NEW p \in Process, NEW r, proc'[p] = r,
           \A q \in Process \ {p} : proc'[q] = proc[q] /\ ~Working(proc[q]),
           Working(r) => r.next = v + 1 /\ Enters(schema', v + 1, r.unit),
           v = 14 => At(schema', 14, 3),
           v < 14 =>
              /\ Among(schema', v + 1)
              /\ \/ At(schema', v + 1, 0)
                 \/ Excused(v + 1)'
                 \/ Working(r) /\ At(schema', v + 1, r.unit - 1)
    PROVE  Upto(v)'
<1>1. ASSUME NEW q \in Process, Working(proc'[q])
      PROVE  proc'[q].next = v + 1 /\ Enters(schema', v + 1, proc'[q].unit)
  <2>1. q = p
    BY <1>1
  <2>. QED BY <1>1, <2>1
<1>2. Process' = Process
  BY DEF Process
<1>. QED BY <1>1, <1>2 DEF Upto

\* A version is recorded: the next script begins where this one has ended.
LEMMA RecordSchema ==
    ASSUME GapInv, SchemaInv, NEW p \in Process, Record(p)
    PROVE  SchemaInv'
<1>1. PICK n : n = proc[p].next
  OBVIOUS
<1>2. /\ Working(proc[p]) /\ n \in 1 .. 14 /\ Behind(proc[p], recorded)
      /\ proc[p].unit > Len(MigrationFiles[n])
  BY <1>1, PendingWorks DEF Record, Working, GapInv, Behind, Place, Newest
<1>3. /\ UNCHANGED <<schema, rows, from, torn>>
      /\ overlapped' = (overlapped \/ \E q \in Process \ {p} : Pending(q))
  BY DEF Record, NoteOverlap
<1>4. proc[p].unit = Len(MigrationFiles[n]) + 1
  <2>1. proc[p].unit \in 1 .. Len(MigrationFiles[n]) + 1
    BY <1>1, <1>2 DEF SchemaInv, Ahead
  <2>2. Len(MigrationFiles[n]) \in Nat
    BY <1>2, SomeUnits
  <2>. QED BY <1>2, <2>1, <2>2
<1>5. ASSUME NEW v \in 0 .. 14, Upto(v)
      PROVE  n = v + 1 /\ At(schema, n, Len(MigrationFiles[n]))
  <2>1. n = v + 1 /\ Enters(schema, n, Len(MigrationFiles[n]) + 1)
    BY <1>1, <1>2, <1>4, <1>5 DEF Upto
  <2>2. /\ Len(MigrationFiles[n]) \in Nat \ {0}
        /\ n \in {9, 14} => Len(MigrationFiles[n]) = 3
    BY <1>2, SomeUnits
  <2>. QED BY <2>1, <2>2, SMTT(60) DEF Enters
<1>6. CASE /\ n \in recorded /\ proc' = [proc EXCEPT ![p] = Off]
           /\ refused' = refused \cup {n} /\ recorded' = recorded
  <2>1. overlapped
    <3>1. ASSUME NEW v \in 0 .. 14, Upto(v) PROVE FALSE
      <4>1. n = v + 1
        BY <1>5, <3>1
      <4>2. recorded = 1 .. v
        BY <3>1 DEF Upto
      <4>. QED BY <1>2, <1>6, <4>1, <4>2
    <3>. QED BY <3>1 DEF SchemaInv
  <2>2. Moves(p, Off)
    BY <1>3, <1>6 DEF Moves
  <2>3. /\ from' \in 0 .. 14 /\ (1 .. from \subseteq recorded)'
        /\ (\A q \in Process : Ahead(proc[q]))'
    BY <2>2, OffRests, AheadStays DEF SchemaInv
  <2>4. refused' \subseteq 1 .. 14 /\ overlapped' /\ FailsOnlyTorn'
    BY <1>2, <1>3, <1>6, <2>1 DEF SchemaInv, FailsOnlyTorn, Newest
  <2>. QED BY <2>3, <2>4 DEF SchemaInv
<1>7. CASE /\ n \notin recorded /\ recorded' = recorded \cup {n} /\ refused' = refused
           /\ proc' = [proc EXCEPT ![p].next = @ + 1, ![p].unit = 1]
  <2>1. PICK r : /\ proc' = [proc EXCEPT ![p] = r] /\ r.next = n + 1 /\ r.unit = 1
                 /\ r.fk = proc[p].fk
    <3>1. PICK r : r = [proc[p] EXCEPT !.next = @ + 1, !.unit = 1]
      OBVIOUS
    <3>2. proc' = [proc EXCEPT ![p] = r]
      BY <1>7, <3>1 DEF GapInv
    <3>3. r.next = n + 1 /\ r.unit = 1 /\ r.fk = proc[p].fk
      BY <1>1, <1>2, <3>1 DEF Behind, Place
    <3>. QED BY <3>2, <3>3
  <2>2. Moves(p, r)
    BY <1>3, <1>7, <2>1 DEF Moves
  <2>3. Ahead(r)
    <3>1. Ahead(proc[p])
      BY DEF SchemaInv
    <3>2. n + 1 <= 14 => 1 \in 1 .. Len(MigrationFiles[n + 1]) + 1
      BY <1>2, Lengths
    <3>3. r.next > from /\ (r.fk /\ r.next <= 13 => from <= 8)
      BY <1>1, <1>2, <2>1, <3>1 DEF Ahead, SchemaInv
    <3>. QED BY <1>2, <2>1, <3>2, <3>3 DEF Ahead, Working, Newest
  <2>4. /\ from' \in 0 .. 14 /\ (1 .. from \subseteq recorded)'
        /\ (\A q \in Process : Ahead(proc[q]))'
        /\ proc'[p] = r /\ \A q \in Process \ {p} : proc'[q] = proc[q]
    BY <2>2, <2>3, AheadStays
  <2>5. FailsOnlyTorn' /\ refused' \subseteq 1 .. 14
    BY <1>3, <1>7 DEF SchemaInv, FailsOnlyTorn, Newest
  <2>6. ASSUME ~overlapped', NEW v \in 0 .. 14, Upto(v) PROVE Upto(n)'
    <3>1. n = v + 1 /\ At(schema', n, Len(MigrationFiles[n])) /\ recorded' = 1 .. n
      <4>1. n = v + 1 /\ At(schema', n, Len(MigrationFiles[n]))
        BY <1>3, <1>5, <2>6
      <4>2. recorded = 1 .. v
        BY <2>6 DEF Upto
      <4>. QED BY <1>2, <1>7, <4>1, <4>2
    <3>2. \A q \in Process \ {p} : proc'[q] = proc[q] /\ ~Working(proc[q])
      BY <1>3, <2>4, <2>6, PendingWorks
    <3>3. Working(r) => r.next = n + 1 /\ Enters(schema', n + 1, r.unit)
      BY <2>1 DEF Enters
    <3>4. n = 14 => At(schema', 14, 3)
      BY <3>1, Lengths
    <3>5. n < 14 => At(schema', n + 1, 0) /\ Among(schema', n + 1)
      <4>. SUFFICES ASSUME n < 14 PROVE At(schema', n + 1, 0) /\ Among(schema', n + 1)
        OBVIOUS
      <4>1. Meets(n)
        BY <1>2, StagesMeet
      <4>2. At(schema', n + 1, 0)
        BY <3>1, <4>1 DEF At, Meets
      <4>3. 0 \in 0 .. Len(MigrationFiles[n + 1])
        BY <1>2, Lengths
      <4>. QED BY <4>2, <4>3 DEF Among
    <3>6. n \in 0 .. 14
      BY <1>2
    <3>. QED BY <2>4, <3>1, <3>2, <3>3, <3>4, <3>5, <3>6, AloneMoves
  <2>7. (overlapped \/ \E v \in 0 .. 14 : Upto(v))'
    <3>1. n \in 0 .. 14
      BY <1>2
    <3>. QED BY <1>3, <2>6, <3>1 DEF SchemaInv
  <2>. QED BY <2>4, <2>5, <2>7 DEF SchemaInv
<1>. QED BY <1>1, <1>6, <1>7 DEF Record

\* The next unit of a script is committed, or the script fails.
LEMMA StepSchema ==
    ASSUME RowsInv, SchemaInv, NEW p \in Process, Step(p)
    PROVE  SchemaInv'
<1>1. PICK n, k, fk, d : /\ n = proc[p].next /\ k = proc[p].unit /\ fk = proc[p].fk
                         /\ d = Run(Connection(schema, rows, fk), MigrationFiles[n][k])
  OBVIOUS
<1>2. GapInv /\ Working(proc[p]) /\ n \in 1 .. 14 /\ Behind(proc[p], recorded)
  BY <1>1, PendingWorks DEF RowsInv, Step, Working, GapInv, Behind, Place, Newest
<1>3. k \in 1 .. Len(MigrationFiles[n])
  <2>1. k \in 1 .. Len(MigrationFiles[n]) + 1 /\ k <= Len(MigrationFiles[n])
    BY <1>1, <1>2 DEF SchemaInv, Ahead, Step
  <2>2. Len(MigrationFiles[n]) \in Nat
    BY <1>2, SomeUnits
  <2>. QED BY <2>1, <2>2
<1>4. /\ UNCHANGED <<recorded, from, torn>>
      /\ overlapped' = (overlapped \/ \E q \in Process \ {p} : Pending(q))
  BY DEF Step, NoteOverlap
<1>5. Opens(d, MigrationFiles[n][k], schema, rows, fk)
  BY <1>1 DEF Opens
<1>6. ASSUME NEW v \in 0 .. 14, Upto(v), ~overlapped'
      PROVE  /\ n = v + 1 /\ recorded = 1 .. v
             /\ Advances(n, k, d) \/ Passes(n, k, schema, d) \/ Fails(n, k, schema, rows, fk, d)
             /\ At(schema, n, 0) \/ Excused(n) \/ At(schema, n, k - 1)
             /\ \A q \in Process \ {p} : ~Working(proc[q])
  <2>1. \A q \in Process \ {p} : ~Working(proc[q])
    BY <1>4, <1>6, PendingWorks
  <2>2. n = v + 1 /\ recorded = 1 .. v /\ Enters(schema, n, k)
    BY <1>1, <1>2, <1>6 DEF Upto
  <2>3. /\ Among(schema, n)
        /\ \/ At(schema, n, 0) \/ Excused(n)
           \/ \E q \in Process : Working(proc[q]) /\ At(schema, n, proc[q].unit - 1)
    BY <1>2, <1>6, <2>2 DEF Upto
  <2>4. At(schema, n, 0) \/ Excused(n) \/ At(schema, n, k - 1)
    BY <1>1, <2>1, <2>3
  <2>5. Advances(n, k, d) \/ Passes(n, k, schema, d) \/ Fails(n, k, schema, rows, fk, d)
    BY <1>2, <1>3, <1>5, <2>2, <2>3, UnitStep
  <2>. QED BY <2>1, <2>2, <2>4, <2>5
<1>7. CASE /\ d.ok /\ schema' = d.schema /\ rows' = d.rows /\ refused' = refused
           /\ proc' = [proc EXCEPT ![p].unit = @ + 1, ![p].fk = d.fk]
  <2>1. ("orphans" \in rows => "orphans" \in rows') /\ (n \in {9, 14} \/ d.fk = fk)
    <3>1. Commits(schema, rows, fk, MigrationFiles[n][k], d)
      BY <1>1, <1>7 DEF Commits
    <3>2. /\ n \in {9, 14} /\ k = 2 => fk = FALSE
          /\ n = 11 /\ k = 14 /\ "runs" \in Had => "runs_new" \in rows
          /\ Safe(Had, rows)
      BY <1>1 DEF RowsInv, Fits
    <3>3. k \in Nat \ {0} /\ k <= Len(MigrationFiles[n])
      BY <1>2, <1>3, SomeUnits
    <3>4. Unit(n, k, schema, rows, fk, Had, d)
      BY <1>2, <3>1, <3>2, <3>3, HadIs, EveryUnit
    <3>. QED BY <1>7, <3>4 DEF Unit
  <2>2. PICK r : /\ proc' = [proc EXCEPT ![p] = r] /\ r.next = n /\ r.unit = k + 1
                 /\ r.fk = d.fk /\ r.pc = proc[p].pc
    <3>1. PICK r : r = [proc[p] EXCEPT !.unit = @ + 1, !.fk = d.fk]
      OBVIOUS
    <3>2. proc' = [proc EXCEPT ![p] = r]
      BY <1>2, <1>7, <3>1 DEF GapInv
    <3>3. r.next = n /\ r.unit = k + 1 /\ r.fk = d.fk /\ r.pc = proc[p].pc
      BY <1>1, <1>2, <3>1 DEF Behind, Place
    <3>. QED BY <3>2, <3>3
  <2>3. Moves(p, r)
    BY <1>4, <2>2 DEF Moves
  <2>4. Ahead(r)
    <3>1. Ahead(proc[p]) /\ from \in 0 .. 14
      BY DEF SchemaInv
    <3>2. r.unit \in 1 .. Len(MigrationFiles[r.next]) + 1
      <4>1. Len(MigrationFiles[n]) \in Nat
        BY <1>2, SomeUnits
      <4>. QED BY <1>3, <2>2, <4>1
    <3>3. r.fk /\ r.next <= 13 => from <= 8
      <4>1. CASE n \in {9, 14}
        BY <1>1, <2>2, <3>1, <4>1 DEF Ahead
      <4>2. CASE d.fk = fk
        BY <1>1, <2>2, <3>1, <4>2 DEF Ahead
      <4>. QED BY <2>1, <4>1, <4>2
    <3>. QED BY <1>1, <2>2, <3>1, <3>2, <3>3 DEF Ahead
  <2>5. /\ from' \in 0 .. 14 /\ (1 .. from \subseteq recorded)'
        /\ (\A q \in Process : Ahead(proc[q]))'
        /\ proc'[p] = r /\ \A q \in Process \ {p} : proc'[q] = proc[q]
    BY <1>2, <2>3, <2>4, AheadStays
  <2>6. FailsOnlyTorn' /\ refused' \subseteq 1 .. 14
    BY <1>4, <1>7, <2>1 DEF SchemaInv, FailsOnlyTorn, Newest
  <2>7. ASSUME NEW v \in 0 .. 14, Upto(v), ~overlapped' PROVE Upto(v)'
    <3>1. /\ n = v + 1 /\ recorded' = 1 .. v /\ v < 14
          /\ Advances(n, k, d) \/ Passes(n, k, schema, d)
          /\ At(schema, n, 0) \/ Excused(n) \/ At(schema, n, k - 1)
          /\ \A q \in Process \ {p} : ~Working(proc[q])
      <4>1. /\ n = v + 1 /\ recorded = 1 .. v
            /\ Advances(n, k, d) \/ Passes(n, k, schema, d) \/ Fails(n, k, schema, rows, fk, d)
            /\ At(schema, n, 0) \/ Excused(n) \/ At(schema, n, k - 1)
            /\ \A q \in Process \ {p} : ~Working(proc[q])
        BY <1>6, <2>7
      <4>2. ~Fails(n, k, schema, rows, fk, d)
        BY <1>7 DEF Fails
      <4>3. recorded' = 1 .. v /\ v < 14
        BY <1>2, <1>4, <4>1
      <4>. QED BY <4>1, <4>2, <4>3
    <3>2. Working(r)
      BY <1>1, <1>2, <2>2 DEF Working
    <3>3. CASE Advances(n, k, d)
      <4>1. At(schema', n, k) /\ r.unit - 1 = k
        BY <1>3, <1>7, <2>2, <3>3 DEF Advances
      <4>2. Among(schema', n)
        BY <1>3, <4>1 DEF Among
      <4>3. Enters(schema', n, r.unit) /\ At(schema', n, r.unit - 1)
        BY <4>1 DEF Enters
      <4>4. /\ Working(r) => r.next = v + 1 /\ Enters(schema', v + 1, r.unit)
            /\ v = 14 => At(schema', 14, 3)
            /\ v < 14 =>
                  /\ Among(schema', v + 1)
                  /\ \/ At(schema', v + 1, 0)
                     \/ Excused(v + 1)'
                     \/ Working(r) /\ At(schema', v + 1, r.unit - 1)
        BY <2>2, <3>1, <3>2, <4>2, <4>3
      <4>. QED BY <2>5, <3>1, <4>4, AloneMoves
    <3>4. CASE Passes(n, k, schema, d)
      <4>1. schema' = schema /\ k = 1 /\ n \in {9, 14} /\ ~At(schema, n, 0)
        BY <1>7, <3>4 DEF Passes
      <4>2. Excused(n)
        <5>1. At(schema, n, 0) \/ Excused(n) \/ At(schema, n, k - 1)
          BY <3>1
        <5>2. k - 1 = 0
          BY <4>1
        <5>. QED BY <4>1, <5>1, <5>2
      <4>3. Excused(n)'
        BY <1>4, <2>1, <4>2 DEF Excused, InTheWay
      <4>4. Among(schema', n)
        BY <2>7, <3>1, <4>1 DEF Upto
      <4>5. Enters(schema', n, r.unit)
        BY <2>2, <4>1 DEF Enters
      <4>6. Excused(v + 1)'
        BY <3>1, <4>3
      <4>7. /\ Working(r) => r.next = v + 1 /\ Enters(schema', v + 1, r.unit)
            /\ v = 14 => At(schema', 14, 3)
            /\ v < 14 =>
                  /\ Among(schema', v + 1)
                  /\ \/ At(schema', v + 1, 0)
                     \/ Excused(v + 1)'
                     \/ Working(r) /\ At(schema', v + 1, r.unit - 1)
        BY <2>2, <3>1, <3>2, <4>4, <4>5, <4>6
      <4>. QED BY <2>5, <3>1, <4>7, AloneMoves
    <3>. QED BY <3>1, <3>3, <3>4
  <2>8. (overlapped \/ \E v \in 0 .. 14 : Upto(v))'
    BY <1>4, <2>7 DEF SchemaInv
  <2>. QED BY <2>5, <2>6, <2>8 DEF SchemaInv
<1>8. CASE /\ ~d.ok /\ proc' = [proc EXCEPT ![p] = Off] /\ UNCHANGED <<schema, rows>>
           /\ refused' = refused \cup {n}
  <2>1. Moves(p, Off)
    BY <1>4, <1>8 DEF Moves
  <2>2. /\ from' \in 0 .. 14 /\ (1 .. from \subseteq recorded)'
        /\ (\A q \in Process : Ahead(proc[q]))'
        /\ proc'[p] = Off /\ \A q \in Process \ {p} : proc'[q] = proc[q]
    BY <1>2, <2>1, OffRests, AheadStays DEF SchemaInv
  <2>3. ASSUME NEW v \in 0 .. 14, Upto(v), ~overlapped'
        PROVE  /\ n \notin {12, 14} /\ (At(schema, n, 0) \/ Excused(n))
               /\ n \in torn \/ InTheWay(n)
    <3>1. Fails(n, k, schema, rows, fk, d)
      BY <1>6, <1>8, <2>3 DEF Advances, Passes
    <3>2. At(schema, n, 0) \/ Excused(n) \/ At(schema, n, k - 1)
      BY <1>6, <2>3
    <3>3. n = 11 /\ fk /\ "orphans" \in rows => InTheWay(n)
      <4>1. Ahead(proc[p])
        BY DEF SchemaInv
      <4>2. fk => proc[p].fk
        BY <1>1, Zenon
      <4>3. proc[p].fk /\ proc[p].next = 11 => from <= 8
        BY <4>1 DEF Ahead
      <4>. QED BY <1>1, <4>2, <4>3 DEF InTheWay
    <3>. QED BY <3>1, <3>2, <3>3 DEF Fails, Excused
  <2>4. refused' \subseteq 1 .. 14
    BY <1>2, <1>8 DEF SchemaInv
  <2>5. FailsOnlyTorn'
    <3>1. CASE overlapped'
      BY <2>4, <3>1 DEF FailsOnlyTorn, Newest
    <3>2. CASE ~overlapped'
      <4>1. PICK v \in 0 .. 14 : Upto(v)
        BY <1>4, <3>2 DEF SchemaInv
      <4>2. n \notin {12, 14} /\ (n \in torn \/ InTheWay(n))
        BY <2>3, <3>2, <4>1
      <4>3. refused \subseteq (torn \ {12, 14}) \cup {w \in {11} : "orphans" \in rows /\ from <= 8}
        BY <1>4, <3>2 DEF SchemaInv, FailsOnlyTorn
      <4>4. n \in (torn \ {12, 14}) \cup {w \in {11} : "orphans" \in rows /\ from <= 8}
        BY <4>2 DEF InTheWay
      <4>. QED BY <1>4, <1>8, <3>2, <4>3, <4>4 DEF FailsOnlyTorn
    <3>. QED BY <3>1, <3>2
  <2>6. ASSUME NEW v \in 0 .. 14, Upto(v), ~overlapped' PROVE Upto(v)'
    <3>1. /\ n = v + 1 /\ recorded' = 1 .. v /\ v < 14
          /\ \A q \in Process \ {p} : ~Working(proc[q])
      <4>1. n = v + 1 /\ recorded = 1 .. v /\ \A q \in Process \ {p} : ~Working(proc[q])
        BY <1>6, <2>6
      <4>. QED BY <1>2, <1>4, <4>1
    <3>2. At(schema', v + 1, 0) \/ Excused(v + 1)'
      <4>1. At(schema, n, 0) \/ Excused(n)
        BY <2>3, <2>6
      <4>2. Excused(n) => Excused(n)'
        BY <1>4, <1>8 DEF Excused, InTheWay
      <4>. QED BY <1>8, <3>1, <4>1, <4>2
    <3>3. Among(schema', v + 1)
      BY <1>8, <2>6, <3>1 DEF Upto
    <3>4. /\ Working(Off) => Off.next = v + 1 /\ Enters(schema', v + 1, Off.unit)
          /\ v = 14 => At(schema', 14, 3)
          /\ v < 14 =>
                /\ Among(schema', v + 1)
                /\ \/ At(schema', v + 1, 0)
                   \/ Excused(v + 1)'
                   \/ Working(Off) /\ At(schema', v + 1, Off.unit - 1)
      BY <3>1, <3>2, <3>3, OffRests
    <3>. QED BY <2>2, <3>1, <3>4, AloneMoves
  <2>7. (overlapped \/ \E v \in 0 .. 14 : Upto(v))'
    BY <1>4, <2>6 DEF SchemaInv
  <2>. QED BY <2>2, <2>4, <2>5, <2>7 DEF SchemaInv
<1>. QED BY <1>1, <1>7, <1>8 DEF Step

LEMMA SchemaStep == RowsInv /\ SchemaInv /\ [MigrateNext]_migrateVars => SchemaInv'
<1>. SUFFICES ASSUME RowsInv, SchemaInv, [MigrateNext]_migrateVars PROVE SchemaInv'
  OBVIOUS
<1>1. GapInv
  BY DEF RowsInv
<1>2. CASE UNCHANGED migrateVars
  <2>1. UNCHANGED <<schema, rows, recorded, proc, from, refused, torn, overlapped>>
    BY <1>2 DEF migrateVars
  <2>2. \A v : Upto(v) => Upto(v)'
    BY <2>1 DEF Upto, Excused, InTheWay, Process
  <2>. QED BY <2>1, <2>2 DEF SchemaInv, FailsOnlyTorn, Ahead, Process
<1>3. ASSUME NEW p \in Process, Step(p) PROVE SchemaInv'
  BY <1>3, StepSchema
<1>4. ASSUME NEW p \in Process, Record(p) PROVE SchemaInv'
  BY <1>1, <1>4, RecordSchema
<1>5. ASSUME NEW p \in Process, Crash(p) PROVE SchemaInv'
  BY <1>1, <1>5, CrashSchema
<1>6. ASSUME NEW p \in Process, Start(p) \/ PassEnds(p) \/ Stop(p) PROVE SchemaInv'
  <2>1. /\ ~Working(proc[p])
        /\ UNCHANGED <<schema, rows, recorded, from, refused, torn, overlapped>>
    BY <1>6, PendingWorks DEF Start, PassEnds, Stop, Working
  <2>2. PICK r : /\ proc' = [proc EXCEPT ![p] = r]
                 /\ r \in {Off, [Off EXCEPT !.pc = "serving"],
                           Pass("create_app"), Pass("run_migrations")}
    BY <1>6 DEF Start, PassEnds, Stop
  <2>3. Moves(p, r)
    BY <2>1, <2>2 DEF Moves
  <2>4. Ahead(r) /\ \A v \in 0 .. 14 :
                       Working(r) /\ recorded = 1 .. v => r.next = v + 1 /\ r.unit = 1
    <3>1. CASE r \in {Off, [Off EXCEPT !.pc = "serving"]}
      BY <3>1, OffRests DEF SchemaInv
    <3>2. CASE r \in {Pass("create_app"), Pass("run_migrations")}
      BY <1>1, <3>2, PassAhead
    <3>. QED BY <2>2, <3>1, <3>2
  <2>. QED BY <1>1, <2>1, <2>3, <2>4, QuietMoves
<1>. QED BY <1>2, <1>3, <1>4, <1>5, <1>6 DEF MigrateNext

LEMMA SchemaInit ==
    ASSUME MigrateInit
    PROVE  SchemaInv
<1>1. /\ from \in 0 .. 14 /\ recorded = 1 .. from /\ refused = {}
      /\ \A p \in Process : proc[p] = Off
  BY MigrationsAssumption DEF MigrateInit
<1>2. schema = Reached(from)
  BY <1>1, SchemaAtIs DEF MigrateInit
<1>3. /\ from = 14 => At(schema, 14, 3)
      /\ from < 14 => At(schema, from + 1, 0)
  BY <1>2 DEF Reached, At
<1>4. from < 14 => Among(schema, from + 1)
  <2>. SUFFICES ASSUME from < 14 PROVE Among(schema, from + 1)
    OBVIOUS
  <2>1. Len(MigrationFiles[from + 1]) \in Nat
    <3>1. from + 1 \in 1 .. 14
      BY <1>1
    <3>. QED BY <3>1, SomeUnits
  <2>2. 0 \in 0 .. Len(MigrationFiles[from + 1])
    BY <2>1
  <2>. QED BY <1>3, <2>2 DEF Among
<1>5. Upto(from)
  BY <1>1, <1>3, <1>4, OffRests DEF Upto
<1>. QED BY <1>1, <1>5, OffRests DEF SchemaInv, FailsOnlyTorn

\* All of this stays true, however many processes start, crash and start again
\* (db/migrations.py, run_migrations_sync).
THEOREM SchemaInvariant == MigrateSpec => [](RowsInv /\ SchemaInv)
<1>1. MigrateInit => RowsInv /\ SchemaInv
  BY RowsInit, SchemaInit
<1>2. RowsInv /\ SchemaInv /\ [MigrateNext]_migrateVars => (RowsInv /\ SchemaInv)'
  BY RowsStep, SchemaStep
<1>. QED BY <1>1, <1>2, PTL DEF MigrateSpec

\* Unless two processes migrated at once, a start or a doctor fails only in a
\* script that a crash left half done, other than 012 and 014, or in 011 when runs
\* without their script are in its way (db/migrations.py, migrations/): whatever
\* units are committed before a crash, every later script finds the schema it
\* was written for.
THEOREM FailsTorn == MigrateSpec => []FailsOnlyTorn
<1>1. RowsInv /\ SchemaInv => FailsOnlyTorn
  BY DEF SchemaInv
<1>. QED BY <1>1, SchemaInvariant, PTL

\* A server that serves has every version recorded and, unless two processes
\* migrated at once, the schema of a new install, whatever crashed and was
\* started again before (app.py, lifespan; db/migrations.py).
THEOREM ServesTheNewest == MigrateSpec => []ServesNewest
<1>1. SchemaInv /\ AllRecorded => ServesNewest
  <2>. SUFFICES ASSUME SchemaInv, AllRecorded, NEW p \in Server, proc[p].pc = "serving"
                PROVE  recorded = 1 .. 14 /\ (overlapped \/ schema = SchemaAt[14])
    BY DEF ServesNewest, Newest
  <2>1. recorded = 1 .. 14
    BY DEF AllRecorded, Newest
  <2>2. ASSUME NEW v \in 0 .. 14, Upto(v) PROVE schema = SchemaAt[14]
    <3>1. recorded = 1 .. v /\ (v = 14 => At(schema, 14, 3))
      BY <2>2 DEF Upto
    <3>2. v = 14
      <4>1. 14 \in recorded
        BY <2>1
      <4>2. recorded = 1 .. v
        BY <3>1
      <4>3. 14 \in 1 .. v
        BY <4>1, <4>2, Zenon
      <4>. QED BY <4>3
    <3>3. SchemaAt[14] = Reached(14)
      BY SchemaAtIs
    <3>. QED BY <3>1, <3>2, <3>3 DEF At, Reached
  <2>. QED BY <2>1, <2>2 DEF SchemaInv
<1>. QED BY <1>1, SchemaInvariant, ServesRecorded, PTL
=============================================================================
