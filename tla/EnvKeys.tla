------------------------------ MODULE EnvKeys -------------------------------
(***************************************************************************)
(* Encrypted environment variables: api/envs.py saves, deletes and reads a *)
(* script's variables, api/admin.py gives all of them a new key, and       *)
(* api/runs.py reads them for a run.  The key in use lives in the memory   *)
(* of the process (app.state.env_service); a restart takes it from the     *)
(* configuration, which the rotation does not touch.                       *)
(*                                                                         *)
(* Each request is split where it awaits the database.  A transaction that *)
(* has begun to write keeps SQLite's write lock until it commits, so the   *)
(* writes of a request are one step, which may also fail (the lock is not  *)
(* got in time, the disk is full): then nothing is written.                *)
(***************************************************************************)
EXTENDS Naturals

CONSTANTS
    Script,     \* scripts with, or without, variables
    Saver,      \* PUT requests; each saves a text of its own
    Rotation,   \* rotate-env-key requests; each brings a key of its own
    Reader,     \* GET requests and runs, which decrypt what they have read
    FirstKey,   \* the key the server was first configured with
    FirstText,  \* what scripts have saved at the start
    NoScript,   \* "this request has not begun"
    NoText,     \* "this script has no variables"
    MaxRestarts \* bound: how often the server is restarted

ASSUME KeysAssumption ==
    /\ FirstKey \notin Rotation
    /\ FirstText \notin Saver
    /\ NoText \notin Saver \cup {FirstText}
    /\ NoScript \notin Script
    /\ MaxRestarts \in Nat

Key == Rotation \cup {FirstKey}
Text == Saver \cup {FirstText}

VARIABLES
    row,        \* script_envs: what is stored for a script and under which key
    service,    \* app.state.env_service: the key in use
    config,     \* settings.env_encryption_key
    save,       \* where each PUT is, for which script and with which key
    rotate,     \* where each rotation is, the key it replaces, what it has read
    read,       \* where each reader is and the row it has read
    saved,      \* history: the text last saved for a script, NoText if deleted
    disturbed,  \* history: a rotation has overlapped another writer, or the
                \* server was restarted with another key than it had used
    restarts    \* number of restarts so far

vars == <<row, service, config, save, rotate, read, saved, disturbed, restarts>>

Row == [text : Text, key : Key] \cup [text : {NoText}, key : {FirstKey}]
NoRow == [text |-> NoText, key |-> FirstKey]
Exists(r) == r.text # NoText

Readable(r, k) == Exists(r) => r.key = k

SavePc == {"new", "encrypted", "over"}
RotatePc == {"new", "captured", "read", "rewrapped", "over"}
ReadPc == {"new", "read", "decrypted", "refused"}

NotSaving == [pc |-> "new", script |-> NoScript, key |-> FirstKey]
NotRotating == [pc |-> "new", old |-> FirstKey, rows |-> [s \in Script |-> NoRow]]
NotReading == [pc |-> "new", row |-> NoRow, crossed |-> FALSE]

KeysTypeOK ==
    /\ row \in [Script -> Row]
    /\ service \in Key
    /\ config \in Key
    /\ save \in [Saver -> [pc : SavePc, script : Script \cup {NoScript}, key : Key]]
    /\ \A q \in Saver : save[q].pc = "encrypted" => save[q].script \in Script
    /\ rotate \in [Rotation -> [pc : RotatePc, old : Key, rows : [Script -> Row]]]
    /\ read \in [Reader -> [pc : ReadPc, row : Row, crossed : BOOLEAN]]
    /\ saved \in [Script -> Text \cup {NoText}]
    /\ disturbed \in BOOLEAN
    /\ restarts \in 0 .. MaxRestarts

Init ==
    /\ row \in [Script -> {NoRow, [text |-> FirstText, key |-> FirstKey]}]
    /\ service = FirstKey
    /\ config = FirstKey
    /\ save = [q \in Saver |-> NotSaving]
    /\ rotate = [r \in Rotation |-> NotRotating]
    /\ read = [d \in Reader |-> NotReading]
    /\ saved = [s \in Script |-> row[s].text]
    /\ disturbed = FALSE
    /\ restarts = 0

Rotating(r) == rotate[r].pc \in {"captured", "read", "rewrapped"}
Saving(q) == save[q].pc = "encrypted"

-----------------------------------------------------------------------------
(* PUT /scripts/{id}/env encrypts first, and then asks the database.       *)

Encrypt(q, s) ==
    /\ save[q].pc = "new"
    /\ save' = [save EXCEPT ![q] = [pc |-> "encrypted", script |-> s, key |-> service]]
    /\ disturbed' = (disturbed \/ \E r \in Rotation : Rotating(r))
    /\ UNCHANGED <<row, service, config, rotate, read, saved, restarts>>

Save(q) ==
    /\ Saving(q)
    /\ save' = [save EXCEPT ![q] = [pc |-> "over", script |-> save[q].script,
                                    key |-> save[q].key]]
    /\ row' = [row EXCEPT ![save[q].script] = [text |-> q, key |-> save[q].key]]
    /\ saved' = [saved EXCEPT ![save[q].script] = q]
    /\ UNCHANGED <<service, config, rotate, read, disturbed, restarts>>

\* The script is gone or not the caller's, or the statement fails.  Or nothing
\* is written although the answer is 200: the row that was there when the
\* request looked has been deleted before its UPDATE.
SaveFails(q) ==
    /\ Saving(q)
    /\ save' = [save EXCEPT ![q] = [pc |-> "over", script |-> save[q].script,
                                    key |-> save[q].key]]
    /\ UNCHANGED <<row, service, config, rotate, read, saved, disturbed, restarts>>

\* DELETE /scripts/{id}/env, and a script deleted with its variables.
DeleteEnv(s) ==
    /\ Exists(row[s])
    /\ row' = [row EXCEPT ![s] = NoRow]
    /\ saved' = [saved EXCEPT ![s] = NoText]
    /\ UNCHANGED <<service, config, save, rotate, read, disturbed, restarts>>

-----------------------------------------------------------------------------
(* POST /admin/rotate-env-key.                                             *)

Capture(r) ==
    /\ rotate[r].pc = "new"
    /\ rotate' = [rotate EXCEPT ![r] =
           [pc |-> "captured", old |-> service, rows |-> [s \in Script |-> NoRow]]]
    /\ disturbed' = (\/ disturbed
                     \/ \E o \in Rotation : Rotating(o)
                     \/ \E q \in Saver : Saving(q))
    /\ UNCHANGED <<row, service, config, save, read, saved, restarts>>

SelectRows(r) ==
    /\ rotate[r].pc = "captured"
    /\ rotate' = [rotate EXCEPT ![r] =
           [pc |-> "read", old |-> rotate[r].old, rows |-> row]]
    /\ UNCHANGED <<row, service, config, save, read, saved, disturbed, restarts>>

\* Fault: INSERT OR REPLACE instead of UPDATE brings deleted rows back.
RewrappedReplacing(now, seen, old, new) ==
    IF Exists(seen) /\ seen.key = old
    THEN [text |-> seen.text, key |-> new]
    ELSE now

\* What an UPDATE leaves of the row now: a row that was read and cannot be
\* decrypted is passed over, and one that has been deleted is not there to be
\* updated.
Rewrapped(now, seen, old, new) ==
    IF Exists(now) /\ Exists(seen) /\ seen.key = old
    THEN [text |-> seen.text, key |-> new]
    ELSE now

Cross(d) == IF d.pc = "read" THEN [pc |-> d.pc, row |-> d.row, crossed |-> TRUE] ELSE d

Rewrap(r) ==
    /\ rotate[r].pc = "read"
    /\ row' = [s \in Script |->
                  Rewrapped(row[s], rotate[r].rows[s], rotate[r].old, r)]
    /\ rotate' = [rotate EXCEPT ![r] =
           [pc |-> "rewrapped", old |-> rotate[r].old, rows |-> rotate[r].rows]]
    /\ read' = [d \in Reader |-> Cross(read[d])]
    /\ UNCHANGED <<service, config, save, saved, disturbed, restarts>>

\* The session is closed, which is awaited, before the new key is put in use.
Adopt(r) ==
    /\ rotate[r].pc = "rewrapped"
    /\ service' = r
    /\ rotate' = [rotate EXCEPT ![r] =
           [pc |-> "over", old |-> rotate[r].old, rows |-> rotate[r].rows]]
    /\ read' = [d \in Reader |-> Cross(read[d])]
    /\ UNCHANGED <<row, config, save, saved, disturbed, restarts>>

RotateFails(r) ==
    /\ rotate[r].pc \in {"captured", "read"}
    /\ rotate' = [rotate EXCEPT ![r] =
           [pc |-> "over", old |-> rotate[r].old, rows |-> rotate[r].rows]]
    /\ UNCHANGED <<row, service, config, save, read, saved, disturbed, restarts>>

-----------------------------------------------------------------------------
(* A reader takes the row in one step and asks for the key in a later one: *)
(* GET when it has closed its session, a run when its task starts.         *)

ReadRow(d, s) ==
    /\ read[d].pc = "new"
    /\ Exists(row[s])
    /\ read' = [read EXCEPT ![d] =
           [pc |-> "read", row |-> row[s],
            crossed |-> \E r \in Rotation : rotate[r].pc = "rewrapped"]]
    /\ UNCHANGED <<row, service, config, save, rotate, saved, disturbed, restarts>>

\* Fault: the key the process was started with, as the scheduler keeps it.
DecryptAsStarted(d) ==
    /\ read[d].pc = "read"
    /\ read' = [read EXCEPT ![d] =
           [pc |-> IF read[d].row.key = config THEN "decrypted" ELSE "refused",
            row |-> read[d].row, crossed |-> read[d].crossed]]
    /\ UNCHANGED <<row, service, config, save, rotate, saved, disturbed, restarts>>

Decrypt(d) ==
    /\ read[d].pc = "read"
    /\ read' = [read EXCEPT ![d] =
           [pc |-> IF read[d].row.key = service THEN "decrypted" ELSE "refused",
            row |-> read[d].row, crossed |-> read[d].crossed]]
    /\ UNCHANGED <<row, service, config, save, rotate, saved, disturbed, restarts>>

-----------------------------------------------------------------------------
(* The operator, who alone can change the configuration, and the server,   *)
(* which may stop at any point and starts with what is configured.         *)

Configure ==
    /\ config' = service
    /\ UNCHANGED <<row, service, save, rotate, read, saved, disturbed, restarts>>

Restart ==
    /\ restarts < MaxRestarts
    /\ restarts' = restarts + 1
    /\ service' = config
    /\ disturbed' = (\/ disturbed
                     \/ config # service
                     \/ \E r \in Rotation : rotate[r].pc = "rewrapped")
    /\ save' = [q \in Saver |->
           IF Saving(q) THEN [pc |-> "over", script |-> save[q].script,
                              key |-> save[q].key]
           ELSE save[q]]
    /\ rotate' = [r \in Rotation |->
           IF Rotating(r) THEN [pc |-> "over", old |-> rotate[r].old,
                                rows |-> rotate[r].rows]
           ELSE rotate[r]]
    /\ read' = [d \in Reader |->
           IF read[d].pc = "read" THEN NotReading ELSE read[d]]
    /\ UNCHANGED <<row, config, saved>>

Next ==
    \/ \E q \in Saver, s \in Script : Encrypt(q, s)
    \/ \E q \in Saver : Save(q) \/ SaveFails(q)
    \/ \E s \in Script : DeleteEnv(s)
    \/ \E r \in Rotation : \/ Capture(r)
                           \/ SelectRows(r)
                           \/ Rewrap(r)
                           \/ Adopt(r)
                           \/ RotateFails(r)
    \/ \E d \in Reader, s \in Script : ReadRow(d, s)
    \/ \E d \in Reader : Decrypt(d)
    \/ Configure
    \/ Restart

Spec == Init /\ [][Next]_vars
-----------------------------------------------------------------------------
(* As long as no rotation has overlapped another writer, and the server    *)
(* has never come back with another key than it had: every script's        *)
(* variables are what was last saved for it, deleted ones stay deleted,    *)
(* and all of them are under the key in use, or under the one a rotation   *)
(* that has committed is about to put in use.  Rotations that fail half    *)
(* way, deletions in between and restarts spoil nothing.                   *)
RowsSound ==
    ~disturbed => \A s \in Script :
        /\ row[s].text = saved[s]
        /\ \/ Readable(row[s], service)
           \/ \E r \in Rotation : rotate[r].pc = "rewrapped" /\ Readable(row[s], r)

\* Then, too, a run or a GET fails to decrypt what it has read only if a
\* rotation changed rows or key between the reading and the decryption.
ReadersHeed ==
    ~disturbed => \A d \in Reader : read[d].pc = "refused" => read[d].crossed
=============================================================================
