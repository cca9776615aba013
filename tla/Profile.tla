------------------------------- MODULE Profile -------------------------------
(***************************************************************************)
(* The profile of one user: UserController::update, which replaces the     *)
(* avatar column and the avatar file, with several requests of the user    *)
(* in flight.  A request reads the row, writes the new file, removes the   *)
(* old one and then updates the row, in four steps with nothing around     *)
(* them, and any step may be its last.                                     *)
(*                                                                         *)
(* The request may also bring an empty avatar field: the mimes rule passes *)
(* over it, fill() takes it, and no file is removed for it.                *)
(*                                                                         *)
(* Of the row the model keeps whether it exists and its avatar.  Of its    *)
(* birthday it keeps that the column holds a date as Y-m-d, so that        *)
(* User::update, which parses it as d-m-Y, throws unless the request       *)
(* brings a birthday.                                                      *)
(***************************************************************************)
EXTENDS Naturals

CONSTANTS
    Requests,   \* processes that serve a profile update
    Files,      \* names LZImage::upload may draw
    NoFile      \* the empty avatar column of a new user

ASSUME ProfileAssumption == NoFile \notin Files

VARIABLES
    exists,     \* the users row exists
    avatar,     \* its avatar column
    files,      \* files under uploads/avatar
    drawn,      \* names drawn so far: md5(microtime . id) does not repeat
    pc,         \* next step of each request
    input,      \* what the request brings: an avatar file, an empty avatar
                \* field or none, and a birthday or not
    old_avatar, \* avatar the request has read
    upload,     \* name of the file the request has written
    failed,     \* history: a request threw or died after writing a file
    erased,     \* history: files whose name an empty field took from the row
    overlapped  \* history: two requests were in flight at once

rowVars  == <<exists, avatar>>
fileVars == <<files, drawn>>
reqVars  == <<pc, input, old_avatar, upload>>
histVars == <<failed, erased, overlapped>>
vars == <<rowVars, fileVars, reqVars, histVars>>

Steps  == {"idle", "find", "upload", "delete", "update"}
Inputs == {in \in [file : BOOLEAN, empty : BOOLEAN, birthday : BOOLEAN] :
              ~(in.file /\ in.empty)}
NoInput == [file |-> FALSE, empty |-> FALSE, birthday |-> FALSE]
Names  == Files \cup {NoFile}

TypeOK ==
    /\ exists \in BOOLEAN
    /\ avatar \in Names
    /\ files \subseteq Files
    /\ drawn \subseteq Files
    /\ pc \in [Requests -> Steps]
    /\ input \in [Requests -> Inputs]
    /\ old_avatar \in [Requests -> Names]
    /\ upload \in [Requests -> Names]
    /\ failed \in BOOLEAN
    /\ erased \subseteq Files
    /\ overlapped \in BOOLEAN

Init ==
    /\ exists = TRUE
    /\ avatar = NoFile
    /\ files = {}
    /\ drawn = {}
    /\ pc = [r \in Requests |-> "idle"]
    /\ input = [r \in Requests |-> NoInput]
    /\ old_avatar = [r \in Requests |-> NoFile]
    /\ upload = [r \in Requests |-> NoFile]
    /\ failed = FALSE
    /\ erased = {}
    /\ overlapped = FALSE

\* The request is over, and its variables with it.
End(r) ==
    /\ pc' = [pc EXCEPT ![r] = "idle"]
    /\ input' = [input EXCEPT ![r] = NoInput]
    /\ old_avatar' = [old_avatar EXCEPT ![r] = NoFile]
    /\ upload' = [upload EXCEPT ![r] = NoFile]

(***************************************************************************)
(* The steps of a request.                                                 *)
(***************************************************************************)

\* The request has passed UserUpdateRequest, which requires no field.
Start(r) ==
    /\ pc[r] = "idle"
    /\ \E in \in Inputs : input' = [input EXCEPT ![r] = in]
    /\ pc' = [pc EXCEPT ![r] = "find"]
    /\ overlapped' = (overlapped \/ \E q \in Requests : pc[q] # "idle")
    /\ UNCHANGED <<rowVars, fileVars, old_avatar, upload, failed, erased>>

\* $user->find(); without a row the next line fails.
Find(r) ==
    /\ pc[r] = "find"
    /\ IF exists
       THEN /\ old_avatar' = [old_avatar EXCEPT ![r] = avatar]
            /\ pc' = [pc EXCEPT ![r] = IF input[r].file THEN "upload" ELSE "update"]
            /\ UNCHANGED <<input, upload>>
       ELSE End(r)
    /\ UNCHANGED <<rowVars, fileVars, histVars>>

\* LZImage::upload: a name of its own, and the file written under it.
Upload(r) ==
    /\ pc[r] = "upload"
    /\ \E f \in Files \ drawn :
           /\ upload' = [upload EXCEPT ![r] = f]
           /\ drawn' = drawn \cup {f}
           /\ files' = files \cup {f}
    /\ pc' = [pc EXCEPT ![r] = "delete"]
    /\ UNCHANGED <<rowVars, input, old_avatar, histVars>>

\* A faulty form, for a mutant: the file just written is removed.
RemovedNew(r) == upload[r]

\* A faulty form, for a mutant: nothing is removed.
RemovedNone(r) == NoFile

\* The file that LZImage::delete($old_avatar) removes; it may be gone already.
Removed(r) == old_avatar[r]

DeleteOld(r) ==
    /\ pc[r] = "delete"
    /\ files' = files \ {Removed(r)}
    /\ pc' = [pc EXCEPT ![r] = "update"]
    /\ UNCHANGED <<rowVars, drawn, input, old_avatar, upload, histVars>>

\* A faulty form, for a mutant: only a first avatar is stored.
StoredFirst(r) == IF exists /\ input[r].file /\ avatar = NoFile THEN upload[r] ELSE avatar

\* The update empties the column: save() writes it, as the row that the
\* request has read was not empty.
Empties(r) == exists /\ input[r].empty /\ old_avatar[r] # NoFile

\* What the row's avatar becomes: save() writes the column only if changed.
Stored(r) ==
    IF exists /\ input[r].file THEN upload[r]
    ELSE IF Empties(r) THEN NoFile
    ELSE avatar

\* $user->update() with a birthday that can be parsed.
Update(r) ==
    /\ pc[r] = "update"
    /\ input[r].birthday
    /\ avatar' = Stored(r)
    /\ erased' = IF Empties(r) THEN erased \cup ({avatar} \ {NoFile}) ELSE erased
    /\ End(r)
    /\ UNCHANGED <<exists, fileVars, failed, overlapped>>

\* $user->update() throws on the birthday of the row.
UpdateThrows(r) ==
    /\ pc[r] = "update"
    /\ ~input[r].birthday
    /\ End(r)
    /\ failed' = (failed \/ input[r].file)
    /\ UNCHANGED <<rowVars, fileVars, erased, overlapped>>

\* The process dies, or the image cannot be read or written.
Die(r) ==
    /\ pc[r] # "idle"
    /\ End(r)
    /\ failed' = (failed \/ (input[r].file /\ pc[r] \in {"delete", "update"}))
    /\ UNCHANGED <<rowVars, fileVars, erased, overlapped>>

\* User::destroy takes the row and leaves the file.
Destroy ==
    /\ exists
    /\ exists' = FALSE
    /\ UNCHANGED <<avatar, fileVars, reqVars, histVars>>

Step(r) ==
    Find(r) \/ Upload(r) \/ DeleteOld(r) \/ Update(r) \/ UpdateThrows(r)

Next ==
    \/ \E r \in Requests : Start(r) \/ Step(r) \/ Die(r)
    \/ Destroy

Spec == Init /\ [][Next]_vars

\* A request that has started is carried on by its process.
FairSpec == Spec /\ \A r \in Requests : WF_vars(Step(r))

(***************************************************************************)
(* Properties                                                              *)
(***************************************************************************)

Quiet == \A r \in Requests : pc[r] = "idle"

Dangling == exists /\ avatar # NoFile /\ avatar \notin files

\* A file that a request has written and not yet stored is never removed by
\* another request, whatever avatar that one has read.
UploadsKept ==
    \A r \in Requests :
        pc[r] \in {"delete", "update"} /\ input[r].file => upload[r] \in files

\* The row names a missing file only while the request that removed it is about
\* to store its own, unless a request has failed between the two.
DanglingIsTransient ==
    Dangling /\ ~failed => \E r \in Requests :
        pc[r] = "update" /\ input[r].file /\ old_avatar[r] = avatar

\* When no request is in flight and none has failed half way, the avatar that
\* the row names is there, however the requests overlapped.
AvatarKept == Quiet /\ ~failed => ~Dangling

\* Updates one after another, none of which fails, leave no file but the one
\* that the row names and those whose name an empty avatar field took from the
\* row: UserController::update removes the old file only for a new one.
SerialClean ==
    Quiet /\ ~failed /\ ~overlapped /\ exists => files \subseteq {avatar} \cup erased

\* No step takes away the file of an avatar that the step itself stores.
StoredIsPresent ==
    [][avatar' # avatar => avatar' \in files' \cup {NoFile}]_vars

\* A dangling avatar is repaired in the end, unless a request fails.
Repaired == Dangling ~> (~Dangling \/ failed)

=============================================================================
