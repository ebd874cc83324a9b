-------------------------- MODULE SettingsStore --------------------------
(***************************************************************************)
(* The layout settings of one user: JsonFileSettingsStore.cs.              *)
(*                                                                         *)
(* The store keeps three names in a directory, for the live file, the file *)
(* being written and the backup of the one replaced.  A name refers to a   *)
(* file, and keeps referring to it whoever else has it open: the file      *)
(* system is that of the Linux image of docker/Dockerfile.  A file that is *)
(* being written is locked against opening, and one that is being read     *)
(* against writing, but neither against renaming or deleting.              *)
(*                                                                         *)
(* The store takes no lock of its own.  A request may be aborted, a write  *)
(* may fail, and the process may end between any two calls.                *)
(***************************************************************************)
EXTENDS FiniteSets

CONSTANTS
    Requests,           \* requests for the settings of this user
    Objects,            \* tables and views that may have a layout
    Files,              \* files of the directory, with or without a name
    None,               \* no file, no settings, no answer
    Partial             \* the content of a file that is not yet valid JSON

ASSUME ConstantsAssumption ==
    /\ None \notin Files
    /\ \A s \in SUBSET Objects : s \notin {None, Partial}
    /\ Partial # None

VARIABLES
    live,       \* the file called <user>.json
    tmp,        \* the file called <user>.json.tmp
    bak,        \* the file called <user>.json.bak
    content,    \* what each file holds
    handle,     \* the file each request has open
    pc,         \* where each request is
    op,         \* what each request does
    arg,        \* the settings to save, or the object to reset
    loaded,     \* the settings that a reset of one object starts from
    reply,      \* what a request that is over answers
    \* History, read by no guard.
    overlapped, \* have two requests that write ever run at the same time?
    expected,   \* the settings that the changes answered so far may have left,
                \* until changes overlap
    seen        \* the settings that were current during each read

disk == <<live, tmp, bak, content>>
past == <<overlapped, expected>>
vars == <<disk, handle, pc, op, arg, loaded, reply, past, seen>>

---------------------------------------------------------------------------
(* Values *)

\* Settings are the set of objects that have a layout of their own.
Settings == SUBSET Objects

\* What a request may find: None when there is no file, or an invalid one.
Answerable == {None} \cup Settings

Writes == {"save", "reset", "resetObject"}

Saving  == {"create", "write", "reopen", "verify", "swap", "unlinkBackup",
            "linkBackup", "rename", "move", "cleanup"}
Running == {"look", "open", "read", "delete"} \cup Saving

\* What a GetAsync would return now: a corrupted file counts as no settings.
Parsed(file) == IF content[file] = Partial THEN None ELSE content[file]
Current      == IF live = None THEN None ELSE Parsed(live)

Init ==
    /\ live = None
    /\ tmp = None
    /\ bak = None
    /\ content = [f \in Files |-> Partial]
    /\ handle = [p \in Requests |-> None]
    /\ pc = [p \in Requests |-> "idle"]
    /\ op = [p \in Requests |-> "get"]
    /\ arg = [p \in Requests |-> {}]
    /\ loaded = [p \in Requests |-> {}]
    /\ reply = [p \in Requests |-> None]
    /\ overlapped = FALSE
    /\ expected = {None}
    /\ seen = [p \in Requests |-> {}]

---------------------------------------------------------------------------
(* Files *)

\* FileShare.None while it is written, FileShare.Read while it is read.
BeingWritten(file) == \E p \in Requests : handle[p] = file /\ pc[p] = "write"
BeingRead(file)    == \E p \in Requests : handle[p] = file /\ pc[p] # "write"

Unused(file) ==
    /\ file \notin {live, tmp, bak}
    /\ \A p \in Requests : handle[p] # file

Goto(p, here, there) ==
    /\ pc[p] = here
    /\ pc' = [pc EXCEPT ![p] = there]

\* A step of p on the disk that leaves the request's data as they are.
OnDisk(p, here, there) ==
    /\ Goto(p, here, there)
    /\ UNCHANGED <<op, arg, loaded, reply, past>>

\* The request is over; what it answers is told apart by its reply.
Finish(p, here, answer) ==
    /\ Goto(p, here, "done")
    /\ reply' = [reply EXCEPT ![p] = answer]
    /\ UNCHANGED <<op, arg, loaded, past>>

Close(p) == handle' = [handle EXCEPT ![p] = None]

---------------------------------------------------------------------------
(* GetAsync, and ResetObjectAsync, which begins with it *)

Look(p) ==
    /\ \/ /\ live = None
          /\ Finish(p, "look", IF op[p] = "get" THEN <<"got", None>> ELSE <<"ok">>)
       \/ /\ live # None
          /\ OnDisk(p, "look", IF op[p] = "reset" THEN "delete" ELSE "open")
    /\ UNCHANGED <<disk, handle>>

MutantOpenBackup(p) ==
    /\ OnDisk(p, "open", "read")
    /\ \E file \in Files :
          /\ IF live # None THEN file = live ELSE file = bak
          /\ handle' = [handle EXCEPT ![p] = file]
    /\ UNCHANGED disk

\* OpenRead throws, and nothing catches it, if the file is gone or locked.
Open(p) ==
    /\ \/ /\ live = None \/ BeingWritten(live)
          /\ Finish(p, "open", <<"failed">>)
          /\ UNCHANGED handle
       \/ /\ live # None /\ ~BeingWritten(live)
          /\ OnDisk(p, "open", "read")
          /\ handle' = [handle EXCEPT ![p] = live]
    /\ UNCHANGED disk

Read(p) ==
    LET settings == Parsed(handle[p]) IN
    /\ pc[p] = "read"
    /\ \/ /\ op[p] = "get"
          /\ Finish(p, "read", <<"got", settings>>)
       \/ /\ op[p] = "resetObject"
          /\ settings = None \/ (settings # None /\ arg[p] \cap settings = {})
          /\ Finish(p, "read", <<"ok">>)
       \/ /\ op[p] = "resetObject"
          /\ settings # None /\ arg[p] \cap settings # {}
          /\ Goto(p, "read", "create")
          /\ loaded' = [loaded EXCEPT ![p] = settings]
          /\ UNCHANGED <<op, arg, reply, past>>
    /\ Close(p)
    /\ UNCHANGED disk

---------------------------------------------------------------------------
(* SaveAsync *)

MutantWriteInPlace(p) ==
    /\ OnDisk(p, "create", "write")
    /\ \E file \in Files :
          /\ IF live = None THEN Unused(file)
             ELSE file = live /\ ~BeingWritten(file) /\ ~BeingRead(file)
          /\ content' = [content EXCEPT ![file] = Partial]
          /\ handle' = [handle EXCEPT ![p] = file]
          /\ live' = file
    /\ UNCHANGED <<tmp, bak>>

\* File.Create: truncates the file that is called .tmp, or makes a new one.
Create(p) ==
    /\ OnDisk(p, "create", "write")
    /\ \/ /\ tmp # None /\ ~BeingWritten(tmp) /\ ~BeingRead(tmp)
          /\ content' = [content EXCEPT ![tmp] = Partial]
          /\ handle' = [handle EXCEPT ![p] = tmp]
          /\ UNCHANGED tmp
       \/ /\ tmp = None
          /\ \E file \in Files :
                /\ Unused(file)
                /\ content' = [content EXCEPT ![file] = Partial]
                /\ handle' = [handle EXCEPT ![p] = file]
                /\ tmp' = file
    /\ UNCHANGED <<live, bak>>

\* The file is locked, or cannot be made.
CreateFails(p) ==
    /\ OnDisk(p, "create", "cleanup")
    /\ UNCHANGED <<disk, handle>>

\* What p writes: what it was given, or what it read less one object.
Payload(p) == IF op[p] = "save" THEN arg[p] ELSE loaded[p] \ arg[p]

Write(p) ==
    /\ OnDisk(p, "write", "reopen")
    /\ content' = [content EXCEPT ![handle[p]] = Payload(p)]
    /\ Close(p)
    /\ UNCHANGED <<live, tmp, bak>>

WriteFails(p) ==
    /\ OnDisk(p, "write", "cleanup")
    /\ Close(p)
    /\ UNCHANGED disk

Reopen(p) ==
    /\ \/ /\ tmp = None \/ BeingWritten(tmp)
          /\ OnDisk(p, "reopen", "cleanup")
          /\ UNCHANGED handle
       \/ /\ tmp # None /\ ~BeingWritten(tmp)
          /\ OnDisk(p, "reopen", "verify")
          /\ handle' = [handle EXCEPT ![p] = tmp]
    /\ UNCHANGED disk

Verify(p) ==
    /\ pc[p] = "verify"
    /\ OnDisk(p, "verify", IF content[handle[p]] = Partial THEN "cleanup" ELSE "swap")
    /\ Close(p)
    /\ UNCHANGED disk

\* The request is aborted while it writes or verifies: the exception is not one
\* of those that SaveAsync catches, so the .tmp file stays.
Abort(p) ==
    /\ \/ Finish(p, "write", <<"failed">>)
       \/ Finish(p, "verify", <<"failed">>)
       \/ Finish(p, "read", <<"failed">>)
    /\ Close(p)
    /\ UNCHANGED disk

MutantDeleteThenMove(p) ==
    /\ OnDisk(p, "swap", "move")
    /\ live' = None
    /\ UNCHANGED <<tmp, bak, content, handle>>

Swap(p) ==
    /\ OnDisk(p, "swap", IF live = None THEN "move" ELSE "unlinkBackup")
    /\ UNCHANGED <<disk, handle>>

\* File.Replace: drop the old backup, give the live file a second name, and
\* rename the .tmp file over the first.
UnlinkBackup(p) ==
    /\ OnDisk(p, "unlinkBackup", "linkBackup")
    /\ bak' = None
    /\ UNCHANGED <<live, tmp, content, handle>>

LinkBackup(p) ==
    /\ \/ /\ live # None /\ bak = None
          /\ OnDisk(p, "linkBackup", "rename")
          /\ bak' = live
       \/ /\ live = None \/ bak # None
          /\ OnDisk(p, "linkBackup", "cleanup")
          /\ UNCHANGED bak
    /\ UNCHANGED <<live, tmp, content, handle>>

Rename(p) ==
    /\ \/ /\ tmp # None
          /\ live' = tmp
          /\ tmp' = None
          /\ Finish(p, "rename", <<"ok">>)
       \/ /\ tmp = None
          /\ OnDisk(p, "rename", "cleanup")
          /\ UNCHANGED <<live, tmp>>
    /\ UNCHANGED <<bak, content, handle>>

\* File.Move, which does not overwrite.
Move(p) ==
    /\ \/ /\ tmp # None /\ live = None
          /\ live' = tmp
          /\ tmp' = None
          /\ Finish(p, "move", <<"ok">>)
       \/ /\ tmp = None \/ live # None
          /\ OnDisk(p, "move", "cleanup")
          /\ UNCHANGED <<live, tmp>>
    /\ UNCHANGED <<bak, content, handle>>

\* catch: the .tmp file goes, whoever is writing it.
Cleanup(p) ==
    /\ Finish(p, "cleanup", <<"failed">>)
    /\ tmp' = None
    /\ UNCHANGED <<live, bak, content, handle>>

---------------------------------------------------------------------------
(* ResetAsync, once it has seen a live file *)

Delete(p) ==
    /\ live' = None
    /\ Finish(p, "delete", <<"ok">>)
    /\ UNCHANGED <<tmp, bak, content, handle>>

---------------------------------------------------------------------------
(* Requests *)

Start(p, what, with, there) ==
    LET overlaps == what \in Writes /\ \E q \in Requests : op[q] \in Writes IN
    /\ Goto(p, "idle", there)
    /\ op' = [op EXCEPT ![p] = what]
    /\ arg' = [arg EXCEPT ![p] = with]
    /\ overlapped' = (overlapped \/ overlaps)
    /\ expected' = IF overlaps THEN {} ELSE expected
    /\ UNCHANGED <<disk, handle, loaded, reply>>

MutantUnboundName(p) == Start(p, "resetObject", {None}, "look")

GetSettings(p)  == Start(p, "get", {}, "look")
SaveSettings(p) == \E s \in Settings : Start(p, "save", s, "create")
Reset(p)        == Start(p, "reset", {}, "look")
ResetObject(p)  == \E o \in Objects : Start(p, "resetObject", {o}, "look")

\* What the change of p makes of each of these settings.
After(p, settings) ==
    CASE op[p] = "get"         -> settings
      [] op[p] = "save"        -> {arg[p]}
      [] op[p] = "reset"       -> {None}
      [] op[p] = "resetObject" -> {IF s = None THEN None ELSE s \ arg[p] : s \in settings}

\* The answer goes out.
Answer(p) ==
    /\ Goto(p, "done", "idle")
    /\ reply' = [reply EXCEPT ![p] = None]
    /\ op' = [op EXCEPT ![p] = "get"]
    /\ arg' = [arg EXCEPT ![p] = {}]
    /\ loaded' = [loaded EXCEPT ![p] = {}]
    /\ expected' = IF reply[p] = <<"ok">> /\ ~overlapped
                   THEN After(p, expected) ELSE expected
    /\ UNCHANGED <<disk, handle, overlapped>>

\* Requests that a crash cuts short: their change may have been made or not.
CutShort == {p \in Requests : reply[p] \in {None, <<"ok">>}}

\* The process ends: nobody holds a file any more, and what was half written
\* stays half written.  From here on only what is on the disk can be expected,
\* if it is one of the settings that could be.
Crash ==
    /\ \E p \in Requests : pc[p] # "idle"
    /\ pc' = [p \in Requests |-> "idle"]
    /\ handle' = [p \in Requests |-> None]
    /\ op' = [p \in Requests |-> "get"]
    /\ arg' = [p \in Requests |-> {}]
    /\ loaded' = [p \in Requests |-> {}]
    /\ reply' = [p \in Requests |-> None]
    /\ expected' = IF overlapped THEN {}
                   ELSE {Current} \cap
                        (expected \cup UNION {After(p, expected) : p \in CutShort})
    /\ UNCHANGED <<disk, overlapped>>

---------------------------------------------------------------------------
(* The specification *)

Work(p) ==
    \/ Look(p) \/ Open(p) \/ Read(p) \/ Delete(p) \/ Abort(p)
    \/ Create(p) \/ CreateFails(p) \/ Write(p) \/ WriteFails(p)
    \/ Reopen(p) \/ Verify(p) \/ Swap(p)
    \/ UnlinkBackup(p) \/ LinkBackup(p) \/ Rename(p) \/ Move(p) \/ Cleanup(p)

Call(p) == GetSettings(p) \/ SaveSettings(p) \/ Reset(p) \/ ResetObject(p)

\* History: what was current at some time during each read.
Remember ==
    seen' = [p \in Requests |->
               IF op'[p] # "get" \/ pc'[p] = "idle" THEN {}
               ELSE seen[p] \cup {Current, Current'}]

Next ==
    /\ \/ \E p \in Requests : Call(p) \/ Work(p) \/ Answer(p)
       \/ Crash
    /\ Remember

Spec == Init /\ [][Next]_vars

---------------------------------------------------------------------------
(* Properties *)

Answers == {None, <<"ok">>, <<"failed">>} \cup
           {<<"got", s>> : s \in Answerable}

\* Every variable has its type: names refer to files of the directory, and what
\* is saved and loaded are settings, never the absence of settings.
TypeOK ==
    /\ {live, tmp, bak} \subseteq Files \cup {None}
    /\ content \in [Files -> {Partial} \cup Settings]
    /\ handle \in [Requests -> Files \cup {None}]
    /\ pc \in [Requests -> Running \cup {"idle", "done"}]
    /\ op \in [Requests -> Writes \cup {"get"}]
    /\ arg \in [Requests -> Settings]
    /\ loaded \in [Requests -> Settings]
    /\ reply \in [Requests -> Answers]
    /\ overlapped \in BOOLEAN
    /\ expected \subseteq Answerable
    /\ seen \in [Requests -> SUBSET Answerable]

\* As long as changes have not overlapped the live file is whole at every moment,
\* so also after a crash: SaveAsync truncates and writes only files that are
\* called .tmp, and the swap gives the live file's name to a verified one.
LiveIsWhole ==
    ~overlapped /\ live # None => content[live] # Partial

\* As long as changes do not overlap, the settings are, when nobody is making
\* one, what the changes that were answered with success make, one after the
\* other, of the settings before them, where a change that a crash cut short may
\* have been made or not: no change is lost, and one that failed or was aborted
\* left no trace (SaveAsync writes beside the live file and swaps).
LastChangeStays ==
    ~overlapped /\ (\A p \in Requests : op[p] \notin Writes) => Current \in expected

\* GetAsync answers settings that were current at some time while it ran, also
\* when the live file was replaced, deleted or left invalid by others meanwhile.
ReadIsCurrent ==
    \A p \in Requests :
        reply[p] # None /\ reply[p][1] = "got" => reply[p][2] \in seen[p]

\* "a crash mid-write can never corrupt the live file" (JsonFileSettingsStore.cs:
\* 12): when the process has started again the live file is whole.
CrashKeepsLiveWhole ==
    (\A p \in Requests : pc[p] = "idle") /\ live # None => content[live] # Partial

==========================================================================
