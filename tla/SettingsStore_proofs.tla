------------------------ MODULE SettingsStore_proofs ------------------------
(* Proofs about SettingsStore, for every number of requests, objects and    *)
(* files.                                                                   *)
EXTENDS SettingsStore, TLAPS

---------------------------------------------------------------------------
(* The parts of the inductive invariant *)

\* A request's place tells what it does, and whether it has a file open.
StageInv ==
    \A p \in Requests :
        /\ pc[p] = "idle" => op[p] = "get"
        /\ pc[p] = "look" => op[p] # "save"
        /\ pc[p] \in {"open", "read"} => op[p] \in {"get", "resetObject"}
        /\ pc[p] = "delete" => op[p] = "reset"
        /\ pc[p] \in Saving => op[p] \in {"save", "resetObject"}
        /\ handle[p] # None <=> pc[p] \in {"write", "read", "verify"}
        /\ reply[p] # None => pc[p] = "done"

\* Who writes a file has it alone, and the live file is not the one that is
\* called .tmp.
LockInv ==
    /\ \A p, q \in Requests : pc[p] = "write" /\ handle[q] = handle[p] => q = p
    /\ live # None => tmp # live

\* What a GetAsync has before it, and what it answers, were current during it.
ReadInv ==
    \A p \in Requests :
        /\ pc[p] = "read" /\ op[p] = "get" => Parsed(handle[p]) \in seen[p]
        /\ reply[p] # None /\ reply[p][1] = "got" =>
              op[p] = "get" /\ reply[p][2] \in seen[p]

Succeeded(p) == op[p] \in Writes /\ pc[p] = "done" /\ reply[p] = <<"ok">>

Written == {"reopen", "verify", "swap", "unlinkBackup", "linkBackup", "rename", "move"}

\* As long as changes have not overlapped: there is one at a time; the file called
\* .tmp is its own, and whole once it is written; the live file is whole; and a
\* change has an effect only when it succeeds.
SoleInv ==
    ~overlapped =>
        /\ \A p, q \in Requests : op[p] \in Writes /\ op[q] \in Writes => p = q
        /\ live # None => content[live] # Partial
        /\ \A p \in Requests :
              /\ pc[p] \in {"write", "verify"} => handle[p] = tmp
              /\ pc[p] \in Written => tmp # None /\ content[tmp] = Payload(p)
              /\ pc[p] = "read" /\ op[p] = "resetObject" => handle[p] = live
              /\ pc[p] \in Saving /\ op[p] = "resetObject" => loaded[p] = Current
              /\ Succeeded(p) => Current \in After(p, expected)
        /\ (\A p \in Requests : ~Succeeded(p)) => Current \in expected

IndInv == TypeOK /\ StageInv /\ LockInv /\ ReadInv /\ SoleInv

---------------------------------------------------------------------------
(* Types *)

\* Settings are neither missing nor half written.
LEMMA SettingsAreWhole ==
    /\ None \notin Settings /\ Partial \notin Settings
    /\ None # Partial /\ None \notin Files
BY ConstantsAssumption DEF Settings

\* What a file holds, once read, and what is current, may be answered.
LEMMA CurrentType ==
    ASSUME TypeOK
    PROVE  /\ \A file \in Files : Parsed(file) \in Answerable
           /\ Current \in Answerable
BY DEF TypeOK, Parsed, Current, Answerable

\* What the change of p makes of settings.
LEMMA AfterType ==
    ASSUME TypeOK, NEW p \in Requests, NEW settings \in SUBSET Answerable
    PROVE  After(p, settings) \subseteq Answerable
<1>1. arg[p] \in Settings /\ op[p] \in Writes \cup {"get"}
  BY DEF TypeOK
<1>2. \A s \in settings : (IF s = None THEN None ELSE s \ arg[p]) \in Answerable
  BY DEF Answerable, Settings
<1> QED BY <1>1, <1>2 DEF After, Writes, Answerable

LEMMA PayloadType ==
    ASSUME TypeOK, NEW p \in Requests
    PROVE  Payload(p) \in Settings
BY DEF TypeOK, Payload, Settings

\* Every variable but the history of reads.
DataTypes ==
    /\ {live, tmp, bak} \subseteq Files \cup {None}
    /\ content \in [Files -> {Partial} \cup Settings]
    /\ handle \in [Requests -> Files \cup {None}]
    /\ pc \in [Requests -> Running \cup {"idle", "done"}]
    /\ op \in [Requests -> Writes \cup {"get"}]
    /\ arg \in [Requests -> Settings]
    /\ loaded \in [Requests -> Settings]
    /\ reply \in [Requests -> Answers]
    /\ overlapped \in BOOLEAN
    /\ expected \subseteq Answerable

LEMMA CallTypes ==
    ASSUME TypeOK, NEW p \in Requests, Call(p)
    PROVE  DataTypes'
<1> SUFFICES ASSUME NEW what \in Writes \cup {"get"}, NEW with \in Settings,
                    NEW there \in {"look", "create"}, Start(p, what, with, there)
             PROVE  DataTypes'
  BY DEF Call, GetSettings, SaveSettings, Reset, ResetObject, Writes, Settings
<1>1. there \in Running
  BY DEF Running, Saving
<1>2. overlapped' \in BOOLEAN /\ expected' \subseteq Answerable
  BY DEF TypeOK, Start
<1> QED BY <1>1, <1>2 DEF TypeOK, DataTypes, Start, Goto, disk

LEMMA AnswerTypes ==
    ASSUME TypeOK, NEW p \in Requests, Answer(p)
    PROVE  DataTypes'
<1>1. expected' \subseteq Answerable
  BY AfterType DEF TypeOK, Answer
<1>2. None \in Answers /\ {} \in Settings
  BY DEF Answers, Settings
<1> QED BY <1>1, <1>2 DEF TypeOK, DataTypes, Answer, Goto, disk

LEMMA CrashTypes ==
    ASSUME TypeOK, Crash
    PROVE  DataTypes'
<1>1. expected' \subseteq Answerable
  BY CurrentType DEF TypeOK, Crash
<1>2. None \in Answers /\ {} \in Settings
  BY DEF Answers, Settings
<1> QED BY <1>1, <1>2 DEF TypeOK, DataTypes, Crash, disk

\* Answers and places.
LEMMA Places ==
    /\ <<"ok">> \in Answers /\ <<"failed">> \in Answers
    /\ \A s \in Answerable : <<"got", s>> \in Answers
    /\ None \in Answerable
BY DEF Answers, Answerable

LEMMA WorkTypes ==
    ASSUME TypeOK, StageInv, NEW p \in Requests, Work(p)
    PROVE  DataTypes'
<1> USE DEF TypeOK, DataTypes, Goto, OnDisk, Finish, Close, disk, past
<1>1. CASE Look(p)
  BY <1>1, Places DEF Look, Running, Saving
<1>2. CASE Open(p)
  BY <1>2, Places DEF Open, Running, Saving
<1>3. CASE Read(p)
  <2>1. handle[p] \in Files
    BY <1>3 DEF StageInv, Read
  <2>2. Parsed(handle[p]) \in Answerable
    BY <2>1, CurrentType
  <2>3. CASE op[p] = "get" /\ Finish(p, "read", <<"got", Parsed(handle[p])>>) /\ Close(p) /\ UNCHANGED disk
    BY <2>2, <2>3, Places
  <2>4. CASE Finish(p, "read", <<"ok">>) /\ Close(p) /\ UNCHANGED disk
    BY <2>4, Places
  <2>5. CASE /\ Parsed(handle[p]) # None
             /\ Goto(p, "read", "create")
             /\ loaded' = [loaded EXCEPT ![p] = Parsed(handle[p])]
             /\ UNCHANGED <<op, arg, reply, past>>
             /\ Close(p) /\ UNCHANGED disk
    <3>1. Parsed(handle[p]) \in Settings
      BY <2>2, <2>5 DEF Answerable
    <3> QED BY <2>5, <3>1 DEF Running, Saving
  <2> QED BY <1>3, <2>3, <2>4, <2>5 DEF Read
<1>4. CASE Delete(p)
  BY <1>4, Places DEF Delete
<1>5. CASE Abort(p)
  BY <1>5, Places DEF Abort
<1>6. CASE Create(p)
  BY <1>6 DEF Create, Running, Saving
<1>7. CASE CreateFails(p)
  BY <1>7 DEF CreateFails, Running, Saving
<1>8. CASE Write(p)
  BY <1>8, PayloadType DEF Write, Running, Saving
<1>9. CASE WriteFails(p)
  BY <1>9 DEF WriteFails, Running, Saving
<1>10. CASE Reopen(p)
  BY <1>10 DEF Reopen, Running, Saving
<1>11. CASE Verify(p)
  BY <1>11 DEF Verify, Running, Saving
<1>12. CASE Swap(p)
  BY <1>12 DEF Swap, Running, Saving
<1>13. CASE UnlinkBackup(p)
  BY <1>13 DEF UnlinkBackup, Running, Saving
<1>14. CASE LinkBackup(p)
  BY <1>14 DEF LinkBackup, Running, Saving
<1>15. CASE Rename(p)
  BY <1>15, Places DEF Rename, Running, Saving
<1>16. CASE Move(p)
  BY <1>16, Places DEF Move, Running, Saving
<1>17. CASE Cleanup(p)
  BY <1>17, Places DEF Cleanup
<1> QED BY <1>1, <1>2, <1>3, <1>4, <1>5, <1>6, <1>7, <1>8, <1>9, <1>10, <1>11, <1>12,
           <1>13, <1>14, <1>15, <1>16, <1>17 DEF Work

LEMMA TypeStep ==
    ASSUME TypeOK, StageInv, Next
    PROVE  TypeOK'
<1>1. DataTypes'
  BY CallTypes, AnswerTypes, CrashTypes, WorkTypes DEF Next
<1>2. Current \in Answerable /\ Current' \in Answerable
  <2>1. Current \in Answerable
    BY CurrentType
  <2>2. live' # None => live' \in Files /\ content'[live'] \in {Partial} \cup Settings
    BY <1>1 DEF DataTypes
  <2> QED BY <2>1, <2>2 DEF Current, Parsed, Answerable
<1>3. seen' \in [Requests -> SUBSET Answerable]
  BY <1>2 DEF TypeOK, Next, Remember
<1> QED BY <1>1, <1>3 DEF TypeOK, DataTypes

---------------------------------------------------------------------------
(* Places *)

\* Each step of a request leaves it where what it does has it go.
LEMMA StageWork ==
    ASSUME TypeOK, StageInv, NEW p \in Requests, Work(p)
    PROVE  StageInv'
<1> USE SettingsAreWhole DEF TypeOK, StageInv, Goto, OnDisk, Finish, Close, past, Saving, Writes
<1>1. CASE Look(p)
  BY <1>1 DEF Look, disk
<1>2. CASE Open(p)
  BY <1>2 DEF Open, disk
<1>3. CASE Read(p)
  BY <1>3 DEF Read, disk
<1>4. CASE Delete(p)
  BY <1>4 DEF Delete, disk
<1>5. CASE Abort(p)
  BY <1>5 DEF Abort, disk
<1>6. CASE Create(p)
  BY <1>6 DEF Create, disk
<1>7. CASE CreateFails(p)
  BY <1>7 DEF CreateFails, disk
<1>8. CASE Write(p)
  BY <1>8 DEF Write, disk
<1>9. CASE WriteFails(p)
  BY <1>9 DEF WriteFails, disk
<1>10. CASE Reopen(p)
  BY <1>10 DEF Reopen, disk
<1>11. CASE Verify(p)
  BY <1>11 DEF Verify, disk
<1>12. CASE Swap(p)
  BY <1>12 DEF Swap, disk
<1>13. CASE UnlinkBackup(p)
  BY <1>13 DEF UnlinkBackup, disk
<1>14. CASE LinkBackup(p)
  BY <1>14 DEF LinkBackup, disk
<1>15. CASE Rename(p)
  BY <1>15 DEF Rename, disk
<1>16. CASE Move(p)
  BY <1>16 DEF Move, disk
<1>17. CASE Cleanup(p)
  BY <1>17 DEF Cleanup, disk
<1> QED BY <1>1, <1>2, <1>3, <1>4, <1>5, <1>6, <1>7, <1>8, <1>9, <1>10, <1>11, <1>12, <1>13, <1>14, <1>15, <1>16, <1>17 DEF Work

LEMMA StageStep ==
    ASSUME TypeOK, StageInv, Next
    PROVE  StageInv'
<1> USE SettingsAreWhole DEF TypeOK, StageInv, Goto, disk, past, Saving, Writes
<1>1. ASSUME NEW p \in Requests, Call(p) PROVE StageInv'
  BY <1>1 DEF Call, GetSettings, SaveSettings, Reset, ResetObject, Start
<1>2. ASSUME NEW p \in Requests, Answer(p) PROVE StageInv'
  BY <1>2 DEF Answer
<1>3. CASE Crash
  BY <1>3 DEF Crash
<1> QED BY <1>1, <1>2, <1>3, StageWork DEF Next

---------------------------------------------------------------------------
(* Who writes a file has it alone *)

LEMMA LockWork ==
    ASSUME TypeOK, StageInv, LockInv, NEW p \in Requests, Work(p)
    PROVE  LockInv'
<1> USE SettingsAreWhole DEF TypeOK, LockInv, Goto, OnDisk, Finish, Close, past, BeingWritten, BeingRead
<1>1. CASE Look(p)
  BY <1>1 DEF Look, disk, Unused, StageInv
<1>2. CASE Open(p)
  BY <1>2 DEF Open, disk, Unused, StageInv
<1>3. CASE Read(p)
  BY <1>3 DEF Read, disk, Unused, StageInv
<1>4. CASE Delete(p)
  BY <1>4 DEF Delete, disk, Unused, StageInv
<1>5. CASE Abort(p)
  BY <1>5 DEF Abort, disk, Unused, StageInv
<1>6. CASE Create(p)
  BY <1>6 DEF Create, disk, Unused, StageInv
<1>7. CASE CreateFails(p)
  BY <1>7 DEF CreateFails, disk, Unused, StageInv
<1>8. CASE Write(p)
  BY <1>8 DEF Write, disk, Unused, StageInv
<1>9. CASE WriteFails(p)
  BY <1>9 DEF WriteFails, disk, Unused, StageInv
<1>10. CASE Reopen(p)
  BY <1>10 DEF Reopen, disk, Unused, StageInv
<1>11. CASE Verify(p)
  BY <1>11 DEF Verify, disk, Unused, StageInv
<1>12. CASE Swap(p)
  BY <1>12 DEF Swap, disk, Unused, StageInv
<1>13. CASE UnlinkBackup(p)
  BY <1>13 DEF UnlinkBackup, disk, Unused, StageInv
<1>14. CASE LinkBackup(p)
  BY <1>14 DEF LinkBackup, disk, Unused, StageInv
<1>15. CASE Rename(p)
  BY <1>15 DEF Rename, disk, Unused, StageInv
<1>16. CASE Move(p)
  BY <1>16 DEF Move, disk, Unused, StageInv
<1>17. CASE Cleanup(p)
  BY <1>17 DEF Cleanup, disk, Unused, StageInv
<1> QED BY <1>1, <1>2, <1>3, <1>4, <1>5, <1>6, <1>7, <1>8, <1>9, <1>10, <1>11, <1>12, <1>13, <1>14, <1>15, <1>16, <1>17 DEF Work

LEMMA LockStep ==
    ASSUME TypeOK, StageInv, LockInv, Next
    PROVE  LockInv'
<1> USE DEF TypeOK, LockInv, Goto, disk, past
<1>1. ASSUME NEW p \in Requests, Call(p) PROVE LockInv'
  BY <1>1 DEF Call, GetSettings, SaveSettings, Reset, ResetObject, Start
<1>2. ASSUME NEW p \in Requests, Answer(p) PROVE LockInv'
  BY <1>2 DEF Answer
<1>3. CASE Crash
  BY <1>3 DEF Crash
<1> QED BY <1>1, <1>2, <1>3, LockWork DEF Next

---------------------------------------------------------------------------
(* What is read was current *)

\* What is current before or after a step of a read is remembered.
LEMMA SeenGrows ==
    ASSUME TypeOK, Remember, NEW p \in Requests, op'[p] = "get", pc'[p] # "idle"
    PROVE  seen'[p] = seen[p] \cup {Current, Current'}
BY DEF TypeOK, Remember

\* A step that leaves alone what p reads and answers, and is no step of p.
LEMMA OthersRead ==
    ASSUME TypeOK, StageInv, ReadInv, Remember, NEW p \in Requests,
           op'[p] = op[p], pc'[p] = pc[p], reply'[p] = reply[p], handle'[p] = handle[p],
           pc[p] = "read" => content'[handle[p]] = content[handle[p]]
    PROVE  /\ pc'[p] = "read" /\ op'[p] = "get" => Parsed(handle[p])' \in seen'[p]
           /\ reply'[p] # None /\ reply'[p][1] = "got" =>
                 op'[p] = "get" /\ reply'[p][2] \in seen'[p]
<1>1. CASE pc[p] = "read" /\ op[p] = "get"
  <2>1. Parsed(handle[p])' = Parsed(handle[p])
    BY <1>1 DEF Parsed
  <2>2. reply'[p] = None
    BY <1>1 DEF StageInv
  <2> QED BY <1>1, <2>1, <2>2, SeenGrows DEF ReadInv
<1>2. CASE reply[p] # None /\ reply[p][1] = "got"
  <2>1. pc'[p] = "done" /\ op'[p] = "get"
    BY <1>2 DEF StageInv, ReadInv
  <2> QED BY <1>2, <2>1, SeenGrows DEF ReadInv
<1> QED BY <1>1, <1>2

LEMMA ReadWork ==
    ASSUME TypeOK, StageInv, LockInv, ReadInv, Remember, NEW p \in Requests, Work(p)
    PROVE  ReadInv'
<1>1. ASSUME NEW q \in Requests, q # p
      PROVE  /\ op'[q] = op[q] /\ pc'[q] = pc[q] /\ reply'[q] = reply[q] /\ handle'[q] = handle[q]
             /\ pc[q] = "read" => content'[handle[q]] = content[handle[q]]
  <2> USE <1>1 DEF TypeOK, Goto, OnDisk, Finish, Close, disk, past
  <2>1. CASE Look(p)
    BY <2>1 DEF Look
  <2>2. CASE Open(p)
    BY <2>2 DEF Open
  <2>3. CASE Read(p)
    BY <2>3 DEF Read
  <2>4. CASE Delete(p)
    BY <2>4 DEF Delete
  <2>5. CASE Abort(p)
    BY <2>5 DEF Abort
  <2>6. CASE Create(p)
    BY <2>6, SettingsAreWhole DEF Create, Unused, BeingRead, StageInv
  <2>7. CASE CreateFails(p)
    BY <2>7 DEF CreateFails
  <2>8. CASE Write(p)
    BY <2>8, SettingsAreWhole DEF Write, LockInv, StageInv
  <2>9. CASE WriteFails(p)
    BY <2>9 DEF WriteFails
  <2>10. CASE Reopen(p)
    BY <2>10 DEF Reopen
  <2>11. CASE Verify(p)
    BY <2>11 DEF Verify
  <2>12. CASE Swap(p)
    BY <2>12 DEF Swap
  <2>13. CASE UnlinkBackup(p)
    BY <2>13 DEF UnlinkBackup
  <2>14. CASE LinkBackup(p)
    BY <2>14 DEF LinkBackup
  <2>15. CASE Rename(p)
    BY <2>15 DEF Rename
  <2>16. CASE Move(p)
    BY <2>16 DEF Move
  <2>17. CASE Cleanup(p)
    BY <2>17 DEF Cleanup
  <2> QED BY <2>1, <2>2, <2>3, <2>4, <2>5, <2>6, <2>7, <2>8, <2>9, <2>10, <2>11, <2>12, <2>13, <2>14, <2>15, <2>16, <2>17 DEF Work
<1>2. /\ pc'[p] = "read" /\ op'[p] = "get" => Parsed(handle[p])' \in seen'[p]
      /\ reply'[p] # None /\ reply'[p][1] = "got" =>
            op'[p] = "get" /\ reply'[p][2] \in seen'[p]
  <2>1. CASE Look(p)
    <3>1. pc'[p] # "read"
      BY <2>1 DEF Look, TypeOK, Goto, OnDisk, Finish
    <3>2. reply[p] = None
      BY <2>1 DEF StageInv, Look, Goto, OnDisk, Finish
    <3>3. CASE live = None /\ op[p] = "get" /\ reply'[p] = <<"got", None>>
      <4>1. Current = None /\ op'[p] = "get" /\ pc'[p] # "idle"
        BY <2>1, <3>3 DEF Current, Look, Finish, OnDisk, Goto, TypeOK
      <4> QED BY <3>1, <3>3, <4>1, SeenGrows
    <3>4. CASE reply'[p] \in {None, <<"ok">>}
      BY <3>1, <3>4
    <3>5. reply'[p] \in {None, <<"ok">>} \/ (live = None /\ op[p] = "get" /\ reply'[p] = <<"got", None>>)
      BY <2>1, <3>2 DEF Look, TypeOK, Finish, OnDisk, Goto
    <3> QED BY <3>3, <3>4, <3>5
  <2>2. CASE Open(p)
    <3>1. CASE pc'[p] = "read" /\ op'[p] = "get"
      <4>1. live # None /\ handle'[p] = live /\ content' = content
        BY <2>2, <3>1 DEF Open, TypeOK, Finish, OnDisk, Goto, disk
      <4>2. Parsed(handle[p])' = Current
        BY <4>1 DEF Parsed, Current
      <4>3. reply'[p] = None
        BY <2>2, <3>1 DEF Open, TypeOK, StageInv, Finish, OnDisk, Goto
      <4> QED BY <3>1, <4>2, <4>3, SeenGrows
    <3>2. reply'[p] \in {None, <<"failed">>}
      BY <2>2 DEF Open, TypeOK, StageInv, Finish, OnDisk, Goto
    <3> QED BY <3>1, <3>2
  <2>3. CASE Read(p)
    <3>1. pc'[p] # "read"
      BY <2>3 DEF Read, TypeOK, Finish, Goto
    <3>2. CASE op[p] = "get" /\ reply'[p] = <<"got", Parsed(handle[p])>>
      <4>1. pc[p] = "read" /\ pc'[p] = "done" /\ op'[p] = "get"
        BY <2>3, <3>2 DEF Read, TypeOK, Finish, Goto
      <4> QED BY <3>1, <3>2, <4>1, SeenGrows DEF ReadInv
    <3>3. reply'[p] \in {None, <<"ok">>} \/ (op[p] = "get" /\ reply'[p] = <<"got", Parsed(handle[p])>>)
      BY <2>3 DEF Read, TypeOK, StageInv, Finish, Goto
    <3> QED BY <3>1, <3>2, <3>3
  <2>4. CASE ~(Look(p) \/ Open(p) \/ Read(p))
    <3> USE DEF TypeOK, StageInv, Goto, OnDisk, Finish
    <3>1. pc'[p] # "read" /\ reply'[p] \in {None, <<"ok">>, <<"failed">>}
      <4>1. CASE Delete(p)
        BY <4>1 DEF Delete
      <4>2. CASE Abort(p)
        BY <4>2 DEF Abort
      <4>3. CASE Create(p)
        BY <4>3 DEF Create
      <4>4. CASE CreateFails(p)
        BY <4>4 DEF CreateFails
      <4>5. CASE Write(p)
        BY <4>5 DEF Write
      <4>6. CASE WriteFails(p)
        BY <4>6 DEF WriteFails
      <4>7. CASE Reopen(p)
        BY <4>7 DEF Reopen
      <4>8. CASE Verify(p)
        BY <4>8 DEF Verify
      <4>9. CASE Swap(p)
        BY <4>9 DEF Swap
      <4>10. CASE UnlinkBackup(p)
        BY <4>10 DEF UnlinkBackup
      <4>11. CASE LinkBackup(p)
        BY <4>11 DEF LinkBackup
      <4>12. CASE Rename(p)
        BY <4>12 DEF Rename
      <4>13. CASE Move(p)
        BY <4>13 DEF Move
      <4>14. CASE Cleanup(p)
        BY <4>14 DEF Cleanup
      <4> QED BY <2>4, <4>1, <4>2, <4>3, <4>4, <4>5, <4>6, <4>7, <4>8, <4>9, <4>10, <4>11, <4>12, <4>13, <4>14 DEF Work
    <3> QED BY <3>1
  <2> QED BY <2>1, <2>2, <2>3, <2>4
<1>3. ASSUME NEW q \in Requests, q # p
      PROVE  /\ pc'[q] = "read" /\ op'[q] = "get" => Parsed(handle[q])' \in seen'[q]
             /\ reply'[q] # None /\ reply'[q][1] = "got" =>
                   op'[q] = "get" /\ reply'[q][2] \in seen'[q]
  BY <1>1, <1>3, OthersRead
<1> QED BY <1>2, <1>3 DEF ReadInv

LEMMA ReadStep ==
    ASSUME TypeOK, StageInv, LockInv, ReadInv, Next
    PROVE  ReadInv'
<1>1. ASSUME NEW p \in Requests, Call(p) \/ Answer(p), Remember
      PROVE  ReadInv'
  <2>1. /\ pc'[p] # "read" /\ reply'[p] = None /\ content' = content
        /\ \A q \in Requests \ {p} : /\ op'[q] = op[q] /\ pc'[q] = pc[q]
                                     /\ reply'[q] = reply[q] /\ handle'[q] = handle[q]
    BY <1>1 DEF Call, GetSettings, SaveSettings, Reset, ResetObject, Start, Answer, Goto,
                TypeOK, StageInv, disk
  <2>2. ASSUME NEW q \in Requests, q # p
        PROVE  /\ pc'[q] = "read" /\ op'[q] = "get" => Parsed(handle[q])' \in seen'[q]
               /\ reply'[q] # None /\ reply'[q][1] = "got" =>
                     op'[q] = "get" /\ reply'[q][2] \in seen'[q]
    BY <1>1, <2>1, <2>2, OthersRead
  <2> QED BY <2>1, <2>2 DEF ReadInv
<1>2. CASE Crash
  BY <1>2 DEF Crash, ReadInv
<1> QED BY <1>1, <1>2, ReadWork DEF Next

---------------------------------------------------------------------------
(* One change at a time *)

\* What SoleInv says of p when it is the one that makes a change.
OwnInv(p) ==
    /\ live # None => content[live] # Partial
    /\ pc[p] \in {"write", "verify"} => handle[p] = tmp
    /\ pc[p] \in Written => tmp # None /\ content[tmp] = Payload(p)
    /\ pc[p] = "read" /\ op[p] = "resetObject" => handle[p] = live
    /\ pc[p] \in Saving /\ op[p] = "resetObject" => loaded[p] = Current
    /\ Succeeded(p) => Current \in After(p, expected)
    /\ ~Succeeded(p) => Current \in expected

Alone(p) == op[p] \in Writes /\ \A q \in Requests : q # p => op[q] = "get"

LEMMA OwnOfSole ==
    ASSUME TypeOK, SoleInv, ~overlapped, NEW p \in Requests, op[p] \in Writes
    PROVE  Alone(p) /\ OwnInv(p)
<1>1. Alone(p)
  BY DEF Alone, SoleInv, TypeOK
<1>2. \A q \in Requests : Succeeded(q) => q = p
  BY <1>1 DEF Alone, Succeeded, Writes
<1> QED BY <1>1, <1>2 DEF SoleInv, OwnInv

LEMMA SoleOfOwn ==
    ASSUME StageInv, NEW p \in Requests, Alone(p), OwnInv(p)
    PROVE  SoleInv
<1>1. \A q \in Requests : q # p => op[q] \notin Writes /\ ~Succeeded(q) /\ pc[q] \notin Saving
  BY DEF Alone, StageInv, Succeeded, Writes
<1>2. {"write", "verify"} \subseteq Saving /\ Written \subseteq Saving
  BY DEF Saving, Written
<1>3. \A q \in Requests : q # p => op[q] # "resetObject"
  BY DEF Alone
<1> QED BY <1>1, <1>2, <1>3 DEF SoleInv, OwnInv

\* A step of a read leaves the change of another as it is.
LEMMA SoleFrame ==
    ASSUME StageInv', SoleInv, NEW p \in Requests,
           op[p] = "get", op'[p] = "get", UNCHANGED <<disk, past>>,
           \A q \in Requests : q # p => /\ op'[q] = op[q] /\ arg'[q] = arg[q]
                                       /\ loaded'[q] = loaded[q] /\ pc'[q] = pc[q]
                                       /\ reply'[q] = reply[q] /\ handle'[q] = handle[q]
    PROVE  SoleInv'
<1> SUFFICES ASSUME ~overlapped PROVE SoleInv'
  BY DEF SoleInv, past
<1>1. Current' = Current
  BY DEF Current, Parsed, disk
<1>2. pc'[p] \notin Saving /\ ~Succeeded(p)' /\ ~Succeeded(p)
  BY DEF StageInv, Succeeded, Writes
<1>3. {"write", "verify"} \subseteq Saving /\ Written \subseteq Saving
  BY DEF Saving, Written
<1>4. \A q \in Requests : q # p => /\ Payload(q)' = Payload(q)
                                   /\ Succeeded(q)' = Succeeded(q)
                                   /\ After(q, expected)' = After(q, expected)
  BY DEF Payload, Succeeded, After, past
<1>5. (\A q \in Requests : ~Succeeded(q)') => Current' \in expected'
  BY <1>1, <1>2, <1>4 DEF SoleInv, past
<1>6. \A q, r \in Requests : op'[q] \in Writes /\ op'[r] \in Writes => q = r
  BY DEF SoleInv, Writes
<1>7. live' # None => content'[live'] # Partial
  BY DEF SoleInv, disk
<1>8. ASSUME NEW q \in Requests
      PROVE  /\ pc'[q] \in {"write", "verify"} => handle'[q] = tmp'
             /\ pc'[q] \in Written => tmp' # None /\ content'[tmp'] = Payload(q)'
             /\ pc'[q] = "read" /\ op'[q] = "resetObject" => handle'[q] = live'
             /\ pc'[q] \in Saving /\ op'[q] = "resetObject" => loaded'[q] = Current'
             /\ Succeeded(q)' => Current' \in After(q, expected)'
  <2>1. CASE q = p
    BY <1>2, <1>3, <2>1
  <2>2. CASE q # p
    BY <1>1, <1>4, <2>2 DEF SoleInv, disk
  <2> QED BY <2>1, <2>2
<1> QED BY <1>5, <1>6, <1>7, <1>8 DEF SoleInv

\* The steps of a change before it has an effect.
LEMMA OwnBefore ==
    ASSUME TypeOK, StageInv, LockInv, NEW p \in Requests, Alone(p), OwnInv(p),
           \/ Look(p) \/ Open(p) \/ Read(p) \/ Abort(p) \/ CreateFails(p) \/ WriteFails(p)
           \/ Reopen(p) \/ Verify(p) \/ Swap(p)
    PROVE  OwnInv(p)'
<1>1. /\ UNCHANGED <<disk, past, op, arg>>
      /\ op[p] \in Writes /\ pc[p] # "done"
  BY DEF Look, Open, Read, Abort, CreateFails, WriteFails, Reopen, Verify, Swap, OnDisk, Finish,
         Goto, Alone, past
<1>2. Current' = Current
  BY <1>1 DEF Current, Parsed, disk
<1>3. Current \in expected /\ After(p, expected)' = After(p, expected)
  BY <1>1 DEF OwnInv, Succeeded, After, past
<1>4. live' # None => content'[live'] # Partial
  BY <1>1 DEF OwnInv, disk
<1> USE SettingsAreWhole DEF Goto, OnDisk, Finish, Close, TypeOK
<1>5. pc'[p] \in {"write", "verify"} => handle'[p] = tmp'
  BY <1>1 DEF Look, Open, Read, Abort, CreateFails, WriteFails, Reopen, Verify, Swap, disk
<1>6. pc'[p] \in Written => tmp' # None /\ content'[tmp'] = Payload(p)'
  <2>1. pc'[p] \in Written => pc[p] \in Written
    BY DEF Look, Open, Read, Abort, CreateFails, WriteFails, Reopen, Verify, Swap, Written
  <2>2. pc'[p] \in Written => loaded' = loaded
    BY DEF Look, Open, Read, Abort, CreateFails, WriteFails, Reopen, Verify, Swap, Written
  <2> QED BY <1>1, <2>1, <2>2 DEF OwnInv, Payload, disk
<1>7. pc'[p] = "read" /\ op'[p] = "resetObject" => handle'[p] = live'
  BY <1>1 DEF Look, Open, Read, Abort, CreateFails, WriteFails, Reopen, Verify, Swap, disk
<1>8. pc'[p] \in Saving /\ op'[p] = "resetObject" => loaded'[p] = Current'
  <2>1. CASE Read(p) /\ pc'[p] = "create"
    <3>1. op[p] = "resetObject" /\ handle[p] = live /\ live # None
      BY <1>1, <2>1 DEF Read, StageInv, OwnInv, Writes
    <3>2. loaded'[p] = Parsed(live)
      BY <2>1, <3>1 DEF Read
    <3> QED BY <1>2, <3>1, <3>2 DEF Current
  <2>2. CASE ~(Read(p) /\ pc'[p] = "create") /\ pc'[p] \in Saving
    <3>1. pc[p] \in Saving /\ loaded' = loaded
      BY <2>2 DEF Look, Open, Read, Abort, CreateFails, WriteFails, Reopen, Verify, Swap, Saving
    <3> QED BY <1>1, <1>2, <3>1 DEF OwnInv
  <2> QED BY <2>1, <2>2
<1>9. Succeeded(p)' => Current' \in After(p, expected)'
  <2> SUFFICES ASSUME Succeeded(p)' PROVE Current \in After(p, expected)
    BY <1>2, <1>3
  <2>1. Look(p) \/ Read(p)
    BY DEF Succeeded, Look, Open, Read, Abort, CreateFails, WriteFails, Reopen, Verify, Swap, StageInv
  <2>2. CASE Look(p)
    <3>1. live = None /\ op[p] \in {"reset", "resetObject"}
      BY <1>1, <2>2 DEF Succeeded, Look, StageInv, Writes
    <3>2. Current = None
      BY <3>1 DEF Current
    <3> QED BY <1>3, <3>1, <3>2 DEF After
  <2>3. CASE Read(p)
    <3>1. op[p] = "resetObject" /\ handle[p] = live /\ live # None
      BY <1>1, <2>3 DEF Read, StageInv, OwnInv, Writes
    <3>2. Parsed(live) = None \/ (Parsed(live) # None /\ arg[p] \cap Parsed(live) = {})
      BY <2>3, <3>1 DEF Read, Succeeded
    <3>3. Current = None \/ (Current # None /\ Current \in Settings /\ arg[p] \cap Current = {})
      BY <3>1, <3>2, CurrentType DEF Current, Answerable
    <3>4. Current = IF Current = None THEN None ELSE Current \ arg[p]
      BY <3>3 DEF Settings
    <3> QED BY <1>3, <3>1, <3>4 DEF After
  <2> QED BY <2>1, <2>2, <2>3
<1> HIDE DEF Goto, OnDisk, Finish, Close, TypeOK
<1>10. ~Succeeded(p)' => Current' \in expected'
  BY <1>1, <1>2, <1>3 DEF past
<1> QED BY <1>4, <1>5, <1>6, <1>7, <1>8, <1>9, <1>10 DEF OwnInv

\* The steps that write beside the live file.
LEMMA OwnBeside ==
    ASSUME TypeOK, StageInv, LockInv, NEW p \in Requests, Alone(p), OwnInv(p),
           Create(p) \/ Write(p) \/ UnlinkBackup(p) \/ LinkBackup(p) \/ Cleanup(p)
    PROVE  OwnInv(p)'
<1> USE SettingsAreWhole DEF Goto, OnDisk, Finish, Close, TypeOK
<1>1. /\ UNCHANGED <<live, past, op, arg, loaded>>
      /\ op[p] \in Writes /\ pc[p] # "done" /\ ~Succeeded(p)'
      /\ pc'[p] # "read"
  BY DEF Create, Write, UnlinkBackup, LinkBackup, Cleanup, Alone, past, Succeeded
<1>2. live # None => content'[live] = content[live]
  <2>1. CASE Create(p)
    BY <2>1 DEF Create, Unused, LockInv
  <2>2. CASE Write(p)
    <3>1. handle[p] = tmp
      BY <2>2 DEF Write, OwnInv
    <3> QED BY <2>2, <3>1 DEF Write, LockInv
  <2>3. CASE UnlinkBackup(p) \/ LinkBackup(p) \/ Cleanup(p)
    BY <2>3 DEF UnlinkBackup, LinkBackup, Cleanup
  <2> QED BY <2>1, <2>2, <2>3
<1>3. Current' = Current
  BY <1>1, <1>2 DEF Current, Parsed
<1>4. Current \in expected /\ After(p, expected)' = After(p, expected)
  BY <1>1 DEF OwnInv, Succeeded, After, past
<1>5. live' # None => content'[live'] # Partial
  BY <1>1, <1>2 DEF OwnInv
<1>6. pc'[p] \in {"write", "verify"} => handle'[p] = tmp'
  BY DEF Create, Write, UnlinkBackup, LinkBackup, Cleanup, disk
<1>7. pc'[p] \in Written => tmp' # None /\ content'[tmp'] = Payload(p)'
  <2>1. Payload(p)' = Payload(p)
    BY <1>1 DEF Payload
  <2>2. CASE Write(p)
    <3>1. handle[p] = tmp /\ handle[p] # None /\ tmp' = tmp
      BY <2>2 DEF Write, OwnInv, StageInv
    <3> QED BY <2>1, <2>2, <3>1 DEF Write
  <2>3. CASE UnlinkBackup(p) \/ LinkBackup(p)
    BY <2>1, <2>3 DEF UnlinkBackup, LinkBackup, OwnInv, Written
  <2>4. CASE Create(p) \/ Cleanup(p)
    BY <2>4 DEF Create, Cleanup, Written
  <2> QED BY <2>2, <2>3, <2>4
<1>8. pc'[p] \in Saving /\ op'[p] = "resetObject" => loaded'[p] = Current'
  BY <1>1, <1>3 DEF Create, Write, UnlinkBackup, LinkBackup, Cleanup, Saving, OwnInv
<1> QED BY <1>1, <1>3, <1>4, <1>5, <1>6, <1>7, <1>8 DEF OwnInv, past

\* The live file's name goes to the one written.
LEMMA OwnSwap ==
    ASSUME TypeOK, StageInv, LockInv, NEW p \in Requests, Alone(p), OwnInv(p),
           Rename(p) \/ Move(p)
    PROVE  OwnInv(p)'
<1> USE SettingsAreWhole DEF Goto, OnDisk, Finish, Close, TypeOK
<1>1. /\ UNCHANGED <<content, handle, past, op, arg, loaded>>
      /\ pc[p] \in {"rename", "move"} /\ op[p] \in {"save", "resetObject"}
      /\ pc'[p] \in {"cleanup", "done"}
  BY DEF Rename, Move, StageInv, Saving
<1>2. tmp # None /\ content[tmp] = Payload(p) /\ Payload(p) \in Settings
  BY <1>1, PayloadType DEF OwnInv, Written
<1>3. After(p, expected)' = After(p, expected)
  BY <1>1 DEF After, past
<1>4. Current \in expected
  BY <1>1 DEF OwnInv, Succeeded
<1>5. CASE pc'[p] = "done"
  <2>1. live' = tmp /\ reply'[p] = <<"ok">>
    BY <1>5 DEF Rename, Move
  <2>2. Current' = Payload(p)
    BY <1>1, <1>2, <2>1 DEF Current, Parsed
  <2>3. Payload(p) \in After(p, expected)
    <3>1. CASE op[p] = "save"
      BY <3>1 DEF Payload, After
    <3>2. CASE op[p] = "resetObject"
      <4>1. loaded[p] = Current /\ loaded[p] \in Settings
        BY <1>1, <3>2 DEF OwnInv, Saving
      <4>2. Payload(p) = IF Current = None THEN None ELSE Current \ arg[p]
        BY <3>2, <4>1 DEF Payload
      <4> QED BY <1>4, <3>2, <4>2 DEF After
    <3> QED BY <1>1, <3>1, <3>2
  <2>4. Succeeded(p)'
    BY <1>1, <1>5, <2>1 DEF Succeeded, Writes
  <2> QED BY <1>1, <1>2, <1>3, <1>5, <2>1, <2>2, <2>3, <2>4 DEF OwnInv, Written, Saving
<1>6. CASE pc'[p] = "cleanup"
  <2>1. live' = live /\ ~Succeeded(p)'
    BY <1>6 DEF Rename, Move, Succeeded
  <2>2. Current' = Current
    BY <1>1, <2>1 DEF Current, Parsed
  <2>3. loaded'[p] = Current' \/ op'[p] # "resetObject"
    BY <1>1, <2>2 DEF OwnInv, Saving
  <2>4. live' # None => content'[live'] # Partial
    BY <1>1, <2>1 DEF OwnInv
  <2> QED BY <1>1, <1>4, <1>6, <2>1, <2>2, <2>3, <2>4 DEF OwnInv, Written, past
<1> QED BY <1>1, <1>5, <1>6

LEMMA OwnDelete ==
    ASSUME TypeOK, StageInv, NEW p \in Requests, Alone(p), OwnInv(p), Delete(p)
    PROVE  OwnInv(p)'
<1>1. /\ live' = None /\ pc'[p] = "done" /\ op'[p] = "reset" /\ reply'[p] = <<"ok">>
  BY DEF Delete, Finish, Goto, TypeOK, StageInv
<1>2. Current' = None /\ After(p, expected)' = {None} /\ Succeeded(p)'
  BY <1>1 DEF Current, After, Succeeded, Writes
<1> QED BY <1>1, <1>2 DEF OwnInv, Written, Saving

LEMMA SoleWork ==
    ASSUME TypeOK, StageInv, LockInv, SoleInv, StageInv', NEW p \in Requests, Work(p)
    PROVE  SoleInv'
<1>1. UNCHANGED <<op, arg, past>>
  BY DEF Work, Look, Open, Read, Delete, Abort, Create, CreateFails, Write, WriteFails, Reopen,
         Verify, Swap, UnlinkBackup, LinkBackup, Rename, Move, Cleanup, OnDisk, Finish, past
<1> SUFFICES ASSUME ~overlapped PROVE SoleInv'
  BY <1>1 DEF SoleInv, past
<1>2. CASE op[p] = "get"
  <2>1. ~(pc[p] \in Saving \cup {"delete"})
    BY <1>2 DEF StageInv
  <2>2. Look(p) \/ Open(p) \/ Read(p) \/ Abort(p)
    BY <2>1 DEF Work, Delete, Create, CreateFails, Write, WriteFails, Reopen, Verify, Swap,
                UnlinkBackup, LinkBackup, Rename, Move, Cleanup, OnDisk, Finish, Goto, Saving
  <2>3. UNCHANGED disk
    BY <2>2 DEF Look, Open, Read, Abort
  <2>4. \A q \in Requests : q # p => /\ loaded'[q] = loaded[q] /\ pc'[q] = pc[q]
                                     /\ reply'[q] = reply[q] /\ handle'[q] = handle[q]
    BY <2>2 DEF Look, Open, Read, Abort, OnDisk, Finish, Goto, Close, TypeOK
  <2> QED BY <1>1, <1>2, <2>3, <2>4, SoleFrame
<1>3. CASE op[p] \in Writes
  <2>1. Alone(p) /\ OwnInv(p)
    BY <1>3, OwnOfSole
  <2>2. OwnInv(p)'
    BY <2>1, OwnBefore, OwnBeside, OwnSwap, OwnDelete DEF Work
  <2>3. Alone(p)'
    BY <1>1, <2>1 DEF Alone
  <2>4. StageInv' /\ Alone(p)' /\ OwnInv(p)' => SoleInv'
    BY SoleOfOwn, PTL
  <2> QED BY <2>2, <2>3, <2>4
<1> QED BY <1>2, <1>3 DEF TypeOK

\* A request comes in.  When it makes a change, nobody else is making one.
LEMMA SoleCall ==
    ASSUME TypeOK, StageInv, SoleInv, StageInv', NEW p \in Requests, Call(p)
    PROVE  SoleInv'
<1>1. PICK what \in Writes \cup {"get"}, with \in SUBSET Objects, there \in {"look", "create"} :
          Start(p, what, with, there) /\ (there = "create" => what = "save")
  BY DEF Call, GetSettings, SaveSettings, Reset, ResetObject, Writes, Settings
<1> SUFFICES ASSUME ~overlapped' PROVE SoleInv'
  BY DEF SoleInv
<1>2. /\ ~overlapped /\ expected' = expected
      /\ what \in Writes => \A q \in Requests : op[q] \notin Writes
  BY <1>1 DEF Start, TypeOK
<1>3. /\ UNCHANGED <<disk, past, loaded, reply, handle>>
      /\ op[p] = "get" /\ op'[p] = what /\ pc'[p] = there
      /\ \A q \in Requests : q # p => op'[q] = op[q] /\ arg'[q] = arg[q] /\ pc'[q] = pc[q]
  BY <1>1, <1>2 DEF Start, Goto, TypeOK, StageInv, past
<1>4. CASE what = "get"
  BY <1>3, <1>4, SoleFrame
<1>5. CASE what \in Writes
  <2>1. Alone(p)'
    BY <1>2, <1>3, <1>5 DEF Alone, TypeOK
  <2>2. Current' = Current
    BY <1>3 DEF Current, Parsed, disk
  <2>3. Current \in expected
    BY <1>2, <1>5 DEF SoleInv, Succeeded
  <2>4. live' # None => content'[live'] # Partial
    <3>1. live' = live /\ content' = content
      BY <1>3 DEF disk
    <3> QED BY <1>2, <3>1 DEF SoleInv
  <2>5. pc'[p] \notin Written \cup {"write", "verify", "read", "done"}
    BY <1>3 DEF Written
  <2>6. ~(pc'[p] \in Saving /\ op'[p] = "resetObject")
    BY <1>1, <1>3 DEF Saving
  <2>7. OwnInv(p)'
    BY <1>2, <2>2, <2>3, <2>4, <2>5, <2>6 DEF OwnInv, Succeeded
  <2>8. StageInv' /\ Alone(p)' /\ OwnInv(p)' => SoleInv'
    BY SoleOfOwn, PTL
  <2> QED BY <2>1, <2>7, <2>8
<1> QED BY <1>4, <1>5

\* What an answered change made of the settings is expected from then on.
LEMMA SoleAnswer ==
    ASSUME TypeOK, StageInv, SoleInv, StageInv', NEW p \in Requests, Answer(p)
    PROVE  SoleInv'
<1> SUFFICES ASSUME ~overlapped PROVE SoleInv'
  BY DEF SoleInv, Answer
<1>1. /\ UNCHANGED <<disk, handle, overlapped>>
      /\ pc[p] = "done" /\ op'[p] = "get"
      /\ \A q \in Requests : q # p => /\ op'[q] = op[q] /\ arg'[q] = arg[q]
                                       /\ loaded'[q] = loaded[q] /\ pc'[q] = pc[q]
                                       /\ reply'[q] = reply[q]
  BY DEF Answer, Goto, TypeOK
<1>2. CASE op[p] = "get"
  <2>1. expected' = expected
    BY <1>2 DEF Answer, After
  <2> QED BY <1>1, <1>2, <2>1, SoleFrame DEF past
<1>3. CASE op[p] \in Writes
  <2>1. Alone(p) /\ OwnInv(p)
    BY <1>3, OwnOfSole
  <2>2. \A q \in Requests : op'[q] = "get"
    BY <1>1, <2>1 DEF Alone
  <2>3. Current' = Current
    BY <1>1 DEF Current, Parsed, disk
  <2>4. Current \in expected'
    <3>1. CASE reply[p] = <<"ok">>
      BY <1>1, <1>3, <2>1, <3>1 DEF Answer, OwnInv, Succeeded
    <3>2. CASE reply[p] # <<"ok">>
      BY <2>1, <3>2 DEF Answer, OwnInv, Succeeded
    <3> QED BY <3>1, <3>2
  <2>5. live' # None => content'[live'] # Partial
    BY <1>1, <2>1 DEF OwnInv, disk
  <2>6. \A q \in Requests : pc'[q] \notin Saving /\ ~Succeeded(q)' /\ op'[q] \notin Writes
    BY <2>2 DEF StageInv, Succeeded, Writes
  <2>7. {"write", "verify"} \subseteq Saving /\ Written \subseteq Saving
    BY DEF Saving, Written
  <2> QED BY <2>2, <2>3, <2>4, <2>5, <2>6, <2>7 DEF SoleInv
<1> QED BY <1>2, <1>3 DEF TypeOK

\* After a crash nobody makes a change, and one that had its effect was cut short.
LEMMA SoleCrash ==
    ASSUME TypeOK, SoleInv, Crash
    PROVE  SoleInv'
<1> SUFFICES ASSUME ~overlapped PROVE SoleInv'
  BY DEF SoleInv, Crash
<1>1. Current' = Current
  BY DEF Crash, Current, Parsed, disk
<1>2. Current \in expected'
  <2>1. CASE \E p \in Requests : Succeeded(p)
    <3>1. PICK p \in Requests : Succeeded(p)
      BY <2>1
    <3>2. p \in CutShort /\ Current \in After(p, expected)
      BY <3>1 DEF CutShort, Succeeded, SoleInv
    <3> QED BY <3>2 DEF Crash
  <2>2. CASE \A p \in Requests : ~Succeeded(p)
    BY <2>2 DEF SoleInv, Crash
  <2> QED BY <2>1, <2>2
<1>3. live' # None => content'[live'] # Partial
  BY DEF SoleInv, Crash, disk
<1>4. \A p \in Requests : op'[p] = "get" /\ pc'[p] = "idle"
  BY DEF Crash
<1> QED BY <1>1, <1>2, <1>3, <1>4 DEF SoleInv, Succeeded, Writes, Written, Saving

---------------------------------------------------------------------------
(* The theorems *)

LEMMA InductiveInvariant == Spec => []IndInv
<1>1. Init => IndInv
  <2> SUFFICES ASSUME Init PROVE IndInv
    OBVIOUS
  <2>1. TypeOK
    BY DEF Init, TypeOK, Answers, Answerable, Settings
  <2>2. StageInv /\ LockInv /\ ReadInv
    BY DEF Init, StageInv, LockInv, ReadInv, Saving
  <2>3. SoleInv
    BY DEF Init, SoleInv, Writes, Written, Saving, Succeeded, Current
  <2> QED BY <2>1, <2>2, <2>3 DEF IndInv
<1>2. IndInv /\ [Next]_vars => IndInv'
  <2> SUFFICES ASSUME IndInv, [Next]_vars PROVE IndInv'
    OBVIOUS
  <2> USE DEF IndInv
  <2>1. CASE Next
    <3>1. TypeOK' /\ StageInv' /\ LockInv' /\ ReadInv'
      BY <2>1, TypeStep, StageStep, LockStep, ReadStep
    <3>2. SoleInv'
      BY <2>1, <3>1, SoleCall, SoleWork, SoleAnswer, SoleCrash DEF Next
    <3> QED BY <3>1, <3>2
  <2>2. CASE UNCHANGED vars
    <3> USE <2>2 DEF vars, disk, past
    <3>1. TypeOK' /\ StageInv' /\ LockInv'
      BY DEF TypeOK, StageInv, LockInv
    <3>2. Current' = Current /\ \A file : Parsed(file)' = Parsed(file)
      BY DEF Current, Parsed
    <3>3. ReadInv'
      BY <3>2 DEF ReadInv, Parsed
    <3>4. \A p \in Requests : /\ Payload(p)' = Payload(p) /\ Succeeded(p)' = Succeeded(p)
                               /\ After(p, expected)' = After(p, expected)
      BY DEF Payload, Succeeded, After
    <3>5. SoleInv'
      BY <3>2, <3>4 DEF SoleInv
    <3> QED BY <3>1, <3>3, <3>5
  <2> QED BY <2>1, <2>2
<1> QED BY <1>1, <1>2, PTL DEF Spec

\* Every variable keeps its type: what is loaded and saved is never the absence of
\* settings, and what a request reads is one of the directory's files.
THEOREM TypeCorrect == Spec => []TypeOK
BY InductiveInvariant, PTL DEF IndInv

\* Without overlapping changes the live file is whole at every moment, whatever
\* fails, is aborted or crashes, for any number of requests.
THEOREM LiveFileIsWhole == Spec => []LiveIsWhole
<1>1. IndInv => LiveIsWhole
  BY DEF IndInv, SoleInv, LiveIsWhole
<1> QED BY <1>1, InductiveInvariant, PTL

\* Without overlapping changes no answered change is lost, and a failed or an
\* aborted one leaves no trace, over any number of changes and crashes.
THEOREM NoChangeLost == Spec => []LastChangeStays
<1>1. IndInv => LastChangeStays
  BY DEF IndInv, SoleInv, LastChangeStays, Succeeded
<1> QED BY <1>1, InductiveInvariant, PTL

\* A GetAsync answers settings that were current while it ran, whatever the other
\* requests do to the files meanwhile, overlapping or not.
THEOREM AnswersWereCurrent == Spec => []ReadIsCurrent
<1>1. IndInv => ReadIsCurrent
  BY DEF IndInv, ReadInv, ReadIsCurrent
<1> QED BY <1>1, InductiveInvariant, PTL

=============================================================================
