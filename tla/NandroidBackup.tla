---------------------------- MODULE NandroidBackup ----------------------------
(***************************************************************************)
(* nandroid_backup() of nandroid.c: the per-partition backup loop, the     *)
(* archiver subprocess read line by line, the cancel protocol of           *)
(* user_cancel_nandroid() polled between lines, and the input thread of    *)
(* ui.c that fills the key queue concurrently with the main thread.        *)
(*                                                                         *)
(* Two threads: the main thread (pc) runs the job; the input thread        *)
(* (PressKey) appends key presses to key_queue under key_queue_mutex, so   *)
(* each of its steps is atomic with respect to the main thread's queue     *)
(* operations.  The archiver's output is abstracted to the number of lines *)
(* it has still to print; its exit status is chosen when its output ends.  *)
(* Mounting, raw dumps, popen and nandroid-md5.sh succeed or fail          *)
(* nondeterministically.  Progress bars, log text and path strings are     *)
(* left out: ui_set_progress clamps the fraction and no decision reads it. *)
(***************************************************************************)
EXTENDS Naturals, Integers, Sequences

CONSTANTS
  Steps,          \* the partitions nandroid_backup visits, in order
  MaxLines,       \* bound on the lines an archiver prints
  MaxPresses,     \* bound on the keys the user presses in one behaviour
  QueueMax,       \* capacity of key_queue (256 in ui.c)
  DefaultFormat,  \* "tar" or "tgz": what refresh_default_backup_handler() picked
  ForcedFormat,   \* TRUE when nandroid_force_backup_format() set a tag
  PreferTar,      \* the ro.ctr.prefer_tar property is not "false"
  DataMedia,      \* is_data_media(): the fstab has a datamedia volume
  ToolFail,       \* a nonzero exit status of a subprocess or raw dump
  WindowMayExpireFirst \* the 5 s confirmation window may be over before
                       \* the wait loop polls the key queue once

(* A step is [name, class, fs, umount, alias, data, cond]: class "raw" for *)
(* mtd/bml/emmc volumes dumped by backup_raw_partition, "fs" for the rest; *)
(* fs is the type the kernel reports once mounted; umount is              *)
(* umount_when_finished; alias marks a path whose volume has no entry in  *)
(* the mount table (the datamedia /sdcard); data marks "/data"; cond      *)
(* marks a step taken only when its volume or directory exists (wimax,     *)
(* custpack, cust, datadata, .android_secure, sd-ext).                     *)
ASSUME \A j \in DOMAIN Steps :
         /\ Steps[j].class \in {"raw", "fs"}
         /\ {Steps[j].umount, Steps[j].alias, Steps[j].data, Steps[j].cond} \subseteq BOOLEAN
ASSUME Len(Steps) > 0 /\ ~Steps[1].cond   \* /boot is always visited
ASSUME DefaultFormat \in {"tar", "tgz"}

N == Len(Steps)

(* Action codes of recovery_ui.h and the keys of default_recovery_keys.c.  *)
NO_ACTION == -1
HIGHLIGHT_DOWN == -3
SELECT_ITEM == -4
NANDROID_ERROR_GENERAL == 1
KeyCodes == {"KEY_POWER", "KEY_VOLUMEDOWN", "KEY_OTHER"}
NoKey == "none"   \* ui_check_key() on an empty queue returns -1

VARIABLES
  pc,          \* main thread: "prepare", "step", "stream", "confirm", "md5", "returned"
  present,     \* present[j]: the job visits step j (selected, and its volume exists)
  i,           \* index of the current step
  lines,       \* lines the running archiver has still to print
  nandStarts,  \* nand_starts of the running wrapper: banner not yet shown
  keyEvent,    \* key_event inside user_cancel_nandroid
  keyq,        \* key_queue: sequence of [key, late]; late = pressed while
               \* the "Really cancel?" prompt was displayed
  presses,     \* number of keys pressed so far (bounded by MaxPresses)
  canceled,    \* nandroid_canceled
  dirExists,   \* the backup directory exists
  art,         \* art[j] = [st, kind]: what step j left in the directory
  md5,         \* "none", "partial" or "written": nandroid.md5
  ret,         \* the value nandroid_backup returned
  icon,        \* the background icon: the only place cancel and error differ
  mounted,     \* steps whose volume this job mounted and left mounted
  confirmedBy, \* history: what confirmed the cancel ("none", "late", "early", "timeout")
  outcome,     \* history: "running", "ok", "failed", "cancelled"
  envFailed    \* history: a mount, tool, popen or md5 failure happened

vars == <<pc, present, i, lines, nandStarts, keyEvent, keyq, presses, canceled, dirExists,
          art, md5, ret, icon, mounted, confirmedBy, outcome, envFailed>>

NoArt == [st |-> "none", kind |-> "none"]

-----------------------------------------------------------------------------
(* Pure helpers                                                             *)

(* ui_handle_key() -> touch_handle_key() -> device_handle_key() with the   *)
(* menu visible: Power selects, volume-down moves the highlight, other     *)
(* keys and an empty queue are NO_ACTION.                                  *)
KeyAction(k) ==
  CASE k = "KEY_POWER"      -> SELECT_ITEM
    [] k = "KEY_VOLUMEDOWN" -> HIGHLIGHT_DOWN
    [] OTHER                -> NO_ACTION

(* get_backup_handler(): NULL when the volume is not in the mount table;   *)
(* the default archiver for /data on datamedia devices and when a format   *)
(* is forced; mkyaffs2image for yaffs2 unless tar is preferred.            *)
BackupHandler(s) ==
  IF s.alias THEN "NULL"
  ELSE IF (s.data /\ DataMedia) \/ ForcedFormat THEN DefaultFormat
  ELSE IF s.fs = "yaffs2" /\ ~PreferTar THEN "img"
  ELSE DefaultFormat

(* Mutant: the archiver's exit status dropped.                             *)
PcloseStatusIgnored(ok) == 0

(* __pclose() returns the archiver's wait status.                          *)
PcloseStatus(ok) == IF ok THEN 0 ELSE ToolFail

(* Mutant: the prompt without its ui_clear_key_queue().                    *)
PromptQueueKept(q) == q

(* The "Really cancel?" prompt clears the key queue before waiting.        *)
PromptQueue(q) == <<>>

(* ensure_path_unmounted() of step j when umount_when_finished: a path     *)
(* under /data stays mounted on a datamedia device while the media is      *)
(* preserved, which it is throughout a backup (roots.c 429-431).          *)
Unmount(m, j) ==
  IF Steps[j].umount /\ ~(Steps[j].data /\ DataMedia) THEN m \ {j} ELSE m

(* ensure_path_mounted(mount_point) != 0 is assigned to ret, so a failed  *)
(* mount returns 1 whatever the mount error was.                           *)
MountRet(ok) == IF ok THEN 0 ELSE 1

-----------------------------------------------------------------------------
(* Mutant: nandroid_canceled cleared before the icon is chosen.           *)
PrintAndErrorClearedFirst(r, wasCanceled) ==
  /\ ret' = r
  /\ pc' = "returned"
  /\ icon' = "error"
  /\ canceled' = FALSE
  /\ outcome' = IF wasCanceled THEN "cancelled" ELSE "failed"

(* print_and_error(): reset the progress, pick the icon from               *)
(* nandroid_canceled and clear it, and make nandroid_backup return r.      *)
PrintAndError(r, wasCanceled) ==
  /\ ret' = r
  /\ pc' = "returned"
  /\ icon' = IF wasCanceled THEN "clockwork" ELSE "error"
  /\ canceled' = FALSE
  /\ outcome' = IF wasCanceled THEN "cancelled" ELSE "failed"

(* The next step after j that this device has, N + 1 when there is none.   *)
NextStep(j) ==
  LET later == {k \in (j + 1)..N : present[k]} IN
  IF later = {} THEN N + 1 ELSE CHOOSE k \in later : \A m \in later : k <= m

(* Move on after a step returned 0: the next partition, or the md5 sum.    *)
Advance ==
  IF NextStep(i) > N THEN pc' = "md5" /\ i' = i
  ELSE pc' = "step" /\ i' = NextStep(i)

(* nandroid_backup 488-522: mount the backup path, find its volume, statfs *)
(* it, create the directory.  Any failure returns NANDROID_ERROR_GENERAL.  *)
Prepare ==
  /\ pc = "prepare"
  /\ \E ok \in BOOLEAN :
       IF ok THEN /\ dirExists' = TRUE
                  /\ icon' = "installing"
                  /\ Advance
                  /\ UNCHANGED <<ret, canceled, outcome, envFailed>>
       ELSE /\ PrintAndError(NANDROID_ERROR_GENERAL, canceled)
            /\ envFailed' = TRUE
            /\ UNCHANGED <<dirExists, i>>
  /\ UNCHANGED <<lines, nandStarts, keyEvent, keyq, presses, art, md5,
                 mounted, confirmedBy, present>>

(* A raw partition (nandroid_backup_partition 465-483): one call to        *)
(* backup_raw_partition, no output to poll, so no cancel point.            *)
BackupRaw ==
  /\ pc = "step"
  /\ Steps[i].class = "raw"
  /\ \E ok \in BOOLEAN :
       /\ art' = [art EXCEPT ![i] = [st |-> IF ok THEN "complete" ELSE "partial",
                                     kind |-> "raw"]]
       /\ IF ok THEN Advance /\ UNCHANGED <<ret, icon, canceled, outcome, envFailed>>
          ELSE PrintAndError(ToolFail, canceled) /\ envFailed' = TRUE /\ UNCHANGED i
  /\ UNCHANGED <<lines, nandStarts, keyEvent, keyq, presses, dirExists, md5,
                 mounted, confirmedBy, present>>

(* nandroid_backup_partition_extended 409-444 up to the archiver running:  *)
(* mount, choose the handler, popen it.  A failed popen returns -1 and the *)
(* volume is unmounted (445-446) when umount_when_finished.                *)
StartArchiver ==
  /\ pc = "step"
  /\ Steps[i].class = "fs"
  /\ LET s == Steps[i]
         h == BackupHandler(s) IN
     \E mountOk, launched \in BOOLEAN :
       \/ /\ ~mountOk
          /\ PrintAndError(MountRet(mountOk), canceled)
          /\ envFailed' = TRUE
          /\ UNCHANGED <<lines, nandStarts, art, mounted>>
       \/ /\ mountOk /\ h = "NULL"
          /\ PrintAndError(-2, canceled)
          /\ mounted' = mounted \cup {i}
          /\ UNCHANGED <<lines, nandStarts, art, envFailed>>
       \/ /\ mountOk /\ h # "NULL" /\ ~launched
          /\ PrintAndError(-1, canceled)
          /\ envFailed' = TRUE
          /\ mounted' = Unmount(mounted \cup {i}, i)
          /\ UNCHANGED <<lines, nandStarts, art>>
       \/ /\ mountOk /\ h # "NULL" /\ launched
          /\ pc' = "stream"
          /\ nandStarts' = TRUE
          /\ \E n \in 0..MaxLines : lines' = n
          \* the tar wrappers touch the marker file and split writes shards
          /\ art' = [art EXCEPT ![i] = [st |-> "partial", kind |-> h]]
          /\ mounted' = mounted \cup {i}
          /\ UNCHANGED <<ret, icon, canceled, outcome, envFailed>>
  /\ UNCHANGED <<i, keyEvent, keyq, presses, dirExists, md5, confirmedBy, present>>

(* One fgets() of the wrapper loop and the user_cancel_nandroid() call     *)
(* before the line is used (215-229): the first call clears the key queue  *)
(* and shows the banner; then one key is taken from the queue.  Power      *)
(* shows the "Really cancel?" prompt and clears the queue; any other key,  *)
(* or none, lets the line through to nandroid_callback.                    *)
Poll ==
  /\ pc = "stream"
  /\ lines > 0
  /\ LET q    == IF nandStarts THEN <<>> ELSE keyq
         k    == IF q = <<>> THEN NoKey ELSE Head(q).key
         rest == IF q = <<>> THEN <<>> ELSE Tail(q) IN
       /\ nandStarts' = FALSE
       /\ IF KeyAction(k) = SELECT_ITEM
          THEN /\ pc' = "confirm"
               /\ keyq' = PromptQueue(rest)
               /\ keyEvent' = SELECT_ITEM
               /\ UNCHANGED lines
          ELSE /\ keyq' = rest
               /\ lines' = lines - 1
               /\ UNCHANGED <<pc, keyEvent>>
  /\ UNCHANGED <<i, presses, canceled, dirExists, art, md5, ret, icon, mounted,
                 confirmedBy, outcome, envFailed, present>>

(* The user confirmed (244-261): close the archiver, delete the whole      *)
(* backup directory (dirname of the image path), finish the job; the       *)
(* wrapper returns -1, the partition is unmounted if umount_when_finished  *)
(* and nandroid_backup returns through print_and_error.                    *)
Cancel(tag) ==
  /\ keyq' = <<>>
  /\ dirExists' = FALSE
  /\ art' = [j \in 1..N |-> NoArt]
  /\ mounted' = Unmount(mounted, i)
  /\ PrintAndError(-1, TRUE)
  /\ confirmedBy' = tag
  /\ UNCHANGED <<lines, md5, envFailed>>

(* The user declined: user_cancel_nandroid returns 0 and the line is used. *)
Decline ==
  /\ pc' = "stream"
  /\ lines' = lines - 1
  /\ UNCHANGED <<dirExists, art, mounted, ret, icon, canceled, confirmedBy,
                 outcome, md5, envFailed>>

(* One pass of the wait loop (233-238): take a key; NO_ACTION keeps        *)
(* waiting, any other action ends the loop and decides.                    *)
ConfirmPoll ==
  /\ pc = "confirm"
  /\ LET k    == IF keyq = <<>> THEN NoKey ELSE Head(keyq).key
         tag  == IF keyq # <<>> /\ Head(keyq).late THEN "late" ELSE "early"
         rest == IF keyq = <<>> THEN <<>> ELSE Tail(keyq) IN
       /\ keyEvent' = KeyAction(k)
       /\ IF KeyAction(k) = NO_ACTION
          THEN keyq' = rest /\ UNCHANGED <<pc, lines, dirExists, art, mounted, ret,
                                         icon, canceled, confirmedBy, outcome, md5, envFailed>>
          ELSE IF KeyAction(k) = SELECT_ITEM THEN Cancel(tag)
          ELSE keyq' = rest /\ Decline
  /\ UNCHANGED <<i, nandStarts, presses, present>>

(* Mutant: a wait loop with no time limit (while (1)).                     *)
ConfirmTimeoutNever == pc = "confirm" /\ FALSE

(* The 5 s interval has passed: the loop exits with the last key_event.    *)
(* It is still SELECT_ITEM if the loop body never ran.                     *)
ConfirmTimeout ==
  /\ pc = "confirm"
  /\ WindowMayExpireFirst \/ keyEvent = NO_ACTION
  /\ IF keyEvent = SELECT_ITEM THEN Cancel("timeout")
     ELSE Decline /\ UNCHANGED keyq
  /\ UNCHANGED <<i, nandStarts, keyEvent, presses, present>>

(* fgets() returns NULL: __pclose, unmount if umount_when_finished, and    *)
(* return the archiver's status (444-453).                                 *)
FinishArchiver ==
  /\ pc = "stream"
  /\ lines = 0
  /\ \E ok \in BOOLEAN :
       LET status == PcloseStatus(ok) IN
       /\ art' = [art EXCEPT ![i].st = IF ok THEN "complete" ELSE "partial"]
       /\ mounted' = Unmount(mounted, i)
       /\ IF status = 0
          THEN Advance /\ UNCHANGED <<ret, icon, canceled, outcome, envFailed>>
          ELSE PrintAndError(status, canceled) /\ envFailed' = TRUE /\ UNCHANGED i
  /\ UNCHANGED <<lines, nandStarts, keyEvent, keyq, presses, dirExists, md5,
                 confirmedBy, present>>

(* nandroid-md5.sh, the log copy, chmod and finish_nandroid_job            *)
(* (578-601).  A failed md5 run returns its status without print_and_error.*)
Md5 ==
  /\ pc = "md5"
  /\ \E ok \in BOOLEAN :
       IF ok THEN /\ md5' = "written"
                  /\ ret' = 0
                  /\ icon' = "none"
                  /\ outcome' = "ok"
                  /\ UNCHANGED envFailed
       ELSE /\ md5' = "partial"
            /\ ret' = ToolFail
            /\ outcome' = "failed"
            /\ envFailed' = TRUE
            /\ UNCHANGED icon
  /\ pc' = "returned"
  /\ UNCHANGED <<i, lines, nandStarts, keyEvent, keyq, presses, canceled,
                 dirExists, art, mounted, confirmedBy, present>>

(* Mutant: key_handle_input without the queue_max check.                   *)
PressKeyUnbounded ==
  /\ presses < MaxPresses
  /\ presses' = presses + 1
  /\ \E k \in KeyCodes : keyq' = Append(keyq, [key |-> k, late |-> pc = "confirm"])
  /\ UNCHANGED <<pc, i, lines, nandStarts, keyEvent, canceled, dirExists, art,
                 md5, ret, icon, mounted, confirmedBy, outcome, envFailed, present>>

(* The input thread: key_handle_input (ui.c 1121-1145) appends a pressed   *)
(* key while the queue is below its capacity, under key_queue_mutex.       *)
PressKey ==
  /\ presses < MaxPresses
  /\ presses' = presses + 1
  /\ \E k \in KeyCodes :
       keyq' = IF Len(keyq) < QueueMax
               THEN Append(keyq, [key |-> k, late |-> pc = "confirm"])
               ELSE keyq
  /\ UNCHANGED <<pc, i, lines, nandStarts, keyEvent, canceled, dirExists, art,
                 md5, ret, icon, mounted, confirmedBy, outcome, envFailed, present>>

(* nandroid_backup() (522-576) visits every step but the conditional     *)
(* ones whose volume or directory is missing.                              *)
FullVisits == {f \in [1..N -> BOOLEAN] : \A j \in 1..N : ~Steps[j].cond => f[j]}

(* nandroid_advanced_backup(backup_path, boot, system, data, cache)        *)
(* (641-672) visits the steps of the groups its flags select: custpack and *)
(* cust go with system, datadata and .android_secure with data; wimax and  *)
(* sd-ext are never visited.                                               *)
GroupOf(n) ==
  CASE n \in {"system", "custpack", "cust"} -> "system"
    [] n \in {"data", "datadata", ".android_secure"} -> "data"
    [] n \in {"boot", "cache"} -> n
    [] OTHER -> "none"

AdvancedVisits ==
  {f \in [1..N -> BOOLEAN] :
     \E sel \in SUBSET {"boot", "system", "data", "cache"} :
       \A j \in 1..N : IF Steps[j].cond THEN f[j] => GroupOf(Steps[j].name) \in sel
                       ELSE f[j] <=> GroupOf(Steps[j].name) \in sel}

Init ==
  /\ pc = "prepare"
  /\ present \in FullVisits \cup AdvancedVisits
  /\ i = 0
  /\ lines = 0
  /\ nandStarts = FALSE
  /\ keyEvent = NO_ACTION
  /\ keyq = <<>>
  /\ presses = 0
  /\ canceled = FALSE
  /\ dirExists = FALSE
  /\ art = [j \in 1..N |-> NoArt]
  /\ md5 = "none"
  /\ ret = 0
  /\ icon = "none"
  /\ mounted = {}
  /\ confirmedBy = "none"
  /\ outcome = "running"
  /\ envFailed = FALSE

MainThread ==
  \/ Prepare \/ BackupRaw \/ StartArchiver \/ Poll \/ ConfirmPoll
  \/ ConfirmTimeout \/ FinishArchiver \/ Md5

Next == MainThread \/ PressKey

(* The main thread never stops while it has work (the archiver's output is *)
(* finite and the confirmation window is bounded in time); the user is    *)
(* free never to press a key, so the input thread gets no fairness.        *)
Spec == Init /\ [][Next]_vars /\ WF_vars(MainThread)
-----------------------------------------------------------------------------
(* Properties                                                               *)

TypeOK ==
  /\ pc \in {"prepare", "step", "stream", "confirm", "md5", "returned"}
  /\ i \in 0..N
  /\ lines \in 0..MaxLines
  /\ nandStarts \in BOOLEAN
  /\ keyEvent \in {NO_ACTION, HIGHLIGHT_DOWN, SELECT_ITEM}
  /\ keyq \in Seq([key : KeyCodes, late : BOOLEAN])
  /\ Len(keyq) <= QueueMax
  /\ presses \in 0..MaxPresses
  /\ canceled \in BOOLEAN
  /\ dirExists \in BOOLEAN
  /\ art \in [1..N -> [st : {"none", "partial", "complete"},
                       kind : {"none", "raw", "img", "tar", "tgz"}]]
  /\ md5 \in {"none", "partial", "written"}
  /\ icon \in {"none", "installing", "error", "clockwork"}
  /\ mounted \subseteq 1..N
  /\ confirmedBy \in {"none", "late", "early", "timeout"}
  /\ outcome \in {"running", "ok", "failed", "cancelled"}

(* What nandroid_backup returns is truthful about the directory it leaves: *)
(* 0 only with every partition's archive complete and the md5 file        *)
(* written; a nonzero return leaves no archive of a later partition (the   *)
(* loop stops at the first failing step); a cancel removes the whole       *)
(* directory.  Breaking it takes a tool status lost on the way out of the  *)
(* archiver loop, a step skipped or a cancel that leaves files behind.     *)
BackupResultTruthful ==
  pc = "returned" =>
    /\ ret = 0 => /\ dirExists /\ md5 = "written"
                  /\ \A j \in 1..N : art[j].st = IF present[j] THEN "complete" ELSE "none"
    /\ ret # 0 => \A j \in (i + 1)..N : art[j].st = "none"
    /\ outcome = "cancelled" => ~dirExists /\ \A j \in 1..N : art[j].st = "none"

(* A backup is cancelled only by a second Power press made while the       *)
(* "Really cancel?" prompt is shown (user_cancel_nandroid 230-243): keys   *)
(* queued before the prompt, and the expiry of the window, must not        *)
(* delete the backup.  Violating it needs the input thread to queue two    *)
(* presses in the window between two polls of the main thread.             *)
CancelNeedsConfirmation ==
  outcome = "cancelled" => confirmedBy = "late"

(* The backup job always returns, whatever the user presses or does not   *)
(* press: the confirmation wait is bounded by the 5 s window.              *)
JobTerminates == <>(pc = "returned")

(* spec.md 1 and 7: a backup whose mounts, tools and md5 run all succeed,  *)
(* and that the user does not cancel, returns 0.                           *)
BackupSucceedsUnlessToolFails ==
  (pc = "returned" /\ ~envFailed /\ outcome # "cancelled") => ret = 0

(* The caller's view of nandroid_backup implements BackupJob: from the     *)
(* value returned and the background icon print_and_error leaves (the     *)
(* only thing that tells a cancel from a failure: both return -1,          *)
(* nandroid.c 257), and the archives left in the directory.  The steps     *)
(* visited are archived in order, a job ends once, a success has archived  *)
(* every one, a failure keeps what was archived, a cancel removes it all,  *)
(* and every job ends.                                                     *)
Job == INSTANCE BackupJob WITH
         Parts <- 1..N,
         status <- IF pc # "returned" THEN "running"
                   ELSE IF ret = 0 THEN "done"
                   ELSE IF icon = "clockwork" THEN "cancelled"
                   ELSE "failed",
         todo <- {j \in 1..N : present[j]},
         done <- {j \in 1..N : art[j].st = "complete"}

JobRefinement == Job!Spec
=============================================================================
