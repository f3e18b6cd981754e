-------------------------------- MODULE Wipes --------------------------------
(***************************************************************************)
(* The wipes of recovery.c over the mount controller of roots.c: the menu  *)
(* entries wipe_data, wipe_cache, wipe_dalvik_cache and wipe_preflash      *)
(* (608-712) and the --wipe_data command of main() (1070-1077), each a    *)
(* sequence of erase_volume() calls (333-414), preserve_data_media()       *)
(* toggles, mounts, unmounts and rm -rf of the dalvik caches.  Between     *)
(* them the user may mount and unmount volumes from the other menus.       *)
(*                                                                         *)
(* The mount table, the devices and their contents are MountController's;  *)
(* its operations are used through the instance MC.  erase_volume is a     *)
(* sequence of steps, one per roots.c call it makes; a procedure runs its  *)
(* steps one at a time in order.                                           *)
(*                                                                         *)
(* Data abstraction.  /sdcard/.android_secure is "old" or "empty"; the     *)
(* dalvik-cache directory of a volume is gone once rm -rf reached it; the   *)
(* /cache/recovery/last* logs are left out (their save and restore only    *)
(* mount /cache).  The confirmations are one choice of the user.  The      *)
(* board hooks device_wipe_*() and has_datadata() are not in this tree.    *)
(***************************************************************************)
EXTENDS Naturals, Integers, Sequences, TLC

CONSTANTS
  Vols, Data, SdExt, Fstab, DiskInit, SdExtPresent, Encrypted, UseF2fs,
  MountHelpers,  \* as in MountController
  System,        \* the volume mounted at /system
  Cache,         \* the volume mounted at /cache
  Primary,       \* get_primary_storage_path(): the /sdcard volume
  Procs,         \* the wipes the user may start
  MaxOps,        \* wipes and other mounts in one boot
  MaxCrashes     \* power losses in one behaviour

ASSUME ~Encrypted /\ {System, Cache, Primary} \subseteq Vols

VARIABLES
  mounted, disk, content, media, layout, link, preserved, op,  \* MountController's
  proc,        \* the running wipe, "boot" at start, or "idle"
  todo,        \* the steps it has still to take
  eraseRet,    \* eraseRet[t]: what erase_volume(t) returned, for the erases of this wipe
  secure,      \* /sdcard/.android_secure: "old" or "empty"
  dalvikGone,  \* volumes whose dalvik-cache an rm -rf removed
  ops,         \* wipes and other operations so far in this boot
  bcb,         \* the misc bootloader message: "none" (zeroed), "recovery"
               \* (boot-recovery, no arguments) or "wipe_data"
  bcbRead,     \* device_flash_type() is MTD or MMC: get_args() reads the BCB
  cmdFile,     \* the main system wrote --wipe_data to /cache/recovery/command
               \* and nothing has unlinked it
  args,        \* the command get_args() found in this boot: "wipe_data" or "none"
  takenUp,     \* history: get_args() once took up a --wipe_data command
  cmdFailed,   \* history: an erase of the --wipe_data command returned non-zero
  crashes      \* power losses so far

mcVars == <<mounted, disk, content, media, layout, link, preserved, op>>
vars == <<mounted, disk, content, media, layout, link, preserved, op,
          proc, todo, eraseRet, secure, dalvikGone, ops,
          bcb, bcbRead, cmdFile, args, takenUp, cmdFailed, crashes>>
bootVars == <<bcb, bcbRead, cmdFile, args, takenUp, cmdFailed, crashes>>

MC == INSTANCE MountController WITH FormatArgs <- {}

NONE == MC!NONE
SECURE == "android_secure"          \* the target get_android_secure_path()
NULL == "NULL"                      \* MountController's NULL
Targets == Vols \cup {SECURE}
HasSdExt == SdExt \in Vols           \* volume_for_path("/sd-ext") != NULL

S(d, t) == [do |-> d, vol |-> t]
Opt(c, s) == IF c THEN s ELSE <<>>

-----------------------------------------------------------------------------
(* The step sequences                                                       *)

(* erase_volume(t) (333-414): for /cache, mount it to read the last* logs; *)
(* unmount t; format it; for /cache, fopen_path() and copy_logs() mount it *)
(* again to write the logs back.  The sub-path .android_secure is          *)
(* unmounted and formatted through its volume, the primary storage.        *)
Erase(t) ==
  IF t = SECURE THEN << S("unmount", Primary), S("format", SECURE) >>
  ELSE Opt(t = Cache, << S("mount", Cache) >>)
       \o << S("unmount", t), S("format", t) >>
       \o Opt(t = Cache, << S("mount", Cache) >>)

(* The dalvik-cache part of wipe_dalvik_cache (703-712) and of            *)
(* wipe_preflash (639-649): mount, rm -rf, unmount.                        *)
DalvikSteps ==
  << S("mount", Data) >> \o Opt(HasSdExt, << S("mount", SdExt) >>)
  \o << S("mount", Cache), S("rm", Data), S("rm", Cache) >>
  \o Opt(HasSdExt, << S("rm", SdExt) >>)
  \o << S("unmount", Data) >> \o Opt(HasSdExt, << S("unmount", SdExt) >>)

(* wipe_data() (654-685) for data that is not encrypted.                   *)
WipeDataSteps ==
  Opt(MC!DataMedia, << S("preserve", TRUE) >>)
  \o Erase(Data) \o Erase(Cache) \o Opt(HasSdExt, Erase(SdExt)) \o Erase(SECURE)

(* wipe_preflash() (608-652).                                              *)
PreflashSteps ==
  Erase(System) \o Opt(MC!DataMedia, << S("preserve", TRUE) >>)
  \o Erase(Data) \o Opt(HasSdExt, Erase(SdExt)) \o Erase(SECURE) \o Erase(Cache)
  \o DalvikSteps

(* erase_volume(t) ran in this wipe and returned 0.                        *)
Erased(t) == t \in DOMAIN eraseRet /\ eraseRet[t] = 0

(* Mutant: the command-line wipe without its preserve_data_media(0).       *)
CmdStepsPreserved == Erase(Data) \o Erase(Cache)

(* Mutant: the command-line wipe erasing /cache, and with it the command  *)
(* file, before /data.                                                     *)
CmdStepsCacheFirst ==
  Erase(Cache) \o << S("preserve", FALSE) >> \o Erase(Data) \o << S("preserve", TRUE) >>

(* main() with --wipe_data (1070-1077), which sets wipe_cache too: the     *)
(* media are given up for this erase of /data only.                        *)
CmdSteps ==
  << S("preserve", FALSE) >> \o Erase(Data) \o << S("preserve", TRUE) >> \o Erase(Cache)

StepsOf(p) ==
  CASE p = "wipe_data"     -> WipeDataSteps
    [] p = "wipe_preflash" -> PreflashSteps
    [] p = "wipe_cache"    -> Erase(Cache)
    [] p = "wipe_dalvik"   -> DalvikSteps
    [] p = "cmd_wipe_data" -> CmdSteps

(* main() up to its command: ensure_path_mounted(LAST_LOG_FILE) (979),     *)
(* then get_args() (981).                                                  *)
BootSteps == << S("mount", Cache), S("args", Cache) >>

(* finish_recovery() (297-331): mount /cache for the intent and the logs, *)
(* zero the BCB, then unlink the command file.                             *)
FinishSteps == << S("mount", Cache), S("clearbcb", Cache), S("unlink", Cache) >>

(* The command file exists: written by the main system and still on the   *)
(* /cache device (a format of /cache removes it).                          *)
CommandFile == cmdFile /\ content[Cache]["dev"] = "old"

(* main() runs the --wipe_data command before anything else (1060-1077).   *)
CmdPending == args = "wipe_data" /\ ops = 0

(* The menus of prompt_and_wait() are shown unless a command is pending   *)
(* or the command failed, when handle_failure() leads straight to the     *)
(* reboot (1120-1126).                                                     *)
MenuOpen ==
  /\ ~CmdPending
  /\ ~(args = "wipe_data" /\ ops = 1 /\ \E t \in DOMAIN eraseRet : eraseRet[t] # 0)

-----------------------------------------------------------------------------
(* The actions                                                              *)

(* Mutant: main() opening the menus with the command still pending.      *)
StartMenusFirst ==
  /\ proc = "idle" /\ ops < MaxOps
  /\ \E p \in Procs :
       /\ IF CmdPending THEN TRUE ELSE p # "cmd_wipe_data" /\ MenuOpen
       /\ \E yes \in BOOLEAN :
            todo' = IF yes \/ p = "cmd_wipe_data" THEN StepsOf(p) ELSE << >>
       /\ proc' = p
  /\ eraseRet' = << >>
  /\ ops' = ops + 1
  /\ UNCHANGED <<mcVars, secure, dalvikGone, bootVars>>

(* A wipe starts: the command-line one before anything else, a menu one   *)
(* once the user confirmed (the confirm_selection() calls; declining      *)
(* returns before any step).                                               *)
Start ==
  /\ proc = "idle" /\ ops < MaxOps
  /\ \E p \in Procs :
       /\ IF CmdPending THEN p = "cmd_wipe_data" ELSE p # "cmd_wipe_data" /\ MenuOpen
       /\ \E yes \in BOOLEAN :
            todo' = IF yes \/ p = "cmd_wipe_data" THEN StepsOf(p) ELSE << >>
       /\ proc' = p
  /\ eraseRet' = << >>
  /\ ops' = ops + 1
  /\ UNCHANGED <<mcVars, secure, dalvikGone, bootVars>>

(* format_volume("/sdcard/.android_secure") (roots.c 500-528, 807-811):   *)
(* the path is not a mount point, so format_unknown_device() runs         *)
(* rmtree_except() on it and unmounts the primary storage.  rmtree_except  *)
(* (461-498) returns -1 when the path cannot be opened, which is the case  *)
(* unless the primary storage is reachable: /data mounted and linked on a  *)
(* datamedia device, /sdcard mounted otherwise; it may stop part way.      *)
FormatSecure ==
  LET reach == IF Primary \in MC!Alias THEN link /\ mounted[Data] # NONE
               ELSE mounted[Primary] # NONE IN
  \E ok \in BOOLEAN :
    /\ secure' = IF reach /\ ok THEN "empty" ELSE secure
    /\ eraseRet' = (SECURE :> IF reach /\ ok THEN 0 ELSE -1) @@ eraseRet
    /\ MC!EnsureUnmounted(Primary)

(* rm -rf <mount point>/dalvik-cache: it reaches the volume's device only *)
(* while the volume is mounted; otherwise it hits the ramdisk directory.   *)
Rm(v) ==
  /\ dalvikGone' = IF mounted[v] # NONE THEN dalvikGone \cup {v} ELSE dalvikGone
  /\ UNCHANGED <<mcVars, eraseRet, secure>>

(* A step of a wipe; an erase of the --wipe_data command that returns     *)
(* non-zero has printed its error (format_volume's LOGE) by then.          *)
WipeStep(s) ==
  /\ CASE s.do = "mount" -> MC!EnsureMounted(s.vol) /\ UNCHANGED <<eraseRet, secure, dalvikGone>>
       [] s.do = "unmount" -> MC!EnsureUnmounted(s.vol) /\ UNCHANGED <<eraseRet, secure, dalvikGone>>
       [] s.do = "preserve" -> MC!PreserveDataMedia(s.vol) /\ UNCHANGED <<eraseRet, secure, dalvikGone>>
       [] s.do = "rm" -> Rm(s.vol)
       [] s.do = "format" /\ s.vol = SECURE -> FormatSecure /\ UNCHANGED dalvikGone
       [] s.do = "format" ->
            /\ MC!FormatVolume(s.vol)
            /\ eraseRet' = (s.vol :> op'.ret) @@ eraseRet
            /\ UNCHANGED <<secure, dalvikGone>>
  /\ cmdFailed' = (cmdFailed \/ (proc = "cmd_wipe_data" /\ \E t \in DOMAIN eraseRet' : eraseRet'[t] # 0))
  /\ UNCHANGED <<bcb, bcbRead, cmdFile, args, takenUp, crashes>>

(* get_args() (161-230): the BCB's arguments when the flash type lets it  *)
(* be read and it starts with "recovery"; otherwise the command file,      *)
(* which fopen_path() mounts /cache to open.  The arguments found are      *)
(* written back to the BCB with boot-recovery: from here on a reboot       *)
(* comes back to recovery.                                                 *)
GetArgs ==
  /\ IF bcbRead /\ bcb = "wipe_data"
     THEN args' = "wipe_data" /\ UNCHANGED mcVars
     ELSE /\ MC!EnsureMounted(Cache)
          /\ args' = IF op'.ret = 0 /\ CommandFile THEN "wipe_data" ELSE "none"
  /\ bcb' = IF args' = "wipe_data" THEN "wipe_data" ELSE "recovery"
  /\ takenUp' = (takenUp \/ args' = "wipe_data")
  /\ UNCHANGED <<eraseRet, secure, dalvikGone, bcbRead, cmdFile, cmdFailed, crashes>>

(* finish_recovery() zeroes the BCB (312-315).                             *)
ClearBcb ==
  /\ bcb' = "none"
  /\ UNCHANGED <<mcVars, eraseRet, secure, dalvikGone, bcbRead, cmdFile, args, takenUp, cmdFailed, crashes>>

(* finish_recovery() unlinks the command file when /cache mounts (317-321). *)
Unlink ==
  /\ MC!EnsureMounted(Cache)
  /\ cmdFile' = (cmdFile /\ op'.ret # 0)
  /\ UNCHANGED <<eraseRet, secure, dalvikGone, bcb, bcbRead, args, takenUp, cmdFailed, crashes>>

(* The next step of the running procedure.                                 *)
Step ==
  /\ todo # << >>
  /\ LET s == Head(todo) IN
       \/ s.do = "args" /\ GetArgs
       \/ s.do = "clearbcb" /\ ClearBcb
       \/ s.do = "unlink" /\ Unlink
       \/ s.do \notin {"args", "clearbcb", "unlink"} /\ WipeStep(s)
  /\ todo' = Tail(todo)
  /\ UNCHANGED <<proc, ops>>

(* The procedure returns; finish_recovery() is followed by                *)
(* reboot_main_system() (1133-1140).                                       *)
Done ==
  /\ proc \notin {"idle", "main"} /\ todo = << >>
  /\ proc' = IF proc = "finish" THEN "main" ELSE "idle"
  /\ UNCHANGED <<mcVars, todo, eraseRet, secure, dalvikGone, ops, bootVars>>

(* main() leaves prompt_and_wait(), or handle_failure(), or has nothing   *)
(* to show, and calls finish_recovery() (1119-1132).                       *)
Reboot ==
  /\ proc = "idle" /\ ~CmdPending
  /\ proc' = "finish" /\ todo' = FinishSteps
  /\ UNCHANGED <<mcVars, eraseRet, secure, dalvikGone, ops, bootVars>>

(* Between wipes the user mounts or unmounts a volume from another menu.  *)
Other ==
  /\ proc = "idle" /\ ops < MaxOps /\ MenuOpen
  /\ \E v \in Vols : MC!EnsureMounted(v) \/ MC!EnsureUnmounted(v)
  /\ ops' = ops + 1
  /\ UNCHANGED <<proc, todo, eraseRet, secure, dalvikGone, bootVars>>

(* Power is lost at any point before the main system runs.  The devices,  *)
(* the BCB and the command file stay; the kernel mount table, the /sdcard *)
(* symlink of the ramdisk and data_media_preserved_state (roots.c 630)    *)
(* start afresh.  The bootloader starts recovery again while the BCB says  *)
(* boot-recovery, the main system otherwise.                               *)
Crash ==
  /\ proc # "main" /\ crashes < MaxCrashes
  /\ proc' = IF bcb = "none" THEN "main" ELSE "boot"
  /\ todo' = IF bcb = "none" THEN << >> ELSE BootSteps
  /\ mounted' = [v \in Vols |-> NONE] /\ link' = FALSE /\ preserved' = TRUE
  /\ op' = [name |-> "none", vol |-> Data, ret |-> 0, mkfs |-> "none"]
  /\ eraseRet' = << >> /\ ops' = 0 /\ args' = "none"
  /\ crashes' = crashes + 1
  /\ UNCHANGED <<disk, content, media, layout, secure, dalvikGone,
                 bcb, bcbRead, cmdFile, takenUp, cmdFailed>>

(* Recovery is started by the main system's reboot into it, which leaves  *)
(* the BCB zeroed; the main system may have written --wipe_data to the     *)
(* command file.                                                           *)
Init ==
  /\ MC!Init
  /\ proc = "boot" /\ todo = BootSteps
  /\ eraseRet = << >>
  /\ secure = "old" /\ dalvikGone = {} /\ ops = 0
  /\ bcb = "none" /\ bcbRead \in BOOLEAN /\ cmdFile \in BOOLEAN /\ args = "none"
  /\ takenUp = FALSE /\ cmdFailed = FALSE /\ crashes = 0

Next == Start \/ Step \/ Done \/ Other \/ Reboot \/ Crash

(* main() runs get_args() and a pending command without waiting for the  *)
(* user (recovery.c 979-1077), and every step of a procedure is a roots.c *)
(* call that returns.  The user's choices (the menu wipes, the mounts      *)
(* between them, the reboot from the menu) and power losses owe nothing.   *)
(* At most one of the three is enabled in a state: Step while steps are  *)
(* left, Done once they are all taken, RunCommand when no procedure runs.  *)
RunCommand == CmdPending /\ Start
MainProceeds == Step \/ Done \/ RunCommand
Fairness == WF_vars(MainProceeds)

Spec == Init /\ [][Next]_vars /\ Fairness

-----------------------------------------------------------------------------
(* Properties                                                               *)

TypeOK ==
  /\ MC!TypeOK
  /\ proc \in Procs \cup {"idle", "boot", "finish", "main"} /\ ops \in 0..MaxOps
  /\ bcb \in {"none", "recovery", "wipe_data"} /\ args \in {"none", "wipe_data"}
  /\ {bcbRead, cmdFile, takenUp, cmdFailed} \subseteq BOOLEAN /\ crashes \in 0..MaxCrashes
  /\ DOMAIN eraseRet \subseteq Targets /\ \A t \in DOMAIN eraseRet : eraseRet[t] \in {0, -1, -12}
  /\ secure \in {"old", "empty"} /\ dalvikGone \subseteq Vols

(* No menu wipe, and no mount or unmount between wipes, ever loses         *)
(* /data/media: wipe_data and wipe_preflash call preserve_data_media(1)    *)
(* before erase_volume("/data"), whose unmount is then refused and whose   *)
(* format_volume wipes /data in place around the media; the erase of      *)
(* .android_secure removes that directory only.  Only the command-line    *)
(* wipe, which clears the flag for its erase of /data, gives them up.      *)
MenuWipesKeepMedia ==
  [][(media = "kept" /\ proc' # "cmd_wipe_data") => media' = "kept"]_vars

(* No menu wipe loses a written /data/.layout_version (spec.md 4.2: the   *)
(* in-place wipe saves the marker and restores it, against the "nesting   *)
(* bug" of the media layout): format_unknown_device reads it before        *)
(* rmtree_except and writes it back after, and no menu wipe reaches a mkfs *)
(* of /data while the media is preserved.                                  *)
MenuWipesKeepLayout ==
  [][(layout = "data" /\ proc' # "cmd_wipe_data") => layout' = "data"]_vars

(* A factory reset is restartable at any point (recovery.c 101-113): once *)
(* get_args() has taken up --wipe_data, the main system boots only after  *)
(* /data has been formatted or an erase of the command has reported its   *)
(* failure, whatever power losses came between.  It rests on the order of *)
(* the steps: get_args() writes the BCB before any erase, the erase of     *)
(* /data comes before that of /cache (which takes the command file with   *)
(* it), and finish_recovery() zeroes the BCB only after the wipe.          *)
FactoryResetRestartable ==
  [][(proc' = "main" /\ takenUp) => (content[Data]["dev"] = "empty" \/ cmdFailed)]_vars

(* A factory reset that get_args() took up is carried out: /data is        *)
(* eventually formatted, or an erase of the command reports its failure,  *)
(* whatever power loss comes between; the command survives a reboot in    *)
(* the BCB written before any erase, or in /cache/recovery/command, which *)
(* only the erase of /cache after /data removes, and main() runs it before *)
(* it shows any menu.                                                       *)
FactoryResetCompletes ==
  takenUp ~> (content[Data]["dev"] = "empty" \/ cmdFailed)

(* When the --wipe_data command reports success (every erase_volume       *)
(* returned 0), /data, the media included, and /cache have really been     *)
(* formatted: preserve_data_media(0) lets erase_volume unmount /data and   *)
(* format_volume rebuild it instead of wiping it in place.                 *)
CmdWipeTruthful ==
  [][(Done /\ proc = "cmd_wipe_data" /\ Erased(Data) /\ Erased(Cache))
       => /\ content[Data]["dev"] = "empty" /\ content[Cache]["dev"] = "empty"
          /\ (MC!DataMedia => media = "lost")]_vars

(* The menu "wipe data" removes /data's files whenever erase_volume("/data") *)
(* returns 0: wipe_data prints "Data wipe complete." on that basis.        *)
WipeDataReachesData ==
  [][(Done /\ proc = "wipe_data" /\ Erased(Data)) => content[Data]["dev"] = "empty"]_vars

(* Every mkfs or erase a wipe runs finds its device unmounted: the         *)
(* unmount of erase_volume, and format_volume's own, come first            *)
(* (MountController's NeverFormatMounted over the wipes).                  *)
NeverFormatMounted == MC!NeverFormatMounted

=============================================================================
