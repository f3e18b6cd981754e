--------------------------- MODULE NandroidRestore ---------------------------
(***************************************************************************)
(* nandroid_restore() (nandroid.c 1067-1153) over the mount controller of  *)
(* roots.c.  Each selected partition is restored by                        *)
(* nandroid_restore_partition(): raw partitions are erased and flashed     *)
(* from <name>.img; the others go through                                  *)
(* nandroid_restore_partition_extended(): probe the backup directory for   *)
(* an artifact, mount the hide-progress marker's volume, format the        *)
(* partition (format_volume, or format_device with the file system the     *)
(* artifact's name declares), mount it, run the unpacker and read its      *)
(* output line by line, polling for a cancel, and unmount.                 *)
(*                                                                         *)
(* The mount table, the devices and their contents are MountController's;  *)
(* its operations are used through the instance MC, so every format and    *)
(* mount of a restore step is the whole roots.c function.                  *)
(*                                                                         *)
(* Data abstraction.  A file of the backup directory is a record [fs, ext] *)
(* for <name>.<fs>.<ext>, with fs "legacy" for <name>.img.  The unpacker   *)
(* leaves the device "partial" while it runs and "restored" when it exits  *)
(* 0; unpacking over files a format did not remove leaves it "mixed".       *)
(* user_cancel_nandroid() is reduced to its result (the protocol itself is *)
(* NandroidBackup's): 1 after the user confirmed, 0 otherwise.             *)
(***************************************************************************)
EXTENDS Naturals, Integers, Sequences, SequencesExt, FiniteSets

CONSTANTS
  Vols, Data, SdExt, Fstab, DiskInit, SdExtPresent, Encrypted, UseF2fs,
  MountHelpers,  \* as in MountController
  Primary,       \* the volume of get_primary_storage_path(): the backup and the marker live there
  Steps,         \* the restore order: records [vol, raw, umount]
  Dirs,          \* the backup directories restored from: Dirs[j] the files of step j
  ProbeOrder,    \* filesystems[] of nandroid_restore_partition_extended, in order
  PreferTar,     \* ro.ctr.prefer_tar is "true"
  MaxLines,      \* lines the unpacker prints
  ToolFail       \* a nonzero exit status of a tool

VARIABLES
  mounted, disk, content, media, layout, link, preserved, op,  \* MountController's
  pc,        \* where nandroid_restore is
  i,         \* the current step
  include,   \* include[j]: the caller selected step j (restore_boot, restore_system, ...)
  dir,       \* the backup directory's files per step
  bfs,       \* backup_filesystem of the current step, or NULL
  handler,   \* restore_handler: "unyaffs", "tar", "tgz", "raw" or NULL
  kind,      \* the extension of the artifact found
  lines,     \* output lines the unpacker has still to print
  ret        \* the value nandroid_restore returned

mcVars == <<mounted, disk, content, media, layout, link, preserved, op>>
vars == <<mounted, disk, content, media, layout, link, preserved, op,
          pc, i, include, dir, bfs, handler, kind, lines, ret>>

MC == INSTANCE MountController WITH FormatArgs <- {}

NULL == "NULL"
N == Len(Steps)
NANDROID_ERROR_GENERAL == 1
Legacy == [fs |-> "legacy", ext |-> "img"]
Exts == <<"img", "tar", "tar.gz">>

(* The wrapper each candidate name of 934-956 selects.                     *)
HandlerOf(e) == CASE e = "img" -> "unyaffs" [] e = "tar" -> "tar" [] e = "tar.gz" -> "tgz"

(* The probe of 920-963: <name>.img first (no type, no handler yet); then, *)
(* for each file system in order, <name>.<fs>.img, .tar, .tar.gz.  Only the *)
(* exact names are tested: split's shards .a, .b, ... are never looked at.  *)
Probe(files) ==
  LET hit(f) == \E n \in 1..3 : [fs |-> f, ext |-> Exts[n]] \in files
      k == SelectInSeq(ProbeOrder, hit)
  IN IF Legacy \in files THEN [found |-> TRUE, bfs |-> NULL, handler |-> NULL, ext |-> "img"]
     ELSE IF k = 0 THEN [found |-> FALSE, bfs |-> NULL, handler |-> NULL, ext |-> NULL]
     ELSE LET e == Exts[SelectInSeq(Exts, LAMBDA x : [fs |-> ProbeOrder[k], ext |-> x] \in files)]
          IN [found |-> TRUE, bfs |-> ProbeOrder[k], handler |-> HandlerOf(e), ext |-> e]

(* Mutant: ext4 and f2fs treated as different families.                   *)
DeclaredFsNoFamily(v, b) ==
  IF Fstab[v].fs_type = "auto" \/ (v = Data /\ MC!DataMedia) THEN NULL ELSE b

(* 967-975: the type format_device is given: none for auto volumes and     *)
(* datamedia /data, and none when backup and volume are both ext4/f2fs.    *)
DeclaredFs(v, b) ==
  IF \/ Fstab[v].fs_type = "auto"
     \/ v = Data /\ MC!DataMedia
     \/ b # NULL /\ b # Fstab[v].fs_type /\ {b, Fstab[v].fs_type} \subseteq {"ext4", "f2fs"}
  THEN NULL ELSE b

(* get_restore_handler() (882-907) once v is mounted as m.                 *)
GetRestoreHandler(v, m) ==
  CASE m = MC!NONE -> NULL
    [] v = Data /\ MC!DataMedia -> "tar"
    [] m.fs = "yaffs2" /\ ~PreferTar -> "unyaffs"
    [] OTHER -> "tar"

(* The next selected step after j, or N + 1.                               *)
NextStep(j) ==
  LET later == {k \in (j + 1)..N : include[k]} IN
  IF later = {} THEN N + 1 ELSE CHOOSE k \in later : \A m \in later : k <= m

(* Mutant: the last selected step taken for the end of the job.           *)
AdvanceOffByOne ==
  IF NextStep(i) >= N THEN pc' = "finish" /\ i' = i
  ELSE pc' = "part" /\ i' = NextStep(i)

Advance ==
  IF NextStep(i) > N THEN pc' = "finish" /\ i' = i
  ELSE pc' = "part" /\ i' = NextStep(i)

(* Mutant: a step's nonzero status not returned; the job goes on.         *)
FailIgnored(r) == Advance /\ UNCHANGED ret

(* print_and_error(NULL, r): the job stops with r.                         *)
Fail(r) == ret' = r /\ pc' = "returned" /\ UNCHANGED i

Fixed == UNCHANGED <<include, dir>>

-----------------------------------------------------------------------------
(* 1067-1074: mount the backup path (md5_check_enabled is 0: recovery.c    *)
(* 1095, and nothing sets it).                                             *)
Start ==
  /\ pc = "start"
  /\ MC!EnsureMounted(Primary)
  /\ IF op'.ret # 0 THEN Fail(NANDROID_ERROR_GENERAL) ELSE Advance /\ UNCHANGED ret
  /\ Fixed /\ UNCHANGED <<bfs, handler, kind, lines>>

(* The start of a step: the stat of <name>.img for a raw partition         *)
(* (1041-1049, and boot's 1080), the probe for the others (920-963).       *)
(* Nothing found skips the partition.                                      *)
Begin ==
  /\ pc = "part"
  /\ LET v == Steps[i].vol
         p == IF Steps[i].raw
              THEN [found |-> Legacy \in dir[i], bfs |-> NULL, handler |-> "raw", ext |-> "img"]
              ELSE Probe(dir[i]) IN
     IF ~p.found THEN Advance /\ UNCHANGED <<bfs, handler, kind>>
     ELSE /\ pc' = IF Steps[i].raw THEN "format" ELSE "hide"
          /\ bfs' = IF Steps[i].raw THEN NULL ELSE DeclaredFs(v, p.bfs)
          /\ handler' = p.handler /\ kind' = p.ext
          /\ UNCHANGED i
  /\ Fixed /\ UNCHANGED <<lines, ret>> /\ UNCHANGED mcVars

(* 977-982: ensure_path_mounted of the hide-progress marker on primary     *)
(* storage; its result is ignored.                                         *)
Hide ==
  /\ pc = "hide"
  /\ MC!EnsureMounted(Primary)
  /\ pc' = "format"
  /\ Fixed /\ UNCHANGED <<i, bfs, handler, kind, lines, ret>>

(* 984-993 and 1051-1055: format_volume, or format_device with the         *)
(* declared type; a failure ends the job with its status.                  *)
Format ==
  /\ pc = "format"
  /\ LET v == Steps[i].vol IN
     /\ IF bfs = NULL THEN MC!FormatVolume(v) ELSE MC!FormatDevice(v, bfs)
     /\ IF op'.ret # 0 THEN Fail(op'.ret)
        ELSE /\ pc' = IF Steps[i].raw THEN "rawwrite" ELSE "mount"
             /\ UNCHANGED <<i, ret>>
  /\ Fixed /\ UNCHANGED <<bfs, handler, kind, lines>>

(* 995-1012 and the popen of the wrapper: mount, fall back to              *)
(* get_restore_handler, no handler is -2, a failed popen -1.               *)
Mount ==
  /\ pc = "mount"
  /\ LET v == Steps[i].vol IN
     /\ MC!EnsureMounted(v)
     /\ LET h == IF handler = NULL THEN GetRestoreHandler(v, mounted'[v]) ELSE handler IN
        CASE op'.ret # 0 -> Fail(op'.ret) /\ UNCHANGED <<handler, lines>>
          [] h = NULL -> Fail(-2) /\ UNCHANGED <<handler, lines>>
          [] OTHER -> \/ Fail(-1) /\ UNCHANGED <<handler, lines>>
                      \/ pc' = "stream" /\ handler' = h /\ lines' = MaxLines /\ UNCHANGED <<i, ret>>
  /\ Fixed /\ UNCHANGED <<bfs, kind>>

(* What the unpacker's writes make of a device's files.                    *)
Written(c) == IF c \in {"old", "mixed"} THEN "mixed" ELSE "partial"
Completed(c) == IF c = "partial" THEN "restored" ELSE c

(* One fgets of the wrapper's loop (unyaffs_wrapper 824-831,               *)
(* do_tar_extract 848-857): the unpacker has written more, then            *)
(* user_cancel_nandroid(..., 0, ...) may pclose it and return -1, leaving  *)
(* the partition as it is (215-266).                                       *)
Unpack ==
  /\ pc = "stream" /\ lines > 0
  /\ LET v == Steps[i].vol
         d == MC!Reached(v, mounted) IN
     /\ d # "none"
     /\ content' = [content EXCEPT ![v][d] = Written(@)]
     /\ \/ lines' = lines - 1 /\ UNCHANGED <<pc, i, ret>>
        \/ Fail(-1) /\ UNCHANGED lines
  /\ Fixed /\ UNCHANGED <<bfs, handler, kind>>
  /\ UNCHANGED <<mounted, disk, media, layout, link, preserved, op>>

(* End of output: __pclose returns the unpacker's status; a wrapper that  *)
(* does not match the artifact's format (tar on a yaffs2 image) fails.     *)
EndOfOutput ==
  /\ pc = "stream" /\ lines = 0
  /\ LET v == Steps[i].vol
         d == MC!Reached(v, mounted)
         fits == handler = HandlerOf(kind) IN
     \E status \in IF fits THEN {0, ToolFail} ELSE {ToolFail} :
       IF status # 0 THEN Fail(status) /\ UNCHANGED content
       ELSE /\ content' = [content EXCEPT ![v][d] = Completed(@)]
            /\ IF Steps[i].umount THEN pc' = "unmount" /\ UNCHANGED i ELSE Advance
            /\ UNCHANGED ret
  /\ Fixed /\ UNCHANGED <<bfs, handler, kind, lines>>
  /\ UNCHANGED <<mounted, disk, media, layout, link, preserved, op>>

(* 1018-1022: umount_when_finished; the result is ignored.                 *)
Unmount ==
  /\ pc = "unmount"
  /\ MC!EnsureUnmounted(Steps[i].vol)
  /\ Advance
  /\ Fixed /\ UNCHANGED <<bfs, handler, kind, lines, ret>>

(* restore_raw_partition() of the image onto the erased device (1057-1061).*)
RawWrite ==
  /\ pc = "rawwrite"
  /\ LET v == Steps[i].vol IN
     \E ok \in BOOLEAN :
       /\ content' = [content EXCEPT ![v]["dev"] = IF ok THEN "restored" ELSE "partial"]
       /\ IF ok THEN Advance /\ UNCHANGED ret ELSE Fail(ToolFail)
  /\ Fixed /\ UNCHANGED <<bfs, handler, kind, lines>>
  /\ UNCHANGED <<mounted, disk, media, layout, link, preserved, op>>

(* finish_nandroid_job() and return 0 (1149-1152).                         *)
Finish ==
  /\ pc = "finish"
  /\ pc' = "returned" /\ ret' = 0
  /\ Fixed /\ UNCHANGED <<i, bfs, handler, kind, lines>> /\ UNCHANGED mcVars

(* The flag of nandroid_restore() that selects a step's volume: custpack *)
(* and cust go with restore_system, datadata with restore_data.           *)
GroupOf(v) ==
  CASE v \in {"system", "custpack", "cust"} -> "system"
    [] v \in {"data", "datadata"} -> "data"
    [] v = SdExt -> "sdext"
    [] OTHER -> v

(* nandroid_restore(path, restore_boot, restore_system, restore_data,     *)
(* restore_cache, restore_sdext, restore_wimax) (1067-1146): the steps    *)
(* of the selected groups.                                                 *)
RestoreSelections ==
  {f \in [1..N -> BOOLEAN] :
     \E sel \in SUBSET {"boot", "system", "data", "cache", "sdext"} :
       \A j \in 1..N : f[j] <=> GroupOf(Steps[j].vol) \in sel}

(* nandroid_advanced_restore(path, boot, system, data, cache) (1160-1230) *)
(* runs the same steps with no sd-ext and no WiMAX flag.                   *)
AdvancedSelections ==
  {f \in RestoreSelections : \A j \in 1..N : GroupOf(Steps[j].vol) # "sdext" \/ ~f[j]}

Init ==
  /\ MC!Init
  /\ pc = "start" /\ i = 0 /\ ret = 0
  /\ include \in RestoreSelections \cup AdvancedSelections
  /\ dir \in Dirs
  /\ bfs = NULL /\ handler = NULL /\ kind = NULL /\ lines = 0

Next == Start \/ Begin \/ Hide \/ Format \/ Mount \/ Unpack \/ EndOfOutput
          \/ Unmount \/ RawWrite \/ Finish

Spec == Init /\ [][Next]_vars

-----------------------------------------------------------------------------
(* Properties                                                               *)

Contents == {"old", "empty", "partial", "mixed", "restored"}

TypeOK ==
  /\ pc \in {"start", "part", "hide", "format", "mount", "stream", "unmount",
             "rawwrite", "finish", "returned"}
  /\ i \in 0..N /\ lines \in 0..MaxLines
  /\ content \in [Vols -> [MC!Devs -> Contents]]
  /\ handler \in {"unyaffs", "tar", "tgz", "raw", NULL}
  /\ bfs \in Range(ProbeOrder) \cup {NULL}
  /\ op.ret \in {0, -1, -12}

(* A volume holds exactly what the backup had: some device restored, and   *)
(* none left partly written or mixed with files from before.               *)
Restored(v) ==
  /\ \E d \in MC!Devs : content[v][d] = "restored"
  /\ \A d \in MC!Devs : content[v][d] \notin {"partial", "mixed"}

(* When nandroid_restore returns 0, every selected partition that has     *)
(* files in the backup directory holds the backup's contents and nothing  *)
(* else (spec.md 4.4: each step formats its destination before unpacking); *)
(* when it returns nonzero, no partition after the failing one was touched *)
(* (fail-fast).                                                            *)
RestoreResultTruthful ==
  pc = "returned" =>
    /\ ret = 0 => \A j \in 1..N : (include[j] /\ dir[j] # {}) => Restored(Steps[j].vol)
    /\ ret # 0 => \A j \in (i + 1)..N : content[Steps[j].vol] = [d \in MC!Devs |-> "old"]

(* On a datamedia device the backup lives in /data/media: no step of a     *)
(* restore, /data's own format included, removes it.                       *)
BackupSurvivesRestore == media = "kept"

(* After a restore that returns 0, every restored file-system volume's     *)
(* primary device holds a type its fstab entry mounts: an ext4 backup of   *)
(* an f2fs volume is restored as f2fs (spec.md 8; nandroid.c 972-975).     *)
RestoredVolumeMountsAsDeclared ==
  (pc = "returned" /\ ret = 0) =>
    \A j \in 1..N :
      (include[j] /\ dir[j] # {} /\ Fstab[Steps[j].vol].fs_type \notin {"auto"})
        => MC!KernelMounts(disk[Steps[j].vol]["dev"], Fstab[Steps[j].vol].fs_type)

(* The steps whose probe, or stat of <name>.img, finds an artifact.        *)
Found(j) == IF Steps[j].raw THEN Legacy \in dir[j] ELSE Probe(dir[j]).found

(* nandroid_restore implements the job of BackupJob: it restores the      *)
(* selected partitions that have an artifact one at a time, in order; a   *)
(* step never undoes an earlier restored partition; it returns 0 only     *)
(* once every one of them is restored, and nothing changes after it       *)
(* returned.  A cancel returns -1 like a failure, so both are the         *)
(* abstract "failed".  (The safety part: BackupJob's SafetySpec.)          *)
Job == INSTANCE BackupJob WITH
  Parts <- 1..N,
  status <- IF pc # "returned" THEN "running" ELSE IF ret = 0 THEN "done" ELSE "failed",
  todo <- {j \in 1..N : include[j] /\ Found(j)},
  done <- {j \in 1..N : Restored(Steps[j].vol)}

RestoreRefinement == Job!SafetySpec

=============================================================================
