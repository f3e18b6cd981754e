----------------------------- MODULE VolumeTable -----------------------------
(***************************************************************************)
(* The volume registry of roots.c: load_volume_table() reads the recovery  *)
(* fstab one line at a time into the device_volumes array, seeded with     *)
(* the /tmp ramdisk, and volume_for_path() maps a path to the volume that  *)
(* owns it.                                                                *)
(*                                                                         *)
(* Data abstraction.  A path is a sequence of path segments; strncmp on    *)
(* the mount point followed by the check that the next character is '/'   *)
(* or NUL is exactly "the mount point's segments are a prefix of the       *)
(* path's segments".  An fstab line is a record of its whitespace tokens:  *)
(* how many there are, the mount point, the fs type, whether the fourth    *)
(* token starts with '/', and its option list (one record per comma-       *)
(* separated option, with its key and, for fstype2=, the type it names).   *)
(***************************************************************************)
EXTENDS Naturals, Sequences, SequencesExt

CONSTANTS
  FsTypes,      \* file system type names that may appear in the table
  Paths,        \* the paths looked up, each a sequence of segments
  TmpPath,      \* the path <<"tmp">> of the ramdisk pseudo-volume
  FstabFiles    \* the possible contents of /etc/ctr.fstab: sequences of lines

ASSUME TmpPath \in Paths

NULL == "NULL"

\* The option keys parse_options() accepts; anything else is "bad".
OptionKeys == {"length", "fstype2", "fs_options", "fs_options2", "lun"}

VARIABLES
  input,     \* lines of the fstab not yet read (fgets loop)
  volumes,   \* device_volumes[0 .. num_volumes-1]
  phase,     \* "loading" while the fgets loop runs, then "loaded"
  query,     \* the last path given to volume_for_path
  found      \* its result: an index into volumes, or 0 for NULL

vars == <<input, volumes, phase, query, found>>

(* The ramdisk entry inserted before the table is read (roots.c 85-95).    *)
Ramdisk == [mount_point |-> TmpPath, fs_type |-> "ramdisk",
            fs_type2 |-> NULL, has_device2 |-> FALSE]

(* parse_options(): walk the comma-separated options; fstype2=X moves the  *)
(* table's type to fs_type2 and makes X the primary type; an unknown key   *)
(* makes the whole line malformed (returns -1).  The result is {v} for the *)
(* parsed volume, {} for a malformed line.                                 *)
(* Mutant: the fstype2= value taken one character early (option + 7).      *)
RECURSIVE ParseOptionsOffByOne(_, _)
ParseOptionsOffByOne(opts, v) ==
  IF opts = <<>> THEN {v}
  ELSE LET o == Head(opts) IN
       IF o.key \notin OptionKeys THEN {}
       ELSE ParseOptionsOffByOne(Tail(opts),
              IF o.key = "fstype2"
              THEN [v EXCEPT !.fs_type2 = v.fs_type, !.fs_type = "=" \o o.val]
              ELSE v)

RECURSIVE ParseOptions(_, _)
ParseOptions(opts, v) ==
  IF opts = <<>> THEN {v}
  ELSE LET o == Head(opts) IN
       IF o.key \notin OptionKeys THEN {}
       ELSE ParseOptions(Tail(opts),
              IF o.key = "fstype2"
              THEN [v EXCEPT !.fs_type2 = v.fs_type, !.fs_type = o.val]
              ELSE v)

(* One iteration of the fgets loop (roots.c 105-153): blank and comment    *)
(* lines are ignored; a line with mount point, type and device becomes a   *)
(* volume unless its options are bad; a fourth token starting with '/' is  *)
(* the second device and the fifth the options, otherwise the fourth is    *)
(* the options.  The result is {volume}, or {} when the line is skipped.   *)
ParseLine(l) ==
  IF l.lead \in {"blank", "comment"} \/ l.ntok < 3 THEN {}
  ELSE LET dev2 == l.ntok >= 4 /\ l.slash4
           v0   == [mount_point |-> l.mp, fs_type |-> l.fs,
                    fs_type2 |-> NULL, has_device2 |-> dev2]
           opts == IF l.ntok = 3 \/ (dev2 /\ l.ntok = 4) THEN <<>> ELSE l.opts
       IN ParseOptions(opts, v0)

ReadLine ==
  /\ phase = "loading"
  /\ input # <<>>
  /\ volumes' = volumes \o SetToSeq(ParseLine(Head(input)))
  /\ input' = Tail(input)
  /\ UNCHANGED <<phase, query, found>>

(* fgets returns NULL: fclose and print the table.                         *)
EndOfTable ==
  /\ phase = "loading"
  /\ input = <<>>
  /\ phase' = "loaded"
  /\ UNCHANGED <<input, volumes, query, found>>

(* The mount point is a prefix of the path ending on a segment boundary.   *)
OwnsPath(v, p) == IsPrefix(v.mount_point, p)

(* Mutant: the table scanned for the LAST matching volume.                 *)
VolumeForPathLastMatch(vs, p) == SelectLastInSeq(vs, LAMBDA v : OwnsPath(v, p))

(* volume_for_path() (roots.c 168-179): the FIRST volume in table order    *)
(* whose mount point matches; 0 stands for NULL.                           *)
VolumeForPath(vs, p) == SelectInSeq(vs, LAMBDA v : OwnsPath(v, p))

Lookup ==
  /\ phase = "loaded"
  /\ \E p \in Paths :
       /\ query' = p
       /\ found' = VolumeForPath(volumes, p)
  /\ UNCHANGED <<input, volumes, phase>>

Init ==
  /\ \/ input \in FstabFiles /\ phase = "loading"
     \* roots.c 97-101: a missing fstab leaves only the ramdisk
     \/ input = <<>> /\ phase = "loaded"
  /\ volumes = <<Ramdisk>>
  /\ query = NULL
  /\ found = 0

Next == ReadLine \/ EndOfTable \/ Lookup

Spec == Init /\ [][Next]_vars

-----------------------------------------------------------------------------
(* Reference definitions, from spec.md 4.1 and 6.                          *)

(* The spec's lookup: the volume whose mount point is the LONGEST matching *)
(* prefix of the path (0 when none matches).                               *)
LongestMatch(vs, p) ==
  LET I == {i \in 1..Len(vs) : OwnsPath(vs[i], p)}
  IN IF I = {} THEN 0
     ELSE CHOOSE i \in I : \A j \in I : Len(vs[j].mount_point) <= Len(vs[i].mount_point)
                                        /\ (Len(vs[j].mount_point) = Len(vs[i].mount_point) => i <= j)

(* A volume is shadowed when an earlier volume's mount point is a proper   *)
(* prefix of its own, and it is the first entry with that mount point:     *)
(* the path equal to its mount point is claimed by the earlier volume.     *)
Shadowed(vs) ==
  \E i, j \in 1..Len(vs) :
    /\ i < j
    /\ IsStrictPrefix(vs[i].mount_point, vs[j].mount_point)
    /\ \A k \in 1..(j - 1) : vs[k].mount_point # vs[j].mount_point

TypeOK ==
  /\ phase \in {"loading", "loaded"}
  /\ \A i \in 1..Len(volumes) :
       volumes[i].fs_type \in FsTypes \cup {"ramdisk"}
  /\ found \in 0..Len(volumes)
  /\ query \in Paths \cup {NULL}

(* The first-match rule of volume_for_path() agrees with the spec's        *)
(* longest-prefix rule on every path exactly when the loaded table has no  *)
(* shadowed volume; so reordering or nesting fstab lines is the only way   *)
(* the two rules can differ.                                               *)
FirstMatchIsLongestIffUnshadowed ==
  phase = "loaded" =>
    ((\A p \in Paths : VolumeForPath(volumes, p) = LongestMatch(volumes, p))
       <=> ~Shadowed(volumes))

(* spec.md 4.1 / 8: volume_for_path returns the volume with the longest    *)
(* matching mount point (and so every declared volume for its own mount    *)
(* point).                                                                 *)
LookupIsLongestPrefix ==
  (phase = "loaded" /\ query # NULL) => found = LongestMatch(volumes, query)
=============================================================================
