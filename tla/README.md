# TLA+ models of the CWM-based recovery's storage core

This directory holds TLA+ models of the storage-management core of the recovery:
- `src/roots.c`: the volume table, mount, unmount and format.
- `src/nandroid.c`: backup and restore orchestration, the archiver wrappers and the cancel protocol.
- `src/ui.c` and `src/default_recovery_keys.c`: the key queue that the input thread fills (hardware keys and touch scrolling) and that the cancel protocol and the menus read, and the menu window those keys move.
- `src/recovery.c`: the menu loop `get_menu_selection`, the wipes (`erase_volume`, `wipe_data`, `wipe_cache`, `wipe_dalvik_cache`, `wipe_preflash`, `--wipe_data`), and main()'s boot protocol (`get_args` over the bootloader control block (BCB) and `/cache/recovery/command`, `finish_recovery`).

Each module is checked with TLC.
- `PROJECT.json` lists the runs, the mutants that show each property can fail, the map from every definition to the source lines it translates, the findings, and the hazards.
- `tlc -workers 2 -config <cfg> <MC module>` reproduces each run.

## 1. Inventory

### Components and their state

| Component | Source | State it keeps | Operations |
|---|---|---|---|
| VolumeRegistry | roots.c 57-179 | `device_volumes[]`, `num_volumes`; the `/tmp` ramdisk is entry 0 | `load_volume_table` (fgets loop, `parse_options`), `volume_for_path`, `is_data_media`, `get_primary_storage_path`, `get_android_secure_path` (cached) |
| MountController | roots.c 283-459, 460-806 | the kernel mount table (seen via `scan_mounted_volumes`), `data_media_preserved_state` (1), `encryption_state` | `ensure_path_mounted[_at_mount_point]` (datamedia alias, ramdisk, already mounted, yaffs2/MTD, three `try_mount` attempts, `mount` command with exfat/ntfs fallback), `ensure_path_unmounted`, `format_volume`, `format_device`, `format_unknown_device` (`rmtree_except`, `.layout_version` kept for `/data`) |
| Encoding strategies | nandroid.c 268-378, 810-907 | none; each wrapper is a subprocess | backup: `mkyaffs2image_wrapper`, `tar_compress_wrapper`, `tar_gzip_compress_wrapper` (touch a marker, `split` into shards `.a`, `.b`, ...), `tar_dump_wrapper`; restore: `unyaffs_wrapper`, `tar_extract_wrapper`, `tar_gzip_extract_wrapper`, `tar_undump_wrapper`; selection: `get_backup_handler`, `get_restore_handler`, `refresh_default_backup_handler`, `forced_backup_format` |
| Orchestrator | nandroid.c 409-602, 909-1153 | backup directory contents, `nandroid_canceled`, progress counters | `nandroid_backup` (boot, wimax, system, custpack, cust, data, datadata, .android_secure, cache, sd-ext, md5), `nandroid_restore` (md5 check, then the same partitions: probe, format, mount, unpack) |
| Cancellation | nandroid.c 112-120, 215-266; ui.c 700-752, 1121-1145, 1999-2041 | `key_queue` (256, under `key_queue_mutex`), `interval_passed_t_timer`, `nand_starts` | `user_cancel_nandroid`, `key_press_event`, `ui_check_key`, `ui_clear_key_queue`, `key_handle_input` (input thread) |

### How they interact

The orchestrator mounts the partition through MountController, which looks it up in the VolumeRegistry. It then picks a wrapper and `popen`s the archiver. It reads the archiver's output one line at a time, and before each line it calls `user_cancel_nandroid`. That call takes a key from the queue, which the UI input thread fills concurrently; it is the only true concurrency in this layer. Restore adds two more steps: it derives the wrapper and the file system from the names of the files in the backup directory, and it formats the partition through MountController before unpacking.

### Hard behaviours

- **The input thread and the main thread.** The input thread appends keys while the main thread dequeues them and clears the queue: at the banner, at the prompt, and at cancel.
- **The confirmation window.** It is bounded by a shared timer. `key_event` starts as `SELECT_ITEM`, so a window that expires before the first poll cancels.
- **Cancel deletes the whole backup directory.** In a restore, cancel leaves a partition that is formatted and half unpacked.
- **Fail-fast.** Any nonzero step stops the job. `print_and_error` picks the icon from `nandroid_canceled`.
- **Artifact probing.** Restore probes artifacts by their exact marker name, in a fixed order of file systems and extensions. A stale artifact wins over a newer one.
- **Format before mount.** Restore formats with the file system recorded in the backup, then mounts with the fstab's type.
- **/data on datamedia devices is wiped in place** (`rmtree_except("/data","media")`). That works only when /data is mounted, and unmounting it is a no-op while media is preserved.
- **Mount fallback chain.** `try_mount` is tried on device/fs_type, then device/fs_type2, then device2/fs_type2.

### Correctness properties per component

- **VolumeRegistry:**
  - parsing keeps well-formed lines in order and applies the `fstype2` swap;
  - lookup gives the owner of a path. The spec says the longest prefix; the code takes the first match.
- **MountController:**
  - mounting twice does not mount twice;
  - unmount never unmounts preserved or encrypted /data;
  - format leaves the partition empty except for preserved media and `.layout_version`.
- **Orchestrator:**
  - the returned status is truthful about the directory and the partitions;
  - fail-fast;
  - the job terminates;
  - restore recovers what backup wrote, using names alone.
- **Cancellation:**
  - only a confirmed second press cancels;
  - the wait is bounded;
  - the cancel status is distinct from a failure.

## 2. Plan

Modules in the order they were built, the most important behaviour first.

1. **`VolumeTable`** (done). `load_volume_table` reads the fstab one line at a time; `volume_for_path` follows it.
2. **`NandroidBackup`** (done). The backup job of both entry points, the archiver stream, the cancel protocol and the input thread.
3. **`MountController`** (done). Mount, unmount and format over a mount table, the devices and their contents. It is checked through the modules that compose it (4 and 6).
4. **`NandroidRestore`** (done). Both restore entry points, composed with MountController by `INSTANCE`.
5. **`KeyQueue`** (done). The menu loop's `ui_wait_key_with_repeat` against the input thread, including touch scrolling.
6. **`Wipes`** (done). The wipes of recovery.c, composed with MountController, inside main()'s boot protocol with power losses.
7. **`BackupJob`** (done). The abstract job; `NandroidBackup` is shown to refine it, and `NandroidRestore` to refine its safety part.
8. **`MenuView`** (done). ui.c's menu window (`ui_start_menu`, `ui_menu_select`, `scroll_touch_menu`) as operators, composed into KeyQueue's main thread.

Left for later sittings:
- **A later manual boot into recovery after the main system ran**, with a command file `finish_recovery` could not unlink.
- **A backup/restore round trip on artifact names.** Compose the directory `NandroidBackup` leaves with the probe of `NandroidRestore`.
- **A vfat `/sdcard` device in `Wipes`.** There `erase_volume("/sdcard/.android_secure")` unmounts `/sdcard` before its rmtree (hazard at roots.c:527).
- **Encrypted `/data`.** It becomes state once the `vdc` shell-outs are modelled as succeed/fail.
- **The rest of the touch path.** Virtual buttons, tap-to-select (`KEY_ENTER`), first-touch `KEY_PAGEUP`, and `ignore_key_action`, which nothing under src/ ever sets.
- **`nandroid_dump`/`nandroid_undump`** (adb backup to stdout).

## 3. Modules and runs

There are 12 runs in total, listed in `PROJECT.json` with what each shows. Each property of a passing run has a mutant there: a plausible bug in one mapped definition under which TLC finds the property violated.

### VolumeTable (roots.c 57-179)

**State.**
- `input`: the fstab lines not yet read.
- `volumes`: `device_volumes`, seeded with the ramdisk.
- `phase`: loading or loaded.
- `query` and `found`: the last `volume_for_path` call.

**Data abstraction.**
- A path is a sequence of segments. The `strncmp` plus the `'/'`/NUL boundary test is exactly `IsPrefix` on segments.
- A line is a record of its tokens: the count, the mount point, the type, whether the 4th token starts with `/`, and the parsed options.

**Actions.**
- `ReadLine`: one iteration of the fgets loop, with `ParseLine`/`ParseOptions`.
- `EndOfTable`.
- `Lookup`.

**Runs.**
- `VolumeTable.cfg` (pass, 758 states).
  - Input: every fstab of 1-3 lines drawn from six representative lines.
  - `FirstMatchIsLongestIffUnshadowed`: first-match lookup agrees with longest-prefix lookup exactly when no volume is shadowed by an earlier, shorter mount point.
- `VolumeTable_longest.cfg` (violation). The table `/a` then `/a/b` resolves `/a/b` to `/a`, against spec §4.1.

### NandroidBackup (nandroid.c 143-693, ui.c key queue)

**Main thread.** `pc` runs through these actions:
- `Prepare`: mount the path, statfs, mkdir, then go to the first visited step.
- `BackupRaw`.
- `StartArchiver`: mount, `get_backup_handler`, popen. A NULL handler returns -2.
- `Poll`: one fgets plus `user_cancel_nandroid`.
- `ConfirmPoll` and `ConfirmTimeout`: the "Really cancel?" wait loop.
- `FinishArchiver`.
- `Md5`.

**Input thread.** `PressKey` is `key_handle_input`.

**Steps visited.** `present[j]` says whether the job visits step j, chosen at Init from two sets:
- `FullVisits` for `nandroid_backup`: every step except the conditional ones whose volume or directory is missing.
- `AdvancedVisits` for `nandroid_advanced_backup`: the steps of the groups its boot/system/data/cache flags select. It never visits wimax or sd-ext.

**Data abstraction.** The archiver's output is the number of lines it still has to print. Mounts, tools and md5 succeed or fail nondeterministically. The directory is `dirExists` plus a per-step artifact state and kind.

**Fairness.** Weak fairness on the main thread only. The archiver's output is finite, and the wait loop ends after 5 s (`is_time_interval_passed`). The user may never press a key, so the input thread has no fairness.

**Bounds.**
- 2 archiver lines: a banner poll, a press, and a poll that opens the prompt.
- 3 presses.
- Queue capacity 2, so the capacity check is reached.
- 5 steps: raw boot, ext4 system, data, the optional alias `.android_secure`, and yaffs2 cache.

**Runs.**
- `NandroidBackup.cfg` (pass, 26732 states):
  - `TypeOK`;
  - `BackupResultTruthful`: 0 only with every visited partition complete and md5 written; a failure leaves nothing after the failing step; a cancel leaves no directory;
  - `CancelNeedsConfirmation`;
  - `JobTerminates`;
  - `JobRefinement`: the job implements `BackupJob!Spec` (below).
- `NandroidBackup_secure.cfg` (violation). On a datamedia device with `.android_secure` present, a backup where every tool succeeds returns -2.
- `NandroidBackup_window.cfg` (violation). A window that is over before the first poll cancels on a single press.

### BackupJob (abstract; spec.md 1, 2 and 7)

What a backup promises its caller. `status` is running, done, failed or cancelled, `todo` the partitions the job visits, and `done` those with a complete archive. `Archive(j)` archives the next partition in order; `Succeed` needs every visited partition archived; `Fail` keeps the archives so far; `Cancel` empties the directory. `Spec` has weak fairness, so a job ends.

`NandroidBackup` maps onto it with `INSTANCE BackupJob WITH`:
- `status` comes from `pc`, `ret` and the icon, the one thing that tells a cancel from a failure (both return -1, nandroid.c 257);
- `todo` is the visited steps;
- `done` is the steps whose artifact is complete.

The refinement is the `JobRefinement` property of `NandroidBackup.cfg`. Its mutant lets `print_and_error` show the error icon on a cancel.

`NandroidRestore` maps onto it too (`RestoreRefinement`, in `NandroidRestore.cfg`):
- `status` comes from `pc` and `ret`; a cancel and a failure both return -1, so both map to failed;
- `todo` is the selected steps whose probe or `<name>.img` stat finds an artifact (`Found`);
- `done` is the steps whose volume is `Restored`.

Only `SafetySpec` (Init and Next, without fairness) is checked for restore. TLC's evaluation of ENABLED through this mapping over MountController's state is too slow for the run. The refinement adds to `RestoreResultTruthful` that partitions are restored in order, that no later step undoes an earlier restored partition, and that nothing changes after the return. Its mutant ends the job one step early.

### MountController (roots.c 181-217, 283-459, 500-811)

**State.**
- `mounted[v]`: the kernel mount table at v's mount point.
- `disk[v][d]` and `content[v][d]`: the file system and the contents of each device.
- `media` and `layout`: `/data/media` and `.layout_version`.
- `link`: the `/sdcard` symlink.
- `preserved`: `data_media_preserved_state`.
- `op`: the last call, its result, and what a mkfs or erase rewrote.

**Actions.** Each is a whole function:
- `EnsureMounted(v)`: the alias branch with `setup_data_media`, already mounted, yaffs2, the three `try_mount` attempts, and the `mount` command with the exfat/ntfs helpers.
- `EnsureUnmounted(v)`: the alias and /data early returns, and a busy unmount.
- `FormatVolume(v)` and `FormatDevice(v, fs)`, with `FormatUnknown` (flash erase, ext2/ext3, the in-place /data wipe, rmtree).
- `PreserveDataMedia(b)`.

`Encrypted` is a constant, FALSE everywhere: nothing under src/ sets `encryption_state` to 1. The module has no run of its own. Its property `NeverFormatMounted` is checked in the `wipes` run, where wipes and user mounts drive every action.

### NandroidRestore (nandroid.c 814-1230)

**State.**
- MountController's variables.
- `pc`, `i`: the step.
- `include`: the caller's selection.
- `dir`: the backup directory's files per step.
- `bfs`, `handler`, `kind`: the probe result.
- `lines`: the unpacker's output.
- `ret`.

**Actions.**
- `Start`: mount the backup path.
- `Begin`: the raw `.img` stat, or `Probe` over the names the code tests.
- `Hide`: the marker mount.
- `Format`: `MC!FormatVolume`, or `MC!FormatDevice` with `DeclaredFs`.
- `Mount`: `get_restore_handler`.
- `Unpack` and `EndOfOutput`: the line loop with cancel, and pclose.
- `Unmount`, `RawWrite`, `Finish`.

**Selection.** `include` ranges over `RestoreSelections`, one flag per group for `nandroid_restore`. `AdvancedSelections` is the same set without sd-ext, for `nandroid_advanced_restore`.

**Runs.**
- `NandroidRestore.cfg` (pass, 74208 states, about 2 min). A datamedia device with emmc boot, f2fs `/system` (ext4 as second type), ext4 /data and yaffs2 /cache, restored from every directory `nandroid_backup` can leave. It checks `TypeOK`, `RestoreResultTruthful`, `BackupSurvivesRestore`, `RestoredVolumeMountsAsDeclared` and `RestoreRefinement`.
- `_shards` (violation). A shard-only directory is "not found" and the restore returns 0.
- `_sdext` (violation). An `auto` /sd-ext is "formatted" without deleting anything.
- `_cancel` (violation). The steps are archive steps only (`MediaArchiveSteps`), so no raw flash failure can be the cause. TLC's trace formats /cache, mounts it, passes one line of unyaffs output, and then a confirmed cancel pcloses the unpacker (nandroid.c 825-826, 256-258). The restore returns -1 with /cache formatted and half unpacked, against spec §2. A raw flash that fails after the erase (1057-1061) leaves a partition half written in the same way.

### KeyQueue (ui.c 669-695, 1121-1409, 1430-1498, 1907-2003; recovery.c 527-597)

**Input thread.**
- `Press`, `AutoRepeat` and `Release` model `key_handle_input`.
- `TouchDown`: a touch during a scroll empties the queue.
- `TouchScroll`: a move replaces the queue with one `KEY_PAGEDOWN`.
- `TouchUp`: a lift stops a scroll, or flings it by queuing `Persist(speed)` copies, capped below the queue size.
- `Trackball`: `input_callback`'s REL_Y path adds the motion to `rel_sum` (`relSum`). Past 3 either way, `rel_sum` is reset and a fake `KEY_DOWN` or `KEY_UP` is queued (`Enqueue`). `key_pressed` never records a fake key, so the pop loop never takes it for held.

**Main thread.**
- `MenuStart` and `Lock`.
- `WaitEnds`: a timed-wait round that may time out with a key queued.
- `Scan`: one pop, dropping released repeated keys and re-adding held repeatable ones.
- `Handle`: the key's menu action. Power selects and clears; Volume Down and `KEY_DOWN` are `HIGHLIGHT_DOWN` and `KEY_UP` is `HIGHLIGHT_UP` (`Highlight`, `ui_menu_select` of the selection plus or minus one); `KEY_PAGEDOWN` runs `scroll_touch_menu` (`TouchMenuScroll`), which moves the window and stops the scroll at either end; -1 reboots when the text was never shown.

**Menu view (`MenuView`, ui.c 464-466, 669-695, 1736-1797).** `menu` is the record of `menu_items`, `menu_sel` and `menu_show_start`. The module holds the arithmetic of `ui_start_menu` (`StartMenu`, initial selection 0 as every caller passes), `ui_menu_select` (`Wrap`, then the scroll up and the scroll down), `scroll_touch_menu` (`Moved`, then the past-the-end and above-the-top corrections, either of which clears `now_scrolling`) and draw_menu's test that the selection is on screen (`Shown`). `now_scrolling` is kept with its sign (`scrolling` in -1..1), set by `TouchScroll`. The extra rows of a fling (`scroll_speed / (2 * height)`) are the free choice `Jumps`, 0 while the finger is down.

**Data abstraction.** Time is a free choice at each read: whether a repeat is due, whether a wait times out, `usb_connected()`, and the 650/300 ms scroll tests.

**Fairness.** `WF(Main)`. The main thread's only blocking wait times out by itself.

**Run.** `KeyQueue.cfg` (pass, 623047 states, about 1 min 45 s).
- Bounds: queue 4, 6 input events, flings of 0, 1 and 2 screen heights. These reach an empty fling, an uncapped 4-key fling and a capped one, and they let hardware keys fill the queue.
- The trackball rolls up 2 per event, so two events fake `KEY_UP`, and a fake key can be queued twice or behind held keys. `KEY_UP` moves the highlight up while Volume Down moves it down, so both directions and both wraps happen. Rolling down is the same pop-loop path with `KEY_DOWN`, the same menu action as Volume Down.
- The menu: one header row and 3 rows in all, so 2 for items, and the root menu with 3 items, one more than fits; flings of 0 or 1 extra row. A second menu size tripled the run time without reaching another branch of the properties.
- `TypeOK` (the queue never overflows).
- `SelectionShown`: after a `HIGHLIGHT_UP` or `HIGHLIGHT_DOWN` the highlighted item is on screen, also when a scroll had moved the window away from it and when the move wrapped.
- `WindowInList`: `menu_show_start` never goes above the first item, and once moved down never shows rows past the last item, whatever a fling adds.
- `PressAnswered`: once the text has been shown, every queued hardware or trackball key is returned by `ui_wait_key_with_repeat` or discarded by a clear or a scroll.

It follows keys, not presses. Two presses of one repeatable key queued before the first pop are answered by one return. Popping the first copy sets `key_last_repeat`, and the pop loop then drops the second copy as a released key that already repeated (ui.c:1963, listed as a hazard).

### Wipes (recovery.c 161-331, 333-414, 608-712, 969-1140)

**Composition.** The module composes MountController. A wipe (`proc`) is a sequence of steps (`todo`), one per roots.c call that `erase_volume` and the wipe functions make:
- mount and unmount;
- `preserve_data_media`;
- format;
- the `.android_secure` rmtree (`FormatSecure`);
- `rm -rf` of the dalvik caches.

Between wipes, the user mounts and unmounts volumes (`Other`).

**Boot protocol.** Recovery boots (`proc = "boot"`) with the BCB zeroed and a `--wipe_data` command file or none. Its steps are main's mount of /cache and `GetArgs`:
- `GetArgs` takes the BCB's arguments when `bcbRead` (the flash type is MTD or MMC); otherwise it mounts /cache and reads the command file;
- it writes what it found back to the BCB with boot-recovery.

A command found runs first (`CmdPending`). A failed command goes straight to the reboot; otherwise the menus are open (`MenuOpen`). `Reboot` runs `finish_recovery`'s steps: mount /cache, zero the BCB (`ClearBcb`), unlink the command file (`Unlink`). Then the main system runs (`proc = "main"`).

`Crash` is a power loss at any point before that (at most `MaxCrashes`):
- the devices, the BCB and the command file survive;
- the command file is on the /cache device, so a format of /cache removes it (`CommandFile`);
- the mount table, the ramdisk's /sdcard link and `data_media_preserved_state` start afresh;
- the bootloader starts recovery again while the BCB says boot-recovery, and the main system otherwise.

**Fairness.** Weak fairness on `MainProceeds`: the next step of a procedure (`Step`), its return (`Done`), and the start of a pending command (`RunCommand`). main() takes these without waiting for the user (recovery.c 979-1077), and at most one of them is enabled in a state. The user's choices (menu wipes, `Other`, the menu's `Reboot`) and power losses (`Crash`) have no fairness.

**Runs.**
- `Wipes.cfg` (pass, 1625014 states, about 3 min 30 s, most of it the liveness check). A datamedia device with f2fs /system reached through the fallback chain, with or without a command file, either flash type, one power loss, any three wipes or user operations per boot, and every tool able to fail. It checks:
  - `TypeOK`;
  - `MenuWipesKeepMedia`: only `--wipe_data` loses /data/media;
  - `MenuWipesKeepLayout`: only `--wipe_data` loses a written `/data/.layout_version`;
  - `CmdWipeTruthful`: a `--wipe_data` whose erases return 0 formatted /data and /cache;
  - `FactoryResetRestartable`: once `get_args` took up `--wipe_data`, the main system runs only after /data was formatted or an erase reported its failure. This is the "restartable at any point" promise of recovery.c 101-113. It rests on the order of main's steps. Its mutant erases /cache before /data. On a flash type whose BCB is not read back, a power loss after that erase then loses the command with the file, and the main system boots with /data intact;
  - `FactoryResetCompletes`: a `--wipe_data` taken up by `get_args` is eventually carried out (/data formatted) or reported failed, whatever power loss comes between. `FactoryResetRestartable` only says that the main system does not boot too early; this property says the reset is not left pending forever. Its mutant lets main() open the menus while the command is pending, and the command is then never run;
  - `NeverFormatMounted`.
- `Wipes_reach.cfg` (violation). The menu `wipe_data` with /data unmounted reports success and leaves every file of /data (roots.c:795).

## 4. Not modelled, and why

- **UI rendering (minuictr) and the progress animation:** I/O and presentation. No decision reads them.
- **The text log (`ui_print`, `ui_delete_line`, `ui_clear_text`) and touch selection (`ui_menu_touch_select`, `ui_valid_menu_touch`):** the log is a ring buffer of lines that only draw_menu reads, so no decision of the recovery depends on it. Touch selection needs the `KEY_PAGEUP` and `BTN_TOUCH` codes and touch coordinates, which KeyQueue does not model. The Go Back row written one row past `menu[]` when a menu fills `MENU_MAX_ROWS` (ui.c:1756) depends on headers outside src/ and is listed as a hazard.
- **`prompt_and_wait`, `install_package`, sideload, `setup_adbd`:** the menus other than the wipes call code that is not in this tree (extendedcommands.c) or that only runs shell tools. Wipes keeps their effect on mounts as the `Other` action.
- **Encryption setup (`vdc cryptfs`):** a shell-out. Only `is_encrypted_data()` matters, and it is a constant.
- **Archive contents, path strings and log text:** abstracted to artifact state and kind.
- **`boardEnableKeyRepeat`'s reset in `input_callback` (ui.c 1473-1475):** unreachable, because every EV_KEY is consumed by `touch_handle_input`.
- **The rest of main()'s boot protocol:** `--update_package`, `--wipe_cache` alone, `--sideload` and the extendedcommand script. `get_bootloader_message` and `set_bootloader_message` are in bootloader.c, not in this tree. The model takes a BCB write to succeed, and a read to return what was written when the flash type allows it. `/tmp/.ignorebootmessage` is never created under src/, and /tmp is empty at each boot, so the BCB is always consulted.
- **A power loss inside one roots.c call:** a mkfs or rmtree interrupted half way. Each call is one step, and a power loss falls between steps. The main system is final in the model: a later manual boot into recovery is not explored.
- **A failed `/sdcard` symlink:** `setup_data_media` ignores the results of its `rmdir` and `symlink` (roots.c 205, 213), and the alias mount still returns 0. The model always links /sdcard, because what the ramdisk's /sdcard holds before the first link is not modelled. This is listed as a hazard at roots.c:331.
- **MTK partitions and `nandroid dump`/`undump`:** the MTK backup and restore steps (nandroid.c 687-760, 1224-1290) are compiled only under `BOARD_HAS_MTK_CPU`, and the models follow the build without it. Dump and undump stream one partition through a shell pipe and keep no state that another step reads. Both are listed as hazards with notes: an uninitialized `nvd` command at nandroid.c:1283 when no nvdata archive exists, and `nandroid_undump` reporting success for an unknown partition name (nandroid.c:1337).
