----------------------------- MODULE ConfigFile -----------------------------
(***************************************************************************)
(* How the configuration gets to disk (Config::save and load, config.rs):  *)
(* into a sibling file, which is synced and then renamed over the real     *)
(* one. The sibling's name is fixed. The account operations save under the *)
(* clients' mutex, the configuration page (put_config) does not: two saves *)
(* can overlap, and then they share the sibling. The directory is never    *)
(* synced: until the file system writes it, a crash undoes a rename.       *)
(***************************************************************************)
EXTENDS Naturals

CONSTANTS Savers,       \* the tasks that save
          MaxSaves,     \* bounds the saves
          MaxCrashes    \* bounds the crashes

ASSUME ConfigAssumption == MaxSaves \in Nat /\ MaxCrashes \in Nat

VARIABLES target,       \* the configuration file
          before,       \* the file that the directory on the disk still names
          tmp,          \* the sibling
          saver,        \* each save: its step, its version, its file's place
          saves,        \* the number of saves begun: the latest version
          saved,        \* the latest version whose save succeeded
          settled,      \* the latest version seen to be in the directory on the disk
          undone,       \* a crash undid the latest save
          overlapped,   \* two saves were under way at once
          crashes

configVars == <<target, before, tmp, saver, saves, saved, settled, undone, overlapped, crashes>>

Versions == 0 .. MaxSaves
Content(v, part, synced) == [version |-> v, part |-> part, synced |-> synced]
NoFile == Content(0, "none", FALSE)
Idle == [step |-> "idle", version |-> 0, place |-> "gone"]

Contents == [version : Versions, part : {"none", "empty", "half", "whole", "mixed"},
             synced : BOOLEAN]

ConfigTypeOK ==
    /\ target \in Contents /\ before \in Contents /\ tmp \in Contents
    /\ saver \in [Savers -> [step : {"idle", "write", "finish", "sync", "rename"},
                             version : Versions, place : {"tmp", "target", "gone"}]]
    /\ saves \in Versions /\ saved \in Versions /\ settled \in Versions
    /\ undone \in BOOLEAN /\ overlapped \in BOOLEAN /\ crashes \in 0 .. MaxCrashes

ConfigInit ==
    /\ target = Content(0, "whole", TRUE) /\ before = NoFile /\ tmp = NoFile
    /\ saver = [s \in Savers |-> Idle]
    /\ saves = 0 /\ saved = 0 /\ settled = 0 /\ undone = FALSE
    /\ overlapped = FALSE /\ crashes = 0

At(s, step) == saver[s].step = step
Goes(s, step) == saver' = [saver EXCEPT ![s].step = step]

(* The sibling is created, or emptied if there is one. *)
Create(s) ==
    /\ At(s, "idle") /\ saves < MaxSaves
    /\ saves' = saves + 1
    /\ tmp' = Content(0, "empty", FALSE)
    /\ saver' = [saver EXCEPT ![s] = [step |-> "write", version |-> saves + 1, place |-> "tmp"]]
    /\ overlapped' = (overlapped \/ \E t \in Savers : ~At(t, "idle"))
    /\ UNCHANGED <<target, before, saved, settled, undone, crashes>>

(* What writing on from what is there makes of a file. *)
Written(file, v, from, to) ==
    IF file.part = from /\ file.version \in {0, v} THEN Content(v, to, FALSE)
    ELSE Content(v, "mixed", FALSE)

Writes(s, from, to) ==
    /\ tmp' = IF saver[s].place = "tmp" THEN Written(tmp, saver[s].version, from, to) ELSE tmp
    /\ target' = IF saver[s].place = "target"
                 THEN Written(target, saver[s].version, from, to) ELSE target
    /\ UNCHANGED <<before, saves, saved, settled, undone, overlapped, crashes>>

WriteSome(s) == At(s, "write") /\ Writes(s, "empty", "half") /\ Goes(s, "finish")
WriteRest(s) == At(s, "finish") /\ Writes(s, "half", "whole") /\ Goes(s, "sync")

(* Mutated: the file is renamed before it is on the disk. *)
SyncLater(s) ==
    /\ At(s, "sync") /\ Goes(s, "rename")
    /\ UNCHANGED <<target, before, tmp, saves, saved, settled, undone, overlapped, crashes>>

Sync(s) ==
    /\ At(s, "sync") /\ Goes(s, "rename")
    /\ tmp' = IF saver[s].place = "tmp" THEN [tmp EXCEPT !.synced = TRUE] ELSE tmp
    /\ target' = IF saver[s].place = "target" THEN [target EXCEPT !.synced = TRUE] ELSE target
    /\ UNCHANGED <<before, saves, saved, settled, undone, overlapped, crashes>>

(* Whoever has the sibling open has the real file open from now on. What    *)
(* was renamed over stays on the disk until the directory gets there.       *)
Rename(s) ==
    /\ At(s, "rename") /\ tmp # NoFile
    /\ target' = tmp /\ tmp' = NoFile
    /\ before' = IF before = NoFile THEN target ELSE before
    /\ saved' = saver[s].version /\ undone' = FALSE
    /\ saver' = [t \in Savers |->
                    IF t = s THEN Idle
                    ELSE [saver[t] EXCEPT !.place = IF @ = "tmp" THEN "target" ELSE "gone"]]
    /\ UNCHANGED <<saves, settled, overlapped, crashes>>

(* The file system writes the directory, in its own time. *)
Settle ==
    /\ before # NoFile
    /\ before' = NoFile /\ settled' = target.version
    /\ UNCHANGED <<target, tmp, saver, saves, saved, undone, overlapped, crashes>>

(* A step fails, the disk is full or the sibling gone: it is removed. *)
Fail(s) ==
    /\ ~At(s, "idle")
    /\ tmp' = NoFile
    /\ saver' = [t \in Savers |->
                    IF t = s THEN Idle
                    ELSE [saver[t] EXCEPT !.place = IF @ = "tmp" THEN "gone" ELSE @]]
    /\ UNCHANGED <<target, before, saves, saved, settled, undone, overlapped, crashes>>

(* What a crash may leave of a file: anything, if it was not synced. *)
Torn(file) ==
    IF file.synced THEN {file} ELSE {[file EXCEPT !.part = torn] : torn \in {"empty", "half"}}

(* The machine stops, with or without the renames that no one synced. The   *)
(* program starts again with what it finds.                                 *)
Crash ==
    /\ crashes < MaxCrashes
    /\ crashes' = crashes + 1
    /\ saver' = [s \in Savers |-> Idle]
    /\ tmp' \in IF tmp = NoFile THEN {NoFile} ELSE Torn(tmp)
    /\ \/ target' \in Torn(target) /\ UNCHANGED undone
       \/ before # NoFile /\ target' \in Torn(before) /\ undone' = TRUE
    /\ before' = NoFile
    /\ UNCHANGED <<saves, saved, settled, overlapped>>

ConfigNext ==
    Crash \/ Settle \/ \E s \in Savers : Create(s) \/ WriteSome(s) \/ WriteRest(s) \/ Sync(s)
                               \/ Rename(s) \/ Fail(s)

ConfigSpec == ConfigInit /\ [][ConfigNext]_configVars

-----------------------------------------------------------------------------
(* "a crash or full disk mid-write never leaves a truncated config behind": *)
(* whatever fails and whenever the machine stops, the file is one version,  *)
(* all of it, as long as no two saves overlap. It is the one saved last,    *)
(* unless a crash has undone that save; then it is an earlier one, but none *)
(* from before what the directory on the disk was seen to hold.             *)
FileIsWhole ==
    /\ ConfigTypeOK
    /\ \/ overlapped
       \/ /\ target.part = "whole"
          /\ target.version \in settled .. saved
          /\ undone \/ target.version = saved
=============================================================================
