-------------------------- MODULE ConfigFileProofs --------------------------
(***************************************************************************)
(* Whatever fails and whenever the machine stops, the configuration file   *)
(* is whole, and the one saved last or what a crash put in its place: for  *)
(* any number of savers, saves and crashes.                                *)
(***************************************************************************)
EXTENDS ConfigFile, TLAPS

(* While no two saves have overlapped, at most one saver is at work, *)
OneAtATime == \A s, t \in Savers : s = t \/ At(s, "idle") \/ At(t, "idle")

(* an idle one has no file open, and one at work has the sibling open, with *)
(* what its step implies in it,                                             *)
HasWritten(s) ==
    /\ At(s, "idle") => saver[s] = Idle
    /\ ~At(s, "idle") => saver[s].place = "tmp" /\ saver[s].version \in saved .. saves
    /\ At(s, "write") => tmp = Content(0, "empty", FALSE)
    /\ At(s, "finish") => tmp = Content(saver[s].version, "half", FALSE)
    /\ At(s, "sync") => tmp = Content(saver[s].version, "whole", FALSE)
    /\ At(s, "rename") => tmp = Content(saver[s].version, "whole", TRUE)

(* and what was renamed over the configuration file was on the disk, as was *)
(* what it replaced.                                                        *)
Kept ==
    /\ settled <= saved /\ saved <= saves
    /\ target.part = "whole" /\ target.synced /\ target.version \in settled .. saved
    /\ ~undone => target.version = saved
    /\ before # NoFile =>
          before.part = "whole" /\ before.synced /\ before.version \in settled .. saved

IInv ==
    /\ ConfigTypeOK
    /\ ~overlapped => OneAtATime /\ Kept /\ \A s \in Savers : HasWritten(s)

-----------------------------------------------------------------------------
(* What a save makes of a file is a content, from whichever it starts. *)
LEMMA WrittenType ==
    ASSUME NEW file \in Contents, NEW v \in Versions,
           NEW from, NEW to \in {"none", "empty", "half", "whole", "mixed"}
    PROVE  Written(file, v, from, to) \in Contents
  BY DEF Written, Content, Contents

(* The types hold initially and survive every step. *)
LEMMA TypesInit == ConfigInit => ConfigTypeOK
  <1> SUFFICES ASSUME ConfigInit PROVE ConfigTypeOK
    OBVIOUS
  <1> USE DEF ConfigInit
  <1>1. /\ target \in Contents /\ before \in Contents /\ tmp \in Contents
        /\ saves \in Versions /\ saved \in Versions /\ settled \in Versions
    BY ConfigAssumption DEF Content, NoFile, Contents, Versions
  <1>2. Idle \in [step : {"idle", "write", "finish", "sync", "rename"},
                 version : Versions, place : {"tmp", "target", "gone"}]
    BY ConfigAssumption DEF Idle, Versions
  <1>3. crashes \in 0 .. MaxCrashes
    BY ConfigAssumption
  <1>4. overlapped \in BOOLEAN /\ undone \in BOOLEAN
    OBVIOUS
  <1> QED
    BY <1>1, <1>2, <1>3, <1>4 DEF ConfigTypeOK

LEMMA TypesNext == ConfigTypeOK /\ [ConfigNext]_configVars => ConfigTypeOK'
  <1> SUFFICES ASSUME ConfigTypeOK, [ConfigNext]_configVars PROVE ConfigTypeOK'
    OBVIOUS
  <1> USE DEF ConfigTypeOK
  <1>1. CASE Crash
    <2>1. \A file \in Contents : Torn(file) \subseteq Contents
      BY DEF Torn, Contents
    <2>2. NoFile \in Contents
      BY ConfigAssumption DEF NoFile, Content, Contents, Versions
    <2>3. tmp' \in Contents /\ target' \in Contents /\ before' \in Contents /\ undone' \in BOOLEAN
      BY <1>1, <2>1, <2>2 DEF Crash
    <2>4. crashes' \in 0 .. MaxCrashes
      BY <1>1, ConfigAssumption DEF Crash
    <2> QED
      BY <1>1, <2>3, <2>4, ConfigAssumption DEF Crash, Idle, Versions
  <1>2. ASSUME NEW s \in Savers, Create(s) PROVE ConfigTypeOK'
    BY <1>2, ConfigAssumption DEF Create, Content, Contents, Versions
  <1>3. ASSUME NEW s \in Savers, NEW from, NEW to \in {"half", "whole"}, Writes(s, from, to)
        PROVE  tmp' \in Contents /\ target' \in Contents
    <2> saver[s].version \in Versions
      OBVIOUS
    <2> QED
      BY <1>3, WrittenType DEF Writes
  <1>4. ASSUME NEW s \in Savers, WriteSome(s) PROVE ConfigTypeOK'
    BY <1>3, <1>4 DEF WriteSome, Writes, Goes
  <1>5. ASSUME NEW s \in Savers, WriteRest(s) PROVE ConfigTypeOK'
    BY <1>3, <1>5 DEF WriteRest, Writes, Goes
  <1>6. ASSUME NEW s \in Savers, Sync(s) PROVE ConfigTypeOK'
    BY <1>6 DEF Sync, Goes, Contents
  <1>7. ASSUME NEW s \in Savers, Rename(s) PROVE ConfigTypeOK'
    <2>1. NoFile \in Contents
      BY ConfigAssumption DEF NoFile, Content, Contents, Versions
    <2>2. target' \in Contents /\ tmp' \in Contents /\ before' \in Contents
      BY <1>7, <2>1 DEF Rename
    <2>3. saved' \in Versions /\ undone' \in BOOLEAN
      BY <1>7 DEF Rename
    <2>4. saver' \in [Savers -> [step : {"idle", "write", "finish", "sync", "rename"},
                                version : Versions, place : {"tmp", "target", "gone"}]]
      BY <1>7, ConfigAssumption DEF Rename, Idle, Versions
    <2> QED
      BY <1>7, <2>2, <2>3, <2>4 DEF Rename
  <1>8. ASSUME NEW s \in Savers, Fail(s) PROVE ConfigTypeOK'
    BY <1>8, ConfigAssumption DEF Fail, Idle, NoFile, Content, Contents, Versions
  <1>9. CASE UNCHANGED configVars
    BY <1>9 DEF configVars
  <1>10. CASE Settle
    BY <1>10, ConfigAssumption DEF Settle, NoFile, Content, Contents, Versions
  <1> QED
    BY <1>10, <1>1, <1>2, <1>4, <1>5, <1>6, <1>7, <1>8, <1>9 DEF ConfigNext

-----------------------------------------------------------------------------
(* As long as no two saves overlapped, the file is one version and whole,   *)
(* the one saved last unless a crash undid that save (Config::save, whose   *)
(* rename no one syncs).                                                    *)
THEOREM FileStaysWhole == ConfigSpec => []FileIsWhole
  <1>1. ConfigInit => IInv
    <2> SUFFICES ASSUME ConfigInit PROVE IInv
      OBVIOUS
    <2>1. \A s \in Savers : saver[s] = Idle /\ saver[s].step = "idle"
      BY DEF ConfigInit, Idle
    <2>2. OneAtATime /\ \A s \in Savers : HasWritten(s)
      BY <2>1 DEF OneAtATime, HasWritten, At
    <2> QED
      BY TypesInit, <2>2 DEF ConfigInit, IInv, Kept, Content
  <1>2. IInv /\ [ConfigNext]_configVars => IInv'
    <2> SUFFICES ASSUME IInv, [ConfigNext]_configVars, ~overlapped'
                 PROVE  OneAtATime' /\ Kept' /\ \A s \in Savers : HasWritten(s)'
      BY TypesNext DEF IInv
    <2>0. ConfigTypeOK
      BY DEF IInv
    <2>1. ~overlapped
      BY DEF ConfigNext, Crash, Create, WriteSome, WriteRest, Writes, Sync, Rename, Settle, Fail,
          configVars
    <2>2. OneAtATime /\ Kept /\ \A s \in Savers : HasWritten(s)
      BY <2>1 DEF IInv
    <2>v. /\ saves \in Nat /\ saved \in Nat /\ settled \in Nat
          /\ saver \in [Savers -> [step : {"idle", "write", "finish", "sync", "rename"},
                                   version : Nat, place : {"tmp", "target", "gone"}]]
          /\ \A s \in Savers : saver[s].version \in Nat
      BY <2>0, ConfigAssumption DEF ConfigTypeOK, Versions
    <2>3. \A s \in Savers : saver[s].step \in {"idle", "write", "finish", "sync", "rename"}
      BY <2>0 DEF ConfigTypeOK
    \* In a step of s, the others are idle, stay so, and have no file open.
    <2>4. ASSUME NEW s \in Savers, ~At(s, "idle"),
                 saver'[s].step \in {"idle", "write", "finish", "sync", "rename"},
                 HasWritten(s)', \A t \in Savers \ {s} : saver'[t] = Idle, Kept'
          PROVE  OneAtATime' /\ Kept' /\ \A t \in Savers : HasWritten(t)'
      <3>1. \A t \in Savers \ {s} : saver'[t].step = "idle"
        BY <2>4 DEF Idle
      <3>2. OneAtATime'
        BY <3>1 DEF OneAtATime, At
      <3>3. ASSUME NEW t \in Savers \ {s} PROVE HasWritten(t)'
        BY <2>4, <3>1 DEF HasWritten, At
      <3> QED
        BY <2>4, <3>2, <3>3
    <2>5. ASSUME NEW s \in Savers, ~At(s, "idle")
          PROVE  \A t \in Savers \ {s} : saver[t] = Idle
      BY <2>2, <2>5 DEF OneAtATime, HasWritten
    <2>6. CASE Crash
      <3>1. \A s \in Savers : saver'[s] = Idle /\ saver'[s].step = "idle"
        BY <2>6 DEF Crash, Idle
      <3>2. OneAtATime' /\ \A s \in Savers : HasWritten(s)'
        BY <3>1 DEF OneAtATime, HasWritten, At
      <3>3. Torn(target) = {target} /\ (before # NoFile => Torn(before) = {before})
        BY <2>2 DEF Kept, Torn
      <3>4. Kept'
        BY <2>2, <2>6, <3>3 DEF Crash, Kept
      <3> QED
        BY <3>2, <3>4
    <2>7. ASSUME NEW s \in Savers, Create(s)
          PROVE  OneAtATime' /\ Kept' /\ \A t \in Savers : HasWritten(t)'
      <3>1. \A t \in Savers : At(t, "idle") /\ saver[t] = Idle
        BY <2>2, <2>7 DEF Create, HasWritten
      <3>2. saver' = [saver EXCEPT ![s] = [step |-> "write", version |-> saves + 1,
                                           place |-> "tmp"]]
        BY <2>7 DEF Create
      <3>3. \A t \in Savers \ {s} : saver'[t] = Idle /\ saver'[t].step = "idle"
        BY <3>1, <3>2 DEF Idle
      <3>4. /\ saver'[s].step = "write" /\ saver'[s].place = "tmp"
            /\ saver'[s].version = saves + 1
        BY <2>v, <3>2
      <3>5. Kept'
        BY <2>2, <2>7, <2>v DEF Create, Kept
      <3>6. HasWritten(s)'
        BY <2>2, <2>7, <2>v, <3>4 DEF Create, Kept, HasWritten, At
      <3>7. \A t \in Savers \ {s} : HasWritten(t)'
        BY <3>3 DEF HasWritten, At
      <3>8. OneAtATime'
        BY <3>3 DEF OneAtATime, At
      <3> QED
        BY <3>5, <3>6, <3>7, <3>8
    <2>8. ASSUME NEW s \in Savers, WriteSome(s)
          PROVE  OneAtATime' /\ Kept' /\ \A t \in Savers : HasWritten(t)'
      <3>1. saver[s].place = "tmp" /\ tmp = Content(0, "empty", FALSE)
        BY <2>2, <2>8 DEF WriteSome, At, HasWritten
      <3>2. tmp' = Content(saver[s].version, "half", FALSE) /\ target' = target /\ saved' = saved
        BY <2>8, <3>1 DEF WriteSome, Writes, Written, Content
      <3>4. UNCHANGED <<before, saves, settled, undone>>
        BY <2>8 DEF WriteSome, Writes
      <3>5. Kept'
        BY <2>2, <3>2, <3>4 DEF Kept
      <3>3. saver' = [saver EXCEPT ![s].step = "finish"]
        BY <2>8 DEF WriteSome, Goes
      <3>6. ~At(s, "idle")
        BY <2>8 DEF WriteSome, At
      <3>7. /\ saver'[s].step = "finish" /\ saver'[s].place = "tmp"
            /\ saver'[s].version = saver[s].version
        BY <2>v, <3>1, <3>3
      <3>8. HasWritten(s)'
        BY <2>2, <3>2, <3>4, <3>6, <3>7 DEF HasWritten, At
      <3>9. \A t \in Savers \ {s} : saver'[t] = Idle
        BY <2>5, <3>3, <3>6
      <3> QED
        BY <2>4, <3>5, <3>6, <3>7, <3>8, <3>9
    <2>9. ASSUME NEW s \in Savers, WriteRest(s)
          PROVE  OneAtATime' /\ Kept' /\ \A t \in Savers : HasWritten(t)'
      <3>1. saver[s].place = "tmp" /\ tmp = Content(saver[s].version, "half", FALSE)
        BY <2>2, <2>9 DEF WriteRest, At, HasWritten
      <3>2. tmp' = Content(saver[s].version, "whole", FALSE) /\ target' = target /\ saved' = saved
        BY <2>9, <3>1 DEF WriteRest, Writes, Written, Content
      <3>4. UNCHANGED <<before, saves, settled, undone>>
        BY <2>9 DEF WriteRest, Writes
      <3>5. Kept'
        BY <2>2, <3>2, <3>4 DEF Kept
      <3>3. saver' = [saver EXCEPT ![s].step = "sync"]
        BY <2>9 DEF WriteRest, Goes
      <3>6. ~At(s, "idle")
        BY <2>9 DEF WriteRest, At
      <3>7. /\ saver'[s].step = "sync" /\ saver'[s].place = "tmp"
            /\ saver'[s].version = saver[s].version
        BY <2>v, <3>1, <3>3
      <3>8. HasWritten(s)'
        BY <2>2, <3>2, <3>4, <3>6, <3>7 DEF HasWritten, At
      <3>9. \A t \in Savers \ {s} : saver'[t] = Idle
        BY <2>5, <3>3, <3>6
      <3> QED
        BY <2>4, <3>5, <3>6, <3>7, <3>8, <3>9
    <2>10. ASSUME NEW s \in Savers, Sync(s)
           PROVE  OneAtATime' /\ Kept' /\ \A t \in Savers : HasWritten(t)'
      <3>1. saver[s].place = "tmp" /\ tmp = Content(saver[s].version, "whole", FALSE)
        BY <2>2, <2>10 DEF Sync, At, HasWritten
      <3>2. tmp' = Content(saver[s].version, "whole", TRUE) /\ target' = target /\ saved' = saved
        BY <2>10, <3>1 DEF Sync, Content
      <3>4. UNCHANGED <<before, saves, settled, undone>>
        BY <2>10 DEF Sync
      <3>5. Kept'
        BY <2>2, <3>2, <3>4 DEF Kept
      <3>3. saver' = [saver EXCEPT ![s].step = "rename"]
        BY <2>10 DEF Sync, Goes
      <3>6. ~At(s, "idle")
        BY <2>10 DEF Sync, At
      <3>7. /\ saver'[s].step = "rename" /\ saver'[s].place = "tmp"
            /\ saver'[s].version = saver[s].version
        BY <2>v, <3>1, <3>3
      <3>8. HasWritten(s)'
        BY <2>2, <3>2, <3>4, <3>6, <3>7 DEF HasWritten, At
      <3>9. \A t \in Savers \ {s} : saver'[t] = Idle
        BY <2>5, <3>3, <3>6
      <3> QED
        BY <2>4, <3>5, <3>6, <3>7, <3>8, <3>9
    <2>11. ASSUME NEW s \in Savers, Rename(s)
           PROVE  OneAtATime' /\ Kept' /\ \A t \in Savers : HasWritten(t)'
      <3>1. tmp = Content(saver[s].version, "whole", TRUE)
        BY <2>2, <2>11 DEF Rename, At, HasWritten
      <3>2. Kept'
        <4>1. saver[s].version \in saved .. saves
          BY <2>2, <2>11 DEF Rename, At, HasWritten
        <4>2. /\ target' = Content(saver[s].version, "whole", TRUE) /\ saved' = saver[s].version
              /\ before' = (IF before = NoFile THEN target ELSE before) /\ ~undone'
              /\ UNCHANGED <<saves, settled>>
          BY <2>11, <3>1 DEF Rename
        <4> QED
          BY <2>2, <2>v, <4>1, <4>2 DEF Kept, Content
      <3>3. \A t \in Savers : saver'[t] = Idle
        BY <2>5, <2>11 DEF Rename, At, Idle
      <3> QED
        BY <2>4, <2>11, <3>2, <3>3 DEF Rename, At, HasWritten, Idle
    <2>12. ASSUME NEW s \in Savers, Fail(s)
           PROVE  OneAtATime' /\ Kept' /\ \A t \in Savers : HasWritten(t)'
      <3>1. \A t \in Savers : saver'[t] = Idle
        BY <2>5, <2>12 DEF Fail, At, Idle
      <3> QED
        BY <2>2, <2>4, <2>12, <3>1 DEF Fail, At, HasWritten, Idle, Kept
    <2>13. CASE UNCHANGED configVars
      BY <2>2, <2>13 DEF configVars, Kept, OneAtATime, HasWritten, At
    <2>14. CASE Settle
      <3>1. /\ before' = NoFile /\ settled' = target.version
            /\ UNCHANGED <<target, tmp, saver, saves, saved, undone>>
        BY <2>14 DEF Settle
      <3>2. target.version \in Nat
        BY <2>0, ConfigAssumption DEF ConfigTypeOK, Contents, Versions
      <3>3. Kept'
        BY <2>2, <2>v, <3>1, <3>2 DEF Kept
      <3> QED
        BY <2>2, <3>1, <3>3 DEF OneAtATime, HasWritten, At
    <2> QED
      BY <2>14, <2>6, <2>7, <2>8, <2>9, <2>10, <2>11, <2>12, <2>13 DEF ConfigNext
  <1>3. IInv => FileIsWhole
    BY DEF IInv, Kept, FileIsWhole, Content
  <1> QED
    BY <1>1, <1>2, <1>3, PTL DEF ConfigSpec
=============================================================================
