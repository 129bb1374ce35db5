-------------------------- MODULE VolumeLoadProofs --------------------------
(***************************************************************************)
(* Proofs about VolumeLoad, for any number of disks of either kind and any    *)
(* number of settings, requests and deaths: what one request of the user may  *)
(* remove, and, as long as the ext engine has one disk at a time, where the   *)
(* writes of a volume go and in what state a volume is when it is written.    *)
(***************************************************************************)
EXTENDS VolumeLoad, TLAPS

\* The initial states are of their types.
LEMMA InitTypes == LoadInit => LoadTypeOK
<1> SUFFICES ASSUME LoadInit PROVE LoadTypeOK
  OBVIOUS
<1>1. /\ writable \in [Disks -> BOOLEAN] /\ forceRO \in BOOLEAN /\ noRecover \in BOOLEAN
      /\ hiber \in [Disks -> BOOLEAN] /\ rescue \in SUBSET Disks
      /\ src \in Disks \cup {None} /\ holder \in Disks \cup {None} /\ events \in Nat
  BY DEF LoadInit
<1>2. /\ override \in [Disks -> BOOLEAN \cup {None}]
      /\ \A d \in Disks \ Keyed : override[d] = None
  BY DEF LoadInit
<1>3. /\ unclean \in [Disks -> BOOLEAN] /\ badmap \in [Disks -> BOOLEAN]
      /\ ro \in [Disks -> BOOLEAN] /\ err \in [Disks -> BOOLEAN]
      /\ allowed \in [Disks -> Consents]
  BY DEF LoadInit, Consents
<1>4. /\ step \in [Disks -> Steps]
      /\ opts \in [Disks -> SUBSET {"noRecover", "removeHiberfile"}]
      /\ asked \in [Disks -> Nat] /\ removed \in [Disks -> Nat]
  BY DEF LoadInit, Steps
<1> QED BY <1>1, <1>2, <1>3, <1>4 DEF LoadTypeOK

\* A load or a volume that goes leaves the types as they are.
LEMMA ForgetTypes ==
    ASSUME LoadTypeOK, NEW d \in Disks, Forget(d)
    PROVE  /\ step' \in [Disks -> Steps] /\ ro' \in [Disks -> BOOLEAN]
           /\ err' \in [Disks -> BOOLEAN] /\ allowed' \in [Disks -> Consents]
           /\ opts' \in [Disks -> SUBSET {"noRecover", "removeHiberfile"}]
  BY DEF LoadTypeOK, Forget, Go, Steps, Consents

\* Every step keeps the types.
LEMMA NextTypes == LoadTypeOK /\ [LoadNext]_loadVars => LoadTypeOK'
<1> SUFFICES ASSUME LoadTypeOK, [LoadNext]_loadVars PROVE LoadTypeOK'
  OBVIOUS
<1> USE LoadAssumption
<1>1. ASSUME NEW d \in Disks, MakeDevice(d) PROVE LoadTypeOK'
  <2>1. Consent(d) \in Consents
    BY DEF Consent, Consents
  <2>2. ro' \in [Disks -> BOOLEAN]
    BY <1>1 DEF MakeDevice, LoadTypeOK
  <2> QED BY <1>1, <2>1, <2>2 DEF MakeDevice, LoadTypeOK, Go, Steps, settings, medium, globals, counts
<1>20. ASSUME NEW d \in Disks, ReadSerial(d) PROVE LoadTypeOK'
  BY <1>20 DEF ReadSerial, LoadTypeOK, Go, Steps, settings, medium, globals, counts
<1>21. ASSUME NEW d \in Disks, ReadChoice(d) PROVE LoadTypeOK'
  <2>1. ro' \in [Disks -> BOOLEAN]
    BY <1>21 DEF ReadChoice, LoadTypeOK
  <2> QED BY <1>21, <2>1 DEF ReadChoice, LoadTypeOK, Go, Steps, settings, medium, globals, counts
<1>2. ASSUME NEW d \in Disks, ReadBoot(d) PROVE LoadTypeOK'
  BY <1>2 DEF ReadBoot, LoadTypeOK, Go, Steps, settings, medium, globals, counts
<1>3. ASSUME NEW d \in Disks, TakeOptions(d) PROVE LoadTypeOK'
  BY <1>3 DEF TakeOptions, Mask, LoadTypeOK, Go, Steps, settings, medium, globals, counts
<1>22. ASSUME NEW d \in Disks, TakeRequest(d) PROVE LoadTypeOK'
  <2>1. opts' \in [Disks -> SUBSET {"noRecover", "removeHiberfile"}]
    BY <1>22 DEF TakeRequest, Consume, LoadTypeOK
  <2>2. rescue' \in SUBSET Disks
    BY <1>22 DEF TakeRequest, Consume, LoadTypeOK
  <2> QED BY <1>22, <2>1, <2>2 DEF TakeRequest, LoadTypeOK, Go, Steps, settings, medium, globals, counts
<1>4. ASSUME NEW d \in Disks, Mount(d) PROVE LoadTypeOK'
  <2>1. CASE MountOk(d)
    BY <1>4, <2>1 DEF Mount, MountOk, LoadTypeOK, Go, Steps, settings, medium, globals, counts
  <2>2. CASE Forget(d) /\ Quiet /\ UNCHANGED medium
    BY <1>4, <2>2, ForgetTypes DEF Mount, LoadTypeOK, settings, medium, globals, counts
  <2> QED BY <1>4, <2>1, <2>2 DEF Mount
<1>5. ASSUME NEW d \in Disks, Purge(d) PROVE LoadTypeOK'
  <2>1. /\ hiber' \in [Disks -> BOOLEAN] /\ err' \in [Disks -> BOOLEAN]
        /\ removed' \in [Disks -> Nat]
    <3>1. CASE hiber' = [hiber EXCEPT ![d] = FALSE] /\ UNCHANGED err
               /\ removed' = [removed EXCEPT ![d] = @ + 1]
      BY <3>1 DEF LoadTypeOK
    <3>2. CASE err' = [err EXCEPT ![d] = TRUE] /\ UNCHANGED <<hiber, removed>>
      BY <3>2 DEF LoadTypeOK
    <3>3. CASE UNCHANGED <<hiber, err, removed>>
      BY <3>3 DEF LoadTypeOK
    <3> QED BY <1>5, <3>1, <3>2, <3>3 DEF Purge
  <2> QED BY <1>5, <2>1 DEF Purge, LoadTypeOK, Go, Steps, settings, globals
<1>6. ASSUME NEW d \in Disks, LoadExt(d) PROVE LoadTypeOK'
  BY <1>6 DEF LoadExt, SetUp, Policy, LoadTypeOK, Go, Steps, settings, medium, globals, counts
<1>7. ASSUME NEW d \in Disks, Bind(d) PROVE LoadTypeOK'
  BY <1>7 DEF Bind, LoadTypeOK, Go, Steps, settings, medium, globals, counts
<1>8. ASSUME NEW d \in Disks, OpenExt(d) PROVE LoadTypeOK'
  <2>1. CASE Forget(d)
    BY <1>8, <2>1, ForgetTypes DEF OpenExt, LoadTypeOK, settings, medium, globals, counts
  <2>2. CASE Go(d, AfterOpen(d)) /\ UNCHANGED <<ro, opts, err, allowed>>
    BY <1>8, <2>2 DEF OpenExt, AfterOpen, LoadTypeOK, Go, Steps, settings, medium, globals, counts
  <2> QED BY <1>8, <2>1, <2>2 DEF OpenExt
<1>9. ASSUME NEW d \in Disks, Replay(d) PROVE LoadTypeOK'
  <2>1. CASE Forget(d)
    BY <1>9, <2>1, ForgetTypes DEF Replay, LoadTypeOK, settings, medium, globals, counts
  <2>2. CASE Go(d, "bitmaps") /\ UNCHANGED <<ro, opts, err, allowed>>
    BY <1>9, <2>2 DEF Replay, Forget, LoadTypeOK, Go, Steps, settings, medium, globals, counts
  <2> QED BY <1>9, <2>1, <2>2 DEF Replay
<1>10. ASSUME NEW d \in Disks, ReadBitmaps(d) PROVE LoadTypeOK'
  <2>1. CASE Forget(d)
    BY <1>10, <2>1, ForgetTypes DEF ReadBitmaps, LoadTypeOK, settings, medium, globals, counts
  <2>2. CASE Go(d, "stamp") /\ UNCHANGED <<ro, opts, err, allowed>>
    BY <1>10, <2>2 DEF ReadBitmaps, LoadTypeOK, Go, Steps, settings, medium, globals, counts
  <2> QED BY <1>10, <2>1, <2>2 DEF ReadBitmaps
<1>11. ASSUME NEW d \in Disks, Stamp(d) PROVE LoadTypeOK'
  BY <1>11 DEF Stamp, LoadTypeOK, Go, Steps, settings, medium, globals, counts
<1>12. ASSUME NEW d \in Disks, Use(d) PROVE LoadTypeOK'
  BY <1>12 DEF Use, LoadTypeOK, settings, medium, mounts, globals, counts
<1>13. ASSUME NEW d \in Disks, Unmount(d) PROVE LoadTypeOK'
  BY <1>13 DEF Unmount, LoadTypeOK, Go, Steps, settings, medium, globals, counts
<1>14. ASSUME NEW d \in Disks, Close(d) PROVE LoadTypeOK'
  BY <1>14, ForgetTypes DEF Close, LoadTypeOK, settings, medium, globals, counts
<1>15. ASSUME NEW d \in Disks, RequestRescue(d) PROVE LoadTypeOK'
  BY <1>15 DEF RequestRescue, Event, LoadTypeOK, settings, medium, mounts, globals
<1>16. ASSUME NEW d \in Disks, Elsewhere(d) PROVE LoadTypeOK'
  BY <1>16 DEF Elsewhere, Event, LoadTypeOK, settings, mounts, globals, counts
<1>17. ASSUME SetSettings PROVE LoadTypeOK'
  <2>1. /\ forceRO' \in BOOLEAN /\ noRecover' \in BOOLEAN
        /\ override' \in [Disks -> BOOLEAN \cup {None}]
        /\ \A d \in Disks \ Keyed : override'[d] = None
    BY <1>17 DEF SetSettings, LoadTypeOK
  <2>2. /\ UNCHANGED <<rescue, medium, step, ro, opts, err, globals, counts, writable>>
        /\ events' = events + 1
    BY <1>17 DEF SetSettings, Event
  <2>3. allowed' \in [Disks -> Consents]
    BY <1>17 DEF SetSettings, Chosen, LoadTypeOK, Consents
  <2> HIDE <1>17
  <2> QED BY <2>1, <2>2, <2>3 DEF LoadTypeOK, medium, globals, counts
<1>18. ASSUME Die PROVE LoadTypeOK'
  BY <1>18 DEF Die, LoadTypeOK, Consents, Steps, settings, medium, counts
<1>19. ASSUME UNCHANGED loadVars PROVE LoadTypeOK'
  BY <1>19 DEF loadVars, LoadTypeOK, settings, medium, mounts, globals, counts
<1> QED
  BY <1>1, <1>2, <1>3, <1>4, <1>5, <1>6, <1>7, <1>8, <1>9, <1>10, <1>11, <1>12,
     <1>13, <1>14, <1>15, <1>16, <1>17, <1>18, <1>19, <1>20, <1>21, <1>22 DEF LoadNext

\* Every reachable state of the loads is of its type (SharedSettings, nfsk_open_ex,
\* extfsk_open).
THEOREM LoadTypes == LoadSpec => []LoadTypeOK
  BY InitTypes, NextTypes, PTL DEF LoadSpec

(***************************************************************************)
(* Sessions.  A request is either still there, or in the hands of a mount     *)
(* that has not come to the removal, or used up.                             *)
(***************************************************************************)
InHand(d) == step[d] \in {"mount", "purge"} /\ "removeHiberfile" \in opts[d]

Due(d) == (IF d \in rescue THEN 1 ELSE 0) + (IF InHand(d) THEN 1 ELSE 0)

SessionInv == \A d \in Disks :
    /\ removed[d] + Due(d) <= asked[d]
    /\ step[d] = "purge" => "removeHiberfile" \in opts[d]
    /\ step[d] = "request" => "removeHiberfile" \notin opts[d]

\* The disks that are in the NTFS engine, and those ext2fs_open has taken.
InNtfs == {"options", "request", "mount", "purge", "ntfs", "ntfsLeft"}
Opened == {"rebind", "replay", "bitmaps", "stamp", "ext", "extLeft"}

\* The ext engine has one disk, an ext disk once it is open, and the holder
\* is set to it.
EngineInv ==
    /\ \A d \in Disks : step[d] \in InNtfs => d \notin Ext
    /\ \A d \in Disks : step[d] \in Opened => d \in Ext
    /\ \A d \in Disks : step[d] \in InExt \ {"load"} => holder = d
    /\ \A d, e \in Disks : step[d] \in InExt /\ step[e] \in InExt => d = e
    /\ \A d \in Disks : step[d] \in {"rebind", "replay", "bitmaps", "stamp", "purge"} => ~ro[d]

\* A disk that is loaded for writing was one the settings let be written, or its
\* exception came or went between two reads.
PolicyInv ==
    /\ \A d \in Disks \ Ext : step[d] \in {"boot"} \cup InNtfs /\ ~ro[d] => allowed[d] # "no"
    /\ \A d \in Disks : Reads(d) /\ Choice(d) => allowed[d] = "yes"
    /\ \A d \in Disks \ Ext : step[d] = "choice" /\ override[d] = None => allowed[d] # "no"
    /\ \A d \in Disks \ Ext : step[d] = "default" /\ override[d] # None => allowed[d] # "no"
    /\ \A d \in Ext : step[d] \in InExt \ {"load"} /\ ~ro[d] => allowed[d] # "no"

\* How far the disk of a load for writing is mended at each step.
SoundInv ==
    /\ \A d \in Disks : (hiber[d] => d \notin Ext) /\ (badmap[d] => d \in Ext)
    /\ \A d \in Disks : step[d] \in {"purge", "ntfs", "bitmaps", "stamp", "ext"} /\ ~ro[d]
                            => ~unclean[d]
    /\ \A d \in Disks : step[d] = "ntfs" /\ ~ro[d] /\ hiber[d] => err[d]
    /\ \A d \in Disks : step[d] \in {"stamp", "ext"} /\ ~ro[d] => ~badmap[d]

\* No step uses up more than one request for one removal.
LEMMA SessionNext ==
    ASSUME LoadTypeOK, SessionInv, [LoadNext]_loadVars
    PROVE  SessionInv'
<1> USE DEF SessionInv, Due, InHand,
       settings, medium, globals, counts, LoadTypeOK
<1>1. ASSUME NEW d \in Disks, MakeDevice(d) PROVE SessionInv'
  BY <1>1 DEF MakeDevice, Go
<1>20. ASSUME NEW d \in Disks, ReadSerial(d) PROVE SessionInv'
  BY <1>20 DEF ReadSerial, Go
<1>21. ASSUME NEW d \in Disks, ReadChoice(d) PROVE SessionInv'
  BY <1>21 DEF ReadChoice, Go
<1>2. ASSUME NEW d \in Disks, ReadBoot(d) PROVE SessionInv'
  BY <1>2 DEF ReadBoot, Go
<1>3. ASSUME NEW d \in Disks, TakeOptions(d) PROVE SessionInv'
  BY <1>3 DEF TakeOptions, Mask, Go
<1>22. ASSUME NEW d \in Disks, TakeRequest(d) PROVE SessionInv'
  <2>1. /\ step[d] = "request" /\ step' = [step EXCEPT ![d] = "mount"]
        /\ UNCHANGED <<asked, removed>>
    BY <1>22 DEF TakeRequest, Go
  <2>2. CASE Consume(d)
    BY <2>1, <2>2 DEF Consume
  <2>3. CASE UNCHANGED <<rescue, opts>>
    BY <2>1, <2>3
  <2> QED BY <1>22, <2>2, <2>3 DEF TakeRequest
<1>4. ASSUME NEW d \in Disks, Mount(d) PROVE SessionInv'
  BY <1>4 DEF Mount, MountOk, Forget, Go
<1>5. ASSUME NEW d \in Disks, Purge(d) PROVE SessionInv'
  BY <1>5 DEF Purge, Go
<1>6. ASSUME NEW d \in Disks, LoadExt(d) PROVE SessionInv'
  BY <1>6 DEF LoadExt, SetUp, Policy, Go
<1>7. ASSUME NEW d \in Disks, Bind(d) PROVE SessionInv'
  BY <1>7 DEF Bind, Go
<1>8. ASSUME NEW d \in Disks, OpenExt(d) PROVE SessionInv'
  BY <1>8 DEF OpenExt, AfterOpen, Forget, Go
<1>9. ASSUME NEW d \in Disks, Replay(d) PROVE SessionInv'
  BY <1>9 DEF Replay, Forget, Go
<1>10. ASSUME NEW d \in Disks, ReadBitmaps(d) PROVE SessionInv'
  BY <1>10 DEF ReadBitmaps, Forget, Go
<1>11. ASSUME NEW d \in Disks, Stamp(d) PROVE SessionInv'
  BY <1>11 DEF Stamp, Go
<1>12. ASSUME NEW d \in Disks, Use(d) PROVE SessionInv'
  BY <1>12 DEF Use, mounts
<1>13. ASSUME NEW d \in Disks, Unmount(d) PROVE SessionInv'
  BY <1>13 DEF Unmount, Go
<1>14. ASSUME NEW d \in Disks, Close(d) PROVE SessionInv'
  BY <1>14 DEF Close, Forget, Go
<1>15. ASSUME NEW d \in Disks, RequestRescue(d) PROVE SessionInv'
  BY <1>15 DEF RequestRescue, mounts
<1>16. ASSUME NEW d \in Disks, Elsewhere(d) PROVE SessionInv'
  BY <1>16 DEF Elsewhere, mounts
<1>17. ASSUME SetSettings PROVE SessionInv'
  BY <1>17 DEF SetSettings, Chosen
<1>18. ASSUME Die PROVE SessionInv'
  BY <1>18 DEF Die
<1>19. ASSUME UNCHANGED loadVars PROVE SessionInv'
  BY <1>19 DEF loadVars, mounts
<1> QED
  BY <1>1, <1>2, <1>3, <1>4, <1>5, <1>6, <1>7, <1>8, <1>9, <1>10, <1>11, <1>12,
     <1>13, <1>14, <1>15, <1>16, <1>17, <1>18, <1>19, <1>20, <1>21, <1>22 DEF LoadNext

\* The ext engine keeps to one disk if its loads do.
LEMMA EngineNext ==
    ASSUME LoadTypeOK, EngineInv, Alone, [LoadNext]_loadVars
    PROVE  EngineInv'
<1> USE LoadAssumption DEF EngineInv, InNtfs, InExt, Opened,
       settings, medium, globals, counts, LoadTypeOK
<1>1. ASSUME NEW d \in Disks, MakeDevice(d) PROVE EngineInv'
  BY <1>1 DEF MakeDevice, Go
<1>20. ASSUME NEW d \in Disks, ReadSerial(d) PROVE EngineInv'
  BY <1>20 DEF ReadSerial, Go
<1>21. ASSUME NEW d \in Disks, ReadChoice(d) PROVE EngineInv'
  BY <1>21 DEF ReadChoice, Go
<1>2. ASSUME NEW d \in Disks, ReadBoot(d) PROVE EngineInv'
  BY <1>2 DEF ReadBoot, Go
<1>3. ASSUME NEW d \in Disks, TakeOptions(d) PROVE EngineInv'
  BY <1>3 DEF TakeOptions, Mask, Go
<1>22. ASSUME NEW d \in Disks, TakeRequest(d) PROVE EngineInv'
  BY <1>22 DEF TakeRequest, Consume, Go
<1>4. ASSUME NEW d \in Disks, Mount(d) PROVE EngineInv'
  BY <1>4 DEF Mount, MountOk, Forget, Go
<1>5. ASSUME NEW d \in Disks, Purge(d) PROVE EngineInv'
  BY <1>5 DEF Purge, Go
<1>6. ASSUME NEW d \in Disks, LoadExt(d) PROVE EngineInv'
  BY <1>6 DEF LoadExt, SetUp, Policy, Go
<1>7. ASSUME NEW d \in Disks, Bind(d) PROVE EngineInv'
  BY <1>7 DEF Bind, Go
<1>8. ASSUME NEW d \in Disks, OpenExt(d) PROVE EngineInv'
  BY <1>8 DEF OpenExt, AfterOpen, Forget, Go
<1>9. ASSUME NEW d \in Disks, Replay(d) PROVE EngineInv'
  BY <1>9 DEF Replay, Forget, Go
<1>10. ASSUME NEW d \in Disks, ReadBitmaps(d) PROVE EngineInv'
  BY <1>10 DEF ReadBitmaps, Forget, Go
<1>11. ASSUME NEW d \in Disks, Stamp(d) PROVE EngineInv'
  BY <1>11 DEF Stamp, Go
<1>12. ASSUME NEW d \in Disks, Use(d) PROVE EngineInv'
  BY <1>12 DEF Use, mounts
<1>13. ASSUME NEW d \in Disks, Unmount(d) PROVE EngineInv'
  BY <1>13 DEF Unmount, Go
<1>14. ASSUME NEW d \in Disks, Close(d) PROVE EngineInv'
  BY <1>14 DEF Close, Forget, Go
<1>15. ASSUME NEW d \in Disks, RequestRescue(d) PROVE EngineInv'
  BY <1>15 DEF RequestRescue, mounts
<1>16. ASSUME NEW d \in Disks, Elsewhere(d) PROVE EngineInv'
  BY <1>16 DEF Elsewhere, mounts
<1>17. ASSUME SetSettings PROVE EngineInv'
  BY <1>17 DEF SetSettings, Chosen
<1>18. ASSUME Die PROVE EngineInv'
  BY <1>18 DEF Die
<1>19. ASSUME UNCHANGED loadVars PROVE EngineInv'
  BY <1>19 DEF loadVars, mounts
<1> QED
  BY <1>1, <1>2, <1>3, <1>4, <1>5, <1>6, <1>7, <1>8, <1>9, <1>10, <1>11, <1>12,
     <1>13, <1>14, <1>15, <1>16, <1>17, <1>18, <1>19, <1>20, <1>21, <1>22 DEF LoadNext

\* What is read of the settings is what they say.
LEMMA PolicyNext ==
    ASSUME LoadTypeOK, EngineInv, PolicyInv,
           ~SerialFaults, Keyed \cap Ext = {}, [LoadNext]_loadVars
    PROVE  PolicyInv'
<1> USE LoadAssumption DEF PolicyInv, EngineInv, Choice, Reads, Consents, InNtfs, InExt, Opened,
       settings, medium, globals, counts, LoadTypeOK
<1>1. ASSUME NEW d \in Disks, MakeDevice(d) PROVE PolicyInv'
  BY <1>1 DEF MakeDevice, Go, Consent
<1>20. ASSUME NEW d \in Disks, ReadSerial(d) PROVE PolicyInv'
  BY <1>20 DEF ReadSerial, Go
<1>21. ASSUME NEW d \in Disks, ReadChoice(d) PROVE PolicyInv'
  BY <1>21 DEF ReadChoice, Go
<1>2. ASSUME NEW d \in Disks, ReadBoot(d) PROVE PolicyInv'
  BY <1>2 DEF ReadBoot, Go
<1>3. ASSUME NEW d \in Disks, TakeOptions(d) PROVE PolicyInv'
  BY <1>3 DEF TakeOptions, Mask, Go
<1>22. ASSUME NEW d \in Disks, TakeRequest(d) PROVE PolicyInv'
  BY <1>22 DEF TakeRequest, Consume, Go
<1>4. ASSUME NEW d \in Disks, Mount(d) PROVE PolicyInv'
  BY <1>4 DEF Mount, MountOk, Forget, Go
<1>5. ASSUME NEW d \in Disks, Purge(d) PROVE PolicyInv'
  BY <1>5 DEF Purge, Go
<1>6. ASSUME NEW d \in Disks, LoadExt(d) PROVE PolicyInv'
  <2>1. d \in Ext => (ro'[d] <=> ~Choice(d))
    BY <1>6 DEF LoadExt, Policy
  <2>2. \A e \in Disks : Choice(e)' <=> Choice(e)
    BY <1>6 DEF LoadExt
  <2> QED BY <1>6, <2>1, <2>2 DEF LoadExt, SetUp, Go
<1>7. ASSUME NEW d \in Disks, Bind(d) PROVE PolicyInv'
  BY <1>7 DEF Bind, Go
<1>8. ASSUME NEW d \in Disks, OpenExt(d) PROVE PolicyInv'
  BY <1>8 DEF OpenExt, AfterOpen, Forget, Go
<1>9. ASSUME NEW d \in Disks, Replay(d) PROVE PolicyInv'
  BY <1>9 DEF Replay, Forget, Go
<1>10. ASSUME NEW d \in Disks, ReadBitmaps(d) PROVE PolicyInv'
  BY <1>10 DEF ReadBitmaps, Forget, Go
<1>11. ASSUME NEW d \in Disks, Stamp(d) PROVE PolicyInv'
  BY <1>11 DEF Stamp, Go
<1>12. ASSUME NEW d \in Disks, Use(d) PROVE PolicyInv'
  BY <1>12 DEF Use, mounts
<1>13. ASSUME NEW d \in Disks, Unmount(d) PROVE PolicyInv'
  BY <1>13 DEF Unmount, Go
<1>14. ASSUME NEW d \in Disks, Close(d) PROVE PolicyInv'
  BY <1>14 DEF Close, Forget, Go
<1>15. ASSUME NEW d \in Disks, RequestRescue(d) PROVE PolicyInv'
  BY <1>15 DEF RequestRescue, mounts
<1>16. ASSUME NEW d \in Disks, Elsewhere(d) PROVE PolicyInv'
  BY <1>16 DEF Elsewhere, mounts
<1>17. ASSUME SetSettings PROVE PolicyInv'
  BY <1>17 DEF SetSettings, Chosen, Torn
<1>18. ASSUME Die PROVE PolicyInv'
  BY <1>18 DEF Die
<1>19. ASSUME UNCHANGED loadVars PROVE PolicyInv'
  BY <1>19 DEF loadVars, mounts
<1> QED
  BY <1>1, <1>2, <1>3, <1>4, <1>5, <1>6, <1>7, <1>8, <1>9, <1>10, <1>11, <1>12,
     <1>13, <1>14, <1>15, <1>16, <1>17, <1>18, <1>19, <1>20, <1>21, <1>22 DEF LoadNext

\* A load for writing mends the disk before it mounts it.
LEMMA SoundNext ==
    ASSUME LoadTypeOK, EngineInv, SoundInv, [LoadNext]_loadVars
    PROVE  SoundInv'
<1> USE LoadAssumption DEF SoundInv, EngineInv, InNtfs, InExt, Opened,
       settings, medium, globals, counts, LoadTypeOK
<1>1. ASSUME NEW d \in Disks, MakeDevice(d) PROVE SoundInv'
  BY <1>1 DEF MakeDevice, Go
<1>20. ASSUME NEW d \in Disks, ReadSerial(d) PROVE SoundInv'
  BY <1>20 DEF ReadSerial, Go
<1>21. ASSUME NEW d \in Disks, ReadChoice(d) PROVE SoundInv'
  BY <1>21 DEF ReadChoice, Go
<1>2. ASSUME NEW d \in Disks, ReadBoot(d) PROVE SoundInv'
  BY <1>2 DEF ReadBoot, Go
<1>3. ASSUME NEW d \in Disks, TakeOptions(d) PROVE SoundInv'
  BY <1>3 DEF TakeOptions, Mask, Go
<1>22. ASSUME NEW d \in Disks, TakeRequest(d) PROVE SoundInv'
  BY <1>22 DEF TakeRequest, Consume, Go
<1>4. ASSUME NEW d \in Disks, Mount(d) PROVE SoundInv'
  BY <1>4 DEF Mount, MountOk, Forget, Go
<1>5. ASSUME NEW d \in Disks, Purge(d) PROVE SoundInv'
  BY <1>5 DEF Purge, Go
<1>6. ASSUME NEW d \in Disks, LoadExt(d) PROVE SoundInv'
  BY <1>6 DEF LoadExt, SetUp, Policy, Go
<1>7. ASSUME NEW d \in Disks, Bind(d) PROVE SoundInv'
  BY <1>7 DEF Bind, Go
<1>8. ASSUME NEW d \in Disks, OpenExt(d) PROVE SoundInv'
  BY <1>8 DEF OpenExt, AfterOpen, Forget, Go
<1>9. ASSUME NEW d \in Disks, Replay(d) PROVE SoundInv'
  BY <1>9 DEF Replay, Forget, Go
<1>10. ASSUME NEW d \in Disks, ReadBitmaps(d) PROVE SoundInv'
  BY <1>10 DEF ReadBitmaps, Forget, Go
<1>11. ASSUME NEW d \in Disks, Stamp(d) PROVE SoundInv'
  BY <1>11 DEF Stamp, Go
<1>12. ASSUME NEW d \in Disks, Use(d) PROVE SoundInv'
  BY <1>12 DEF Use, mounts
<1>13. ASSUME NEW d \in Disks, Unmount(d) PROVE SoundInv'
  BY <1>13 DEF Unmount, Go
<1>14. ASSUME NEW d \in Disks, Close(d) PROVE SoundInv'
  BY <1>14 DEF Close, Forget, Go
<1>15. ASSUME NEW d \in Disks, RequestRescue(d) PROVE SoundInv'
  BY <1>15 DEF RequestRescue, mounts
<1>16. ASSUME NEW d \in Disks, Elsewhere(d) PROVE SoundInv'
  BY <1>16 DEF Elsewhere, mounts
<1>17. ASSUME SetSettings PROVE SoundInv'
  BY <1>17 DEF SetSettings, Chosen
<1>18. ASSUME Die PROVE SoundInv'
  BY <1>18 DEF Die
<1>19. ASSUME UNCHANGED loadVars PROVE SoundInv'
  BY <1>19 DEF loadVars, mounts
<1> QED
  BY <1>1, <1>2, <1>3, <1>4, <1>5, <1>6, <1>7, <1>8, <1>9, <1>10, <1>11, <1>12,
     <1>13, <1>14, <1>15, <1>16, <1>17, <1>18, <1>19, <1>20, <1>21, <1>22 DEF LoadNext

\* Every write is to the disk of the volume.
LEMMA OwnNext ==
    ASSUME LoadTypeOK, EngineInv, OwnDisk, [LoadNext]_loadVars
    PROVE  OwnDisk'
<1> USE LoadAssumption DEF OwnDisk, Quiet, NoWrite, Writes, EngineInv, InNtfs, InExt, Opened, MayWrite, Target,
       settings, medium, globals, counts, LoadTypeOK
<1>1. ASSUME NEW d \in Disks, MakeDevice(d) PROVE OwnDisk'
  BY <1>1 DEF MakeDevice, Go
<1>20. ASSUME NEW d \in Disks, ReadSerial(d) PROVE OwnDisk'
  BY <1>20 DEF ReadSerial, Go
<1>21. ASSUME NEW d \in Disks, ReadChoice(d) PROVE OwnDisk'
  BY <1>21 DEF ReadChoice, Go
<1>2. ASSUME NEW d \in Disks, ReadBoot(d) PROVE OwnDisk'
  BY <1>2 DEF ReadBoot, Go
<1>3. ASSUME NEW d \in Disks, TakeOptions(d) PROVE OwnDisk'
  BY <1>3 DEF TakeOptions, Mask, Go
<1>22. ASSUME NEW d \in Disks, TakeRequest(d) PROVE OwnDisk'
  BY <1>22 DEF TakeRequest, Consume, Go
<1>4. ASSUME NEW d \in Disks, Mount(d) PROVE OwnDisk'
  BY <1>4 DEF Mount, MountOk, Forget, Go
<1>5. ASSUME NEW d \in Disks, Purge(d) PROVE OwnDisk'
  BY <1>5 DEF Purge, Go
<1>6. ASSUME NEW d \in Disks, LoadExt(d) PROVE OwnDisk'
  BY <1>6 DEF LoadExt, SetUp, Policy, Go
<1>7. ASSUME NEW d \in Disks, Bind(d) PROVE OwnDisk'
  BY <1>7 DEF Bind, Go
<1>8. ASSUME NEW d \in Disks, OpenExt(d) PROVE OwnDisk'
  BY <1>8 DEF OpenExt, AfterOpen, Forget, Go
<1>9. ASSUME NEW d \in Disks, Replay(d) PROVE OwnDisk'
  BY <1>9 DEF Replay, Forget, Go
<1>10. ASSUME NEW d \in Disks, ReadBitmaps(d) PROVE OwnDisk'
  BY <1>10 DEF ReadBitmaps, Forget, Go
<1>11. ASSUME NEW d \in Disks, Stamp(d) PROVE OwnDisk'
  BY <1>11 DEF Stamp, Go
<1>12. ASSUME NEW d \in Disks, Use(d) PROVE OwnDisk'
  BY <1>12 DEF Use, mounts
<1>13. ASSUME NEW d \in Disks, Unmount(d) PROVE OwnDisk'
  BY <1>13 DEF Unmount, Go
<1>14. ASSUME NEW d \in Disks, Close(d) PROVE OwnDisk'
  BY <1>14 DEF Close, Forget, Go
<1>15. ASSUME NEW d \in Disks, RequestRescue(d) PROVE OwnDisk'
  BY <1>15 DEF RequestRescue, mounts
<1>16. ASSUME NEW d \in Disks, Elsewhere(d) PROVE OwnDisk'
  BY <1>16 DEF Elsewhere, mounts
<1>17. ASSUME SetSettings PROVE OwnDisk'
  BY <1>17 DEF SetSettings, Chosen
<1>18. ASSUME Die PROVE OwnDisk'
  BY <1>18 DEF Die
<1>19. ASSUME UNCHANGED loadVars PROVE OwnDisk'
  BY <1>19 DEF loadVars, mounts
<1> QED
  BY <1>1, <1>2, <1>3, <1>4, <1>5, <1>6, <1>7, <1>8, <1>9, <1>10, <1>11, <1>12,
     <1>13, <1>14, <1>15, <1>16, <1>17, <1>18, <1>19, <1>20, <1>21, <1>22 DEF LoadNext

\* Every write is to a disk that may be written.
LEMMA ChoiceNext ==
    ASSUME LoadTypeOK, EngineInv, PolicyInv, ReadOnlyKept, [LoadNext]_loadVars
    PROVE  ReadOnlyKept'
<1> USE LoadAssumption DEF ReadOnlyKept, Quiet, NoWrite, Writes, PolicyInv, EngineInv, InNtfs, InExt, Opened, MayWrite, Target,
       settings, medium, globals, counts, LoadTypeOK
<1>1. ASSUME NEW d \in Disks, MakeDevice(d) PROVE ReadOnlyKept'
  BY <1>1 DEF MakeDevice, Go
<1>20. ASSUME NEW d \in Disks, ReadSerial(d) PROVE ReadOnlyKept'
  BY <1>20 DEF ReadSerial, Go
<1>21. ASSUME NEW d \in Disks, ReadChoice(d) PROVE ReadOnlyKept'
  BY <1>21 DEF ReadChoice, Go
<1>2. ASSUME NEW d \in Disks, ReadBoot(d) PROVE ReadOnlyKept'
  BY <1>2 DEF ReadBoot, Go
<1>3. ASSUME NEW d \in Disks, TakeOptions(d) PROVE ReadOnlyKept'
  BY <1>3 DEF TakeOptions, Mask, Go
<1>22. ASSUME NEW d \in Disks, TakeRequest(d) PROVE ReadOnlyKept'
  BY <1>22 DEF TakeRequest, Consume, Go
<1>4. ASSUME NEW d \in Disks, Mount(d) PROVE ReadOnlyKept'
  BY <1>4 DEF Mount, MountOk, Forget, Go
<1>5. ASSUME NEW d \in Disks, Purge(d) PROVE ReadOnlyKept'
  BY <1>5 DEF Purge, Go
<1>6. ASSUME NEW d \in Disks, LoadExt(d) PROVE ReadOnlyKept'
  BY <1>6 DEF LoadExt, SetUp, Policy, Go
<1>7. ASSUME NEW d \in Disks, Bind(d) PROVE ReadOnlyKept'
  BY <1>7 DEF Bind, Go
<1>8. ASSUME NEW d \in Disks, OpenExt(d) PROVE ReadOnlyKept'
  BY <1>8 DEF OpenExt, AfterOpen, Forget, Go
<1>9. ASSUME NEW d \in Disks, Replay(d) PROVE ReadOnlyKept'
  BY <1>9 DEF Replay, Forget, Go
<1>10. ASSUME NEW d \in Disks, ReadBitmaps(d) PROVE ReadOnlyKept'
  BY <1>10 DEF ReadBitmaps, Forget, Go
<1>11. ASSUME NEW d \in Disks, Stamp(d) PROVE ReadOnlyKept'
  BY <1>11 DEF Stamp, Go
<1>12. ASSUME NEW d \in Disks, Use(d) PROVE ReadOnlyKept'
  BY <1>12 DEF Use, mounts
<1>13. ASSUME NEW d \in Disks, Unmount(d) PROVE ReadOnlyKept'
  BY <1>13 DEF Unmount, Go
<1>14. ASSUME NEW d \in Disks, Close(d) PROVE ReadOnlyKept'
  BY <1>14 DEF Close, Forget, Go
<1>15. ASSUME NEW d \in Disks, RequestRescue(d) PROVE ReadOnlyKept'
  BY <1>15 DEF RequestRescue, mounts
<1>16. ASSUME NEW d \in Disks, Elsewhere(d) PROVE ReadOnlyKept'
  BY <1>16 DEF Elsewhere, mounts
<1>17. ASSUME SetSettings PROVE ReadOnlyKept'
  BY <1>17 DEF SetSettings, Chosen
<1>18. ASSUME Die PROVE ReadOnlyKept'
  BY <1>18 DEF Die
<1>19. ASSUME UNCHANGED loadVars PROVE ReadOnlyKept'
  BY <1>19 DEF loadVars, mounts
<1> QED
  BY <1>1, <1>2, <1>3, <1>4, <1>5, <1>6, <1>7, <1>8, <1>9, <1>10, <1>11, <1>12,
     <1>13, <1>14, <1>15, <1>16, <1>17, <1>18, <1>19, <1>20, <1>21, <1>22 DEF LoadNext

(***************************************************************************)
(* The theorems.                                                            *)
(***************************************************************************)
\* One request removes at most one hibernated session, for all disks, settings
\* and faults (OneSessionPerRequest: consumeHiberfileRescue, nfsk_open_ex).
THEOREM SessionsKept == LoadSpec => []OneSessionPerRequest
<1>1. LoadInit => SessionInv
  <2> SUFFICES ASSUME LoadInit, NEW d \in Disks
               PROVE  removed[d] + Due(d) <= asked[d] /\ step[d] = "idle"
    BY DEF SessionInv
  <2>1. removed[d] = 0 /\ asked[d] = 0 /\ step[d] = "idle" /\ d \notin rescue
    BY DEF LoadInit
  <2> QED BY <2>1 DEF Due, InHand
<1>2. LoadTypeOK /\ SessionInv /\ [LoadNext]_loadVars => SessionInv'
  BY SessionNext
<1>3. LoadTypeOK /\ SessionInv => OneSessionPerRequest
  <2> SUFFICES ASSUME LoadTypeOK, SessionInv, NEW d \in Disks
               PROVE  removed[d] <= asked[d]
    BY DEF OneSessionPerRequest
  <2>1. Due(d) \in Nat
    BY DEF Due
  <2> QED BY <2>1 DEF LoadTypeOK, SessionInv
<1> QED
  BY LoadTypes, <1>1, <1>2, <1>3, PTL DEF LoadSpec

\* With one ext disk at a time a volume mounted for writing is sound: journal
\* replayed, bitmaps good, no session that the mount has not named
\* (SoundWhenWritten: nfsk_open_ex, extfsk_open).
THEOREM MountedSound == ASSUME Alone PROVE LoadSpec => []SoundWhenWritten
<1>1. LoadInit => EngineInv /\ SoundInv
  BY LoadAssumption DEF LoadInit, EngineInv, SoundInv, InNtfs, InExt, Opened
<1>2. LoadTypeOK /\ EngineInv /\ SoundInv /\ [LoadNext]_loadVars => EngineInv' /\ SoundInv'
  BY Alone, EngineNext, SoundNext
<1>3. LoadTypeOK /\ EngineInv /\ SoundInv => SoundWhenWritten
  BY DEF LoadTypeOK, EngineInv, SoundInv, SoundWhenWritten, InNtfs, Opened
<1> QED
  BY LoadTypes, <1>1, <1>2, <1>3, PTL DEF LoadSpec

\* With one ext disk at a time what a volume writes lands on its own disk
\* (OwnDisk: BlockIOHolder, g_io_channel_src).
THEOREM DisksApart == ASSUME Alone PROVE LoadSpec => []OwnDisk
<1>1. LoadInit => EngineInv /\ OwnDisk
  BY LoadAssumption DEF LoadInit, EngineInv, OwnDisk, NoWrite, InNtfs, InExt, Opened
<1>2. LoadTypeOK /\ EngineInv /\ OwnDisk /\ [LoadNext]_loadVars => EngineInv' /\ OwnDisk'
  BY Alone, EngineNext, OwnNext
<1> QED
  BY LoadTypes, <1>1, <1>2, PTL DEF LoadSpec

\* If also the serial number can be read and no choice is kept for ext disks, no
\* disk is written that the settings kept read-only through all the reads of its
\* load, whatever else is changed meanwhile and whenever, but for an exception of
\* that disk which is given or taken away between two of its reads (ReadOnlyKept:
\* NTFSBlockDevice.init, shouldMountReadOnly, EXTFileSystem.loadResource).
THEOREM ChoicesKept ==
    ASSUME Alone, ~SerialFaults, Keyed \cap Ext = {}
    PROVE  LoadSpec => []ReadOnlyKept
<1>1. LoadInit => EngineInv /\ PolicyInv /\ ReadOnlyKept
  BY LoadAssumption DEF LoadInit, EngineInv, PolicyInv, ReadOnlyKept, NoWrite, InNtfs,
     InExt, Opened, Reads
<1>2. LoadTypeOK /\ EngineInv /\ PolicyInv /\ ReadOnlyKept /\ [LoadNext]_loadVars
        => EngineInv' /\ PolicyInv' /\ ReadOnlyKept'
  BY Alone, EngineNext, PolicyNext, ChoiceNext
<1> QED
  BY LoadTypes, <1>1, <1>2, PTL DEF LoadSpec
=============================================================================
