------------------------------ MODULE FrameCache ------------------------------
(***************************************************************************)
(* The decode cache of a stacking run (lumos/src/frame_store): a run over  *)
(* a set of files takes each frame from the planes a run before kept of    *)
(* it, or decodes it and keeps it.  Runs share one cache directory, the    *)
(* frames of a run are taken side by side, files are rewritten or removed  *)
(* while they are read, runs are killed at any step and files of the cache *)
(* are damaged: what is kept is published by rename and never synced.      *)
(*                                                                         *)
(* A version of a file is its FileIdentity, and with it the CacheKey: the  *)
(* decoder and its options are the same for every run.  A plane is the     *)
(* image it is of, so a digest is the plane; "channels" stands for the     *)
(* channels and the flags.  Space checks, cancels in a decode and what a   *)
(* frame's admission looks at are left out, but for their failing.         *)
(***************************************************************************)
EXTENDS Naturals, FiniteSets

CONSTANTS
    Runs,        \* runs that may be going on at once
    Sources,     \* the files, numbered in the order a run is given them
    Paths,       \* the files of each run
    LastVersion, \* bound: the versions of each file are 1 to this
    Stems,       \* names of kept frames
    Stem,        \* the name a version of a file is kept under: a hash, it may clash
    Gains,       \* flat gains
    GainOf,      \* the gain each version of a file carries, or None
    MaxStarts,   \* bound: runs started
    MaxUpsets,   \* bound: files rewritten or removed, and files of the cache damaged
    None

Versions(s) == 1..LastVersion[s]
FileVersions == UNION {{s} \X Versions(s) : s \in Sources}
Jobs == {j \in Runs \X Sources : j[2] \in Paths[j[1]]}

ASSUME SourcesAssumption ==
    /\ Sources \subseteq Nat
    /\ Paths \in [Runs -> SUBSET Sources]
    /\ LastVersion \in [Sources -> Nat \ {0}]
ASSUME KeyAssumption ==
    /\ Stem \in [FileVersions -> Stems]
    /\ GainOf \in [FileVersions -> Gains \cup {None}]
    /\ None \notin Gains

VARIABLES
    file,      \* each source: its version, and whether it is there
    \* the cache directory
    planes,    \* the planes under each stem
    commits,   \* the commit under each stem
    gainFile,  \* each gain's file
    \* a run
    phase,     \* "off", "probing", "loading", "failed", "done"
    mode,      \* "take" (FileSet::take) or "decode" (FileSet::decode)
    early,     \* FileSet::first: the frame the plan was read off, at the version read
    held,      \* SharedGains
    wrote,     \* DecodeCache::gains
    \* a frame of a run
    at,        \* where its job is
    probe,     \* Probed
    key,       \* the version its source was resolved at
    hit,       \* the commit it was resolved with
    image,     \* what was decoded or mapped of it
    \* history and bounds
    since,     \* the version of its source as the run began
    calm,      \* no file was changed or damaged since the run began
    harmed,    \* some file of the cache was damaged
    starts, upsets

dirVars == <<planes, commits, gainFile>>
runVars == <<phase, mode, early, held, wrote>>
jobVars == <<at, probe, key, hit, image>>
histVars == <<since, calm, harmed, starts, upsets>>
vars == <<file, dirVars, runVars, jobVars, histVars>>

Roles == {"channels", "samples"}
ASSUME CommitAssumption ==   \* no commit is None
    None \notin [source : Sources, version : Nat, gain : Gains \cup {None},
                 digests : [Roles -> Sources \X Nat \X Nat]]
Damaged == <<>>
Image(s, from, to) == <<s, from, to>>
Now(s) == file[s].version
Name(s, v) == Stem[<<s, v>>]
GainIn(s, v) == GainOf[<<s, v>>]

JobsOf(r) == {j \in Jobs : j[1] = r}
InFlight(j) == at[j] \in {"resolved", "decoding", "decoded", "unchanged", "gain",
                          "channels", "samples"}
Going(r) == phase[r] \in {"loading", "failed"}

NoRun(r) ==
    /\ phase' = [phase EXCEPT ![r] = "off"]
    /\ mode' = [mode EXCEPT ![r] = "take"]
    /\ at' = [j \in Jobs |-> IF j[1] = r THEN "idle" ELSE at[j]]
    /\ probe' = [j \in Jobs |-> IF j[1] = r THEN None ELSE probe[j]]
    /\ key' = [j \in Jobs |-> IF j[1] = r THEN 0 ELSE key[j]]
    /\ hit' = [j \in Jobs |-> IF j[1] = r THEN None ELSE hit[j]]
    /\ image' = [j \in Jobs |-> IF j[1] = r THEN None ELSE image[j]]
    /\ early' = [early EXCEPT ![r] = None]
    /\ held' = [held EXCEPT ![r] = {}]
    /\ wrote' = [wrote EXCEPT ![r] = {}]
    /\ since' = [j \in Jobs |-> IF j[1] = r THEN 1 ELSE since[j]]
    /\ calm' = [calm EXCEPT ![r] = TRUE]

Init ==
    /\ file = [s \in Sources |-> [version |-> 1, there |-> TRUE]]
    /\ planes = [t \in Stems |-> [role \in Roles |-> None]]
    /\ commits = [t \in Stems |-> None]
    /\ gainFile = [g \in Gains |-> "absent"]
    /\ phase = [r \in Runs |-> "off"] /\ mode = [r \in Runs |-> "take"]
    /\ early = [r \in Runs |-> None]
    /\ held = [r \in Runs |-> {}] /\ wrote = [r \in Runs |-> {}]
    /\ at = [j \in Jobs |-> "idle"] /\ probe = [j \in Jobs |-> None]
    /\ key = [j \in Jobs |-> 0] /\ hit = [j \in Jobs |-> None]
    /\ image = [j \in Jobs |-> None]
    /\ since = [j \in Jobs |-> 1] /\ calm = [r \in Runs |-> TRUE]
    /\ harmed = FALSE /\ starts = 0 /\ upsets = 0

-----------------------------------------------------------------------------
(* FileSet::new and peek *)

\* Mutant: a commit is taken for the frame's by its name alone.
CommittedByName(s, v) == commits[Name(s, v)]

\* What the cache committed for version v of s: a commit of another frame
\* under the same name is none of its own.
Committed(s, v) ==
    LET c == commits[Name(s, v)]
    IN  IF c # None /\ c.source = s /\ c.version = v THEN c ELSE None

Start(r) ==
    /\ phase[r] = "off" /\ starts < MaxStarts
    /\ phase' = [phase EXCEPT ![r] = "probing"]
    /\ \E m \in {"take", "decode"} : mode' = [mode EXCEPT ![r] = m]
    /\ since' = [j \in Jobs |-> IF j[1] = r THEN Now(j[2]) ELSE since[j]]
    /\ calm' = [calm EXCEPT ![r] = TRUE]
    /\ starts' = starts + 1
    /\ UNCHANGED <<file, dirVars, early, held, wrote, jobVars, harmed, upsets>>

\* probe: the paths in turn.
Probe(j) ==
    /\ phase[j[1]] = "probing" /\ at[j] = "idle"
    /\ \A i \in JobsOf(j[1]) : i[2] < j[2] => at[i] = "waiting"
    /\ at' = [at EXCEPT ![j] = "waiting"]
    /\ probe' = [probe EXCEPT ![j] =
                    IF file[j[2]].there
                    THEN [version |-> Now(j[2]), committed |-> Committed(j[2], Now(j[2]))]
                    ELSE None]
    /\ UNCHANGED <<file, dirVars, runVars, key, hit, image, histVars>>

\* The plan is read off the first frame the cache holds none of, and what was
\* read is what its decode begins with; off a commit when it holds them all.
Uncached(r) == {j \in JobsOf(r) : probe[j] = None \/ probe[j].committed = None}
Peek(r) ==
    /\ phase[r] = "probing"
    /\ \A j \in JobsOf(r) : at[j] = "waiting"
    /\ \/ /\ Uncached(r) = {}
          /\ phase' = [phase EXCEPT ![r] = "loading"]
          /\ UNCHANGED early
       \/ \E j \in Uncached(r) :
            /\ \A i \in Uncached(r) : j[2] <= i[2]
            /\ IF file[j[2]].there
               THEN /\ phase' = [phase EXCEPT ![r] = "loading"]
                    /\ early' = [early EXCEPT ![r] = [source |-> j[2], version |-> Now(j[2])]]
               ELSE /\ phase' = [phase EXCEPT ![r] = "failed"]
                    /\ UNCHANGED early
    /\ UNCHANGED <<file, dirVars, mode, held, wrote, jobVars, histVars>>

-----------------------------------------------------------------------------
(* FileSet::take and decode: a frame's turn *)

PeekedFor(j) == early[j[1]] # None /\ early[j[1]].source = j[2]

\* The run ends with the error of job j: no other begins.
FailJob(j) ==
    /\ at' = [at EXCEPT ![j] = "gone"]
    /\ phase' = [phase EXCEPT ![j[1]] = "failed"]
    /\ probe' = [probe EXCEPT ![j] = None]
    /\ key' = [key EXCEPT ![j] = 0]
    /\ hit' = [hit EXCEPT ![j] = None]
    /\ image' = [image EXCEPT ![j] = None]
    /\ UNCHANGED <<file, dirVars, mode, early, held, wrote, histVars>>

ResolveAt(j, version, committed) ==
    /\ at' = [at EXCEPT ![j] = "resolved"]
    /\ probe' = [probe EXCEPT ![j] = None]
    /\ key' = [key EXCEPT ![j] = version]
    /\ hit' = [hit EXCEPT ![j] = committed]
    /\ UNCHANGED <<file, dirVars, runVars, image, histVars>>

IsCurrent(j) == file[j[2]].there /\ Now(j[2]) = probe[j].version

\* The probe stands while its source reads as it did, or was read for the plan.
ProbeStands(j) == probe[j] # None /\ (PeekedFor(j) \/ IsCurrent(j))

Resolve(j) ==
    /\ phase[j[1]] = "loading" /\ at[j] = "waiting"
    /\ \/ ProbeStands(j) /\ ResolveAt(j, probe[j].version, probe[j].committed)
       \/ ~ProbeStands(j) /\ ~PeekedFor(j) /\ file[j[2]].there
            /\ ResolveAt(j, Now(j[2]), Committed(j[2], Now(j[2])))
       \/ ~ProbeStands(j) /\ (PeekedFor(j) \/ ~file[j[2]].there) /\ FailJob(j)

KeptAt(j) == planes[Name(j[2], key[j])]
RolesRead(r) == IF mode[r] = "take" THEN Roles ELSE {"channels"}
Whole(j) == \A role \in RolesRead(j[1]) : KeptAt(j)[role] = hit[j].digests[role]

\* shared_gain: of the run, or of its file when that holds the gain of its key.
GainHeld(r, g) == g = None \/ g \in held[r] \/ gainFile[g] = "whole"
Share(r, g) == held' = [held EXCEPT ![r] = IF g = None THEN @ ELSE @ \cup {g}]
Reusable(j) == hit[j] # None /\ Whole(j) /\ GainHeld(j[1], hit[j].gain)

\* KeptFrame::reuse and reuse_image
Reuse(j) ==
    /\ Going(j[1]) /\ at[j] = "resolved" /\ Reusable(j)
    /\ at' = [at EXCEPT ![j] = "done"]
    /\ image' = [image EXCEPT ![j] = KeptAt(j)["channels"]]
    /\ hit' = [hit EXCEPT ![j] = None]
    /\ Share(j[1], hit[j].gain)
    /\ UNCHANGED <<file, dirVars, phase, mode, early, wrote, probe, key, histVars>>

\* reuse takes the gain before it compares the digests, reuse_image after.
GainOnMiss(j) ==
    /\ mode[j[1]] = "take" /\ hit[j] # None /\ GainHeld(j[1], hit[j].gain)
    /\ \A role \in Roles : KeptAt(j)[role] # None

Opened(j) == IF PeekedFor(j) THEN early[j[1]].version ELSE Now(j[2])

StartDecode(j) ==
    /\ Going(j[1]) /\ at[j] = "resolved" /\ ~Reusable(j)
    /\ PeekedFor(j) \/ file[j[2]].there
    /\ at' = [at EXCEPT ![j] = "decoding"]
    /\ hit' = [hit EXCEPT ![j] = None]
    /\ image' = [image EXCEPT ![j] = Image(j[2], Opened(j), 0)]
    /\ IF GainOnMiss(j) THEN Share(j[1], hit[j].gain) ELSE UNCHANGED held
    /\ UNCHANGED <<file, dirVars, phase, mode, early, wrote, probe, key, histVars>>

\* A file rewritten in place while it is read is read in parts.
FinishDecode(j) ==
    /\ Going(j[1]) /\ at[j] = "decoding"
    /\ \E to \in image[j][2]..Now(j[2]) :
        /\ image' = [image EXCEPT ![j] = Image(j[2], image[j][2], to)]
        /\ Share(j[1], GainIn(j[2], to))
    /\ at' = [at EXCEPT ![j] = "decoded"]
    /\ UNCHANGED <<file, dirVars, phase, mode, early, wrote, probe, key, hit, histVars>>

\* CachedSource::ensure_unchanged
EnsureUnchanged(j) ==
    /\ Going(j[1]) /\ at[j] = "decoded"
    /\ \/ /\ file[j[2]].there /\ Now(j[2]) = key[j]
          /\ at' = [at EXCEPT ![j] = "unchanged"]
          /\ UNCHANGED <<file, dirVars, runVars, probe, key, hit, image, histVars>>
       \/ /\ ~file[j[2]].there \/ Now(j[2]) # key[j]
          /\ FailJob(j)

GainDue(j) == GainIn(j[2], key[j])

\* Mutant: a gain whose file is there is not written again.
KeepGainOnce(j) ==
    /\ Going(j[1]) /\ at[j] = "unchanged"
    /\ at' = [at EXCEPT ![j] = "gain"]
    /\ gainFile' = [g \in Gains |->
                       IF g = GainDue(j) /\ gainFile[g] = "absent" THEN "whole" ELSE gainFile[g]]
    /\ UNCHANGED <<file, planes, commits, runVars, probe, key, hit, image, histVars>>

\* DecodeCache::keep_gain, under its lock: once in a run, whatever file is there.
KeepGain(j) ==
    /\ Going(j[1]) /\ at[j] = "unchanged"
    /\ at' = [at EXCEPT ![j] = "gain"]
    /\ IF GainDue(j) = None \/ GainDue(j) \in wrote[j[1]]
       THEN UNCHANGED <<gainFile, wrote>>
       ELSE /\ gainFile' = [gainFile EXCEPT ![GainDue(j)] = "whole"]
            /\ wrote' = [wrote EXCEPT ![j[1]] = @ \cup {GainDue(j)}]
    /\ UNCHANGED <<file, planes, commits, phase, mode, early, held, probe, key, hit, image,
                   histVars>>

Publish(j, from, role) ==
    /\ Going(j[1]) /\ at[j] = from
    /\ at' = [at EXCEPT ![j] = role]
    /\ planes' = [planes EXCEPT ![Name(j[2], key[j])][role] = image[j]]
    /\ UNCHANGED <<file, commits, gainFile, runVars, probe, key, hit, image, histVars>>

\* Mutant: the commit is written with the first planes.
CommitWithChannels(j) ==
    /\ Going(j[1]) /\ at[j] = "gain"
    /\ at' = [at EXCEPT ![j] = "channels"]
    /\ planes' = [planes EXCEPT ![Name(j[2], key[j])]["channels"] = image[j]]
    /\ commits' = [commits EXCEPT ![Name(j[2], key[j])] =
                    [source |-> j[2], version |-> key[j], gain |-> GainDue(j),
                     digests |-> [role \in Roles |-> image[j]]]]
    /\ UNCHANGED <<file, gainFile, runVars, probe, key, hit, image, histVars>>

\* KeptFrame::keep
PublishChannels(j) == Publish(j, "gain", "channels")
PublishSamples(j) == Publish(j, "channels", "samples")

\* FrameSpill::commit, with the digests of what was written: the frame goes on
\* mapped from the handles that wrote it.
CommitOf(j) ==
    [source |-> j[2], version |-> key[j], gain |-> GainDue(j),
     digests |-> [role \in Roles |-> image[j]]]
Commit(j) ==
    /\ Going(j[1]) /\ at[j] = "samples"
    /\ at' = [at EXCEPT ![j] = "done"]
    /\ commits' = [commits EXCEPT ![Name(j[2], key[j])] = CommitOf(j)]
    /\ UNCHANGED <<file, planes, gainFile, runVars, probe, key, hit, image, histVars>>

\* A decode, an admission or a write that fails.
Fail(j) == Going(j[1]) /\ InFlight(j) /\ FailJob(j)

-----------------------------------------------------------------------------
(* FrameIntake: the end of a run; and what is done to it and beside it *)

Finish(r) ==
    /\ phase[r] = "loading" /\ \A j \in JobsOf(r) : at[j] = "done"
    /\ phase' = [phase EXCEPT ![r] = "done"]
    /\ UNCHANGED <<file, dirVars, mode, early, held, wrote, jobVars, histVars>>

Cancel(r) ==
    /\ phase[r] = "loading"
    /\ phase' = [phase EXCEPT ![r] = "failed"]
    /\ UNCHANGED <<file, dirVars, mode, early, held, wrote, jobVars, histVars>>

Close(r) ==
    /\ phase[r] = "done" \/ (phase[r] = "failed" /\ \A j \in JobsOf(r) : ~InFlight(j))
    /\ NoRun(r)
    /\ UNCHANGED <<file, dirVars, harmed, starts, upsets>>

\* The process dies between any two steps.
Kill(r) ==
    /\ phase[r] # "off"
    /\ NoRun(r)
    /\ UNCHANGED <<file, dirVars, harmed, starts, upsets>>

Upset ==
    /\ upsets < MaxUpsets /\ upsets' = upsets + 1
    /\ calm' = [r \in Runs |-> FALSE]

\* Every write is another FileIdentity.
Rewrite(s) ==
    /\ Now(s) < LastVersion[s]
    /\ file' = [file EXCEPT ![s] = [version |-> Now(s) + 1, there |-> TRUE]]
    /\ Upset
    /\ UNCHANGED <<dirVars, runVars, jobVars, since, harmed, starts>>

Remove(s) ==
    /\ file[s].there
    /\ file' = [file EXCEPT ![s].there = FALSE]
    /\ Upset
    /\ UNCHANGED <<dirVars, runVars, jobVars, since, harmed, starts>>

\* A file of the cache is found damaged: edited from outside, or left short or
\* zeroed by a power loss.  A damaged commit reads as none.
Damage ==
    /\ Upset /\ harmed' = TRUE
    /\ \/ \E t \in Stems, role \in Roles :
            /\ planes[t][role] \notin {None, Damaged}
            /\ planes' = [planes EXCEPT ![t][role] = Damaged]
            /\ UNCHANGED <<commits, gainFile>>
       \/ \E t \in Stems :
            /\ commits[t] # None
            /\ commits' = [commits EXCEPT ![t] = None]
            /\ UNCHANGED <<planes, gainFile>>
       \/ \E g \in Gains :
            /\ gainFile[g] = "whole"
            /\ gainFile' = [gainFile EXCEPT ![g] = "damaged"]
            /\ UNCHANGED <<planes, commits>>
    /\ UNCHANGED <<file, runVars, jobVars, since, starts>>

JobStep(j) ==
    \/ Probe(j) \/ Resolve(j) \/ Reuse(j) \/ StartDecode(j) \/ FinishDecode(j)
    \/ EnsureUnchanged(j) \/ KeepGain(j) \/ PublishChannels(j) \/ PublishSamples(j)
    \/ Commit(j) \/ Fail(j)

Next ==
    \/ \E r \in Runs : Start(r) \/ Peek(r) \/ Finish(r) \/ Cancel(r) \/ Close(r) \/ Kill(r)
    \/ \E j \in Jobs : JobStep(j)
    \/ \E s \in Sources : Rewrite(s) \/ Remove(s)
    \/ Damage

Spec == Init /\ [][Next]_vars

-----------------------------------------------------------------------------
(* Properties *)

\* A frame a run takes is the whole decode of one version its file has had
\* since the run began: never of an older one, of two versions read in part,
\* of another file kept under the same name, or of a damaged plane.
FramesAreDecodes ==
    \A j \in Jobs :
        at[j] = "done" =>
            \E v \in since[j]..Now(j[2]) : image[j] = Image(j[2], v, v)

\* A commit goes last: while nothing was damaged, what the commit of a frame
\* lists is there, its gain too, whichever runs were killed and wherever.
\* Of two frames under one name either may overwrite the other's planes.
Alone(s, v) ==
    \A x \in FileVersions : Stem[x] = Name(s, v) => x = <<s, v>>
CommittedIsWhole ==
    ~harmed =>
        \A s \in Sources : \A v \in Versions(s) :
            Alone(s, v) /\ Committed(s, v) # None =>
                /\ planes[Name(s, v)] = Committed(s, v).digests
                /\ Committed(s, v).gain # None => gainFile[Committed(s, v).gain] = "whole"

\* A run that ends well leaves the next one of its kind nothing to decode,
\* whatever damage it found as it began.
RunsHealTheCache ==
    \A r \in Runs :
        phase[r] = "done" /\ calm[r] =>
            \A s \in {u \in Paths[r] : Alone(u, Now(u))} :
                LET c == Committed(s, Now(s)) IN
                /\ c # None
                /\ \A role \in RolesRead(r) : planes[Name(s, Now(s))][role] = c.digests[role]
                /\ c.gain # None => gainFile[c.gain] = "whole"

=============================================================================
