--------------------------- MODULE FrameCache_proofs ---------------------------
(***************************************************************************)
(* A frame a run takes is the whole decode of one version its file has had *)
(* since the run began: for any runs, files, versions and names, however   *)
(* many of the names clash and whatever is killed, rewritten or damaged.   *)
(* What it needs of the disk is only that a commit is as it was written:   *)
(* nothing is asked of the planes, whose digests a reuse compares.  While  *)
(* nothing was damaged what a commit lists is there; and a run that ends   *)
(* well leaves its frames so, whatever damage it began with.               *)
(***************************************************************************)
EXTENDS FrameCache, TLAPS

-----------------------------------------------------------------------------
(* The inductive invariant *)

\* The functions are over what they are of, the files' versions what they may be.
TypeOK ==
    /\ file \in [Sources -> [version : Nat, there : BOOLEAN]]
    /\ \A s \in Sources : Now(s) \in Versions(s)
    /\ DOMAIN commits = Stems
    /\ DOMAIN phase = Runs /\ DOMAIN early = Runs
    /\ DOMAIN at = Jobs /\ DOMAIN probe = Jobs /\ DOMAIN hit = Jobs /\ DOMAIN image = Jobs
    /\ key \in [Jobs -> Nat] /\ since \in [Jobs -> Nat \ {0}]

\* A commit of version v of s lists the planes of its decode.
Honest(c, s, v) ==
    /\ c.source = s /\ c.version = v
    /\ \A role \in Roles : c.digests[role] = Image(s, v, v)
CommitsAreHonest ==
    \A t \in Stems : commits[t] # None => Honest(commits[t], commits[t].source, commits[t].version)

\* Before its plan is read a run has peeked at no frame, and before it began it
\* has none under way.
RunOK(r) ==
    /\ phase[r] \in {"off", "probing"} => early[r] = None
    /\ phase[r] = "off" => \A j \in JobsOf(r) : at[j] = "idle" /\ probe[j] = None

\* The versions a frame's turn meets, in their order: since the run began, as
\* probed, as read for the plan, as resolved, as opened, as read to its end, now.
ProbeOK(j) ==
    probe[j] # None =>
        /\ probe[j].version \in since[j]..Now(j[2])
        /\ probe[j].committed # None => Honest(probe[j].committed, j[2], probe[j].version)
PeekOK(j) ==
    PeekedFor(j) =>
        /\ early[j[1]].version \in since[j]..Now(j[2])
        /\ probe[j] # None => probe[j].version <= early[j[1]].version
        /\ at[j] = "resolved" => key[j] <= early[j[1]].version
TurnOK(j) ==
    /\ since[j] <= Now(j[2])
    /\ InFlight(j) => key[j] \in since[j]..Now(j[2])
    /\ at[j] = "resolved" /\ hit[j] # None => Honest(hit[j], j[2], key[j])
    /\ at[j] = "decoding" => \E from \in key[j]..Now(j[2]) : image[j] = Image(j[2], from, 0)
    /\ at[j] = "decoded" =>
          \E from \in key[j]..Now(j[2]) : \E to \in from..Now(j[2]) : image[j] = Image(j[2], from, to)
    /\ at[j] \in {"unchanged", "gain", "channels", "samples"} =>
          image[j] = Image(j[2], key[j], key[j])
    /\ at[j] = "done" => \E v \in since[j]..Now(j[2]) : image[j] = Image(j[2], v, v)
JobOK(j) == ProbeOK(j) /\ PeekOK(j) /\ TurnOK(j)

IInv ==
    /\ TypeOK /\ CommitsAreHonest
    /\ \A r \in Runs : RunOK(r)
    /\ \A j \in Jobs : JobOK(j)

-----------------------------------------------------------------------------
(* Lemmas *)

\* A frame of a run is of one of its files.
LEMMA JobParts ==
  ASSUME NEW j \in Jobs
  PROVE  j[1] \in Runs /\ j[2] \in Sources
BY DEF Jobs

\* Every version of a file has a name.
LEMMA VersionsAreNamed ==
  ASSUME NEW s \in Sources, NEW v \in Versions(s)
  PROVE  Name(s, v) \in Stems
<1>1. <<s, v>> \in FileVersions
  BY DEF FileVersions
<1>. QED  BY <1>1, KeyAssumption DEF Name

\* A commit found for a version of a file is honest about it (committed()).
LEMMA CommittedIsHonest ==
  ASSUME CommitsAreHonest, NEW s \in Sources, NEW v \in Versions(s), Committed(s, v) # None
  PROVE  Honest(Committed(s, v), s, v)
<1>1. Name(s, v) \in Stems
  BY VersionsAreNamed
<1>. QED  BY <1>1 DEF Committed, CommitsAreHonest

\* A version between the run's first and the file's last is one of the file's.
LEMMA MetVersions ==
  ASSUME TypeOK, NEW j \in Jobs, NEW v \in since[j]..Now(j[2])
  PROVE  v \in Versions(j[2])
<1>1. j[2] \in Sources /\ since[j] \in Nat \ {0}
  BY JobParts DEF TypeOK
<1>2. Now(j[2]) \in Nat /\ Now(j[2]) \in 1..LastVersion[j[2]] /\ LastVersion[j[2]] \in Nat
  BY <1>1, SourcesAssumption DEF TypeOK, Versions, Now
<1>. QED  BY <1>1, <1>2 DEF Versions

\* The version a file has is a number from 1.
LEMMA NowIsAVersion ==
  ASSUME TypeOK, NEW j \in Jobs
  PROVE  Now(j[2]) \in Nat \ {0}
<1>1. j[2] \in Sources /\ LastVersion[j[2]] \in Nat
  BY JobParts, SourcesAssumption
<1>. QED  BY <1>1 DEF TypeOK, Versions

\* What a step does not touch stays in order while the files move on.
LEMMA JobFrame ==
  ASSUME TypeOK, NEW j \in Jobs, JobOK(j), TypeOK',
         at'[j] = at[j], probe'[j] = probe[j], key'[j] = key[j], hit'[j] = hit[j],
         image'[j] = image[j], since'[j] = since[j], early'[j[1]] = early[j[1]],
         Now(j[2]) <= Now(j[2])'
  PROVE  JobOK(j)'
<1>1. since[j] \in Nat /\ key[j] \in Nat /\ Now(j[2]) \in Nat /\ Now(j[2])' \in Nat
  BY JobParts DEF TypeOK, Now
<1>2. \A low \in Nat : low..Now(j[2]) \subseteq low..(Now(j[2])')
  BY <1>1
<1>3. ProbeOK(j)'
  BY <1>1, <1>2 DEF JobOK, ProbeOK, Honest, Image
<1>4. PeekOK(j)'
  BY <1>1, <1>2 DEF JobOK, PeekOK, PeekedFor
<1>5. TurnOK(j)'
  <2>1. at[j] = "decoded" =>
          \E from \in key[j]..(Now(j[2])') : \E to \in from..(Now(j[2])') :
              image[j] = Image(j[2], from, to)
    <3>. SUFFICES ASSUME at[j] = "decoded"
                  PROVE  \E from \in key[j]..(Now(j[2])') : \E to \in from..(Now(j[2])') :
                            image[j] = Image(j[2], from, to)
      OBVIOUS
    <3>1. PICK from \in key[j]..Now(j[2]) : \E to \in from..Now(j[2]) : image[j] = Image(j[2], from, to)
      BY DEF JobOK, TurnOK
    <3>2. PICK to \in from..Now(j[2]) : image[j] = Image(j[2], from, to)
      BY <3>1
    <3>3. from \in key[j]..(Now(j[2])') /\ to \in from..(Now(j[2])')
      BY <1>1
    <3>. QED  BY <3>2, <3>3
  <2>2. at[j] = "decoding" => \E from \in key[j]..(Now(j[2])') : image[j] = Image(j[2], from, 0)
    BY <1>1, <1>2 DEF JobOK, TurnOK
  <2>3. at[j] = "done" => \E v \in since[j]..(Now(j[2])') : image[j] = Image(j[2], v, v)
    BY <1>1, <1>2 DEF JobOK, TurnOK
  <2>4. since[j] <= Now(j[2])' /\ (InFlight(j) => key[j] \in since[j]..(Now(j[2])'))
    BY <1>1, <1>2 DEF JobOK, TurnOK
  <2>5. /\ at[j] = "resolved" /\ hit[j] # None => Honest(hit[j], j[2], key[j])
        /\ at[j] \in {"unchanged", "gain", "channels", "samples"} =>
              image[j] = Image(j[2], key[j], key[j])
    BY DEF JobOK, TurnOK
  <2>. QED  BY <2>1, <2>2, <2>3, <2>4, <2>5 DEF TurnOK, InFlight, Honest, Image
<1>. QED  BY <1>3, <1>4, <1>5 DEF JobOK

\* A step of one frame's job leaves the others in order, and its run begun.
LEMMA OneJob ==
  ASSUME IInv, NEW j \in Jobs, TypeOK', JobOK(j)', UNCHANGED <<file, since, early>>,
         \A i \in Jobs \ {j} : /\ at'[i] = at[i] /\ probe'[i] = probe[i] /\ key'[i] = key[i]
                               /\ hit'[i] = hit[i] /\ image'[i] = image[i],
         \/ phase[j[1]] = "probing" /\ UNCHANGED phase
         \/ Going(j[1]) /\ (UNCHANGED phase \/ phase' = [phase EXCEPT ![j[1]] = "failed"])
  PROVE  (\A r \in Runs : RunOK(r)') /\ (\A i \in Jobs : JobOK(i)')
<1>1. ASSUME NEW i \in Jobs PROVE JobOK(i)'
  <2>1. CASE i = j
    BY <2>1
  <2>2. CASE i # j
    <3>1. Now(i[2]) <= Now(i[2])' /\ early'[i[1]] = early[i[1]] /\ since'[i] = since[i]
      BY JobParts DEF IInv, TypeOK, Now
    <3>. QED  BY <2>2, <3>1, JobFrame DEF IInv
  <2>. QED  BY <2>1, <2>2
<1>2. ASSUME NEW r \in Runs PROVE RunOK(r)'
  <2>1. CASE r = j[1]
    <3>1. phase'[r] # "off" /\ (phase'[r] = "probing" => phase[r] = "probing")
      BY <2>1 DEF Going, IInv, TypeOK
    <3>. QED  BY <3>1 DEF RunOK, IInv
  <2>2. CASE r # j[1]
    <3>1. phase'[r] = phase[r] /\ early'[r] = early[r]
      BY <2>2 DEF IInv, TypeOK
    <3>2. \A i \in JobsOf(r) : i \in Jobs \ {j}
      BY <2>2 DEF JobsOf
    <3>. QED  BY <3>1, <3>2 DEF RunOK, IInv, JobsOf
  <2>. QED  BY <2>1, <2>2
<1>. QED  BY <1>1, <1>2

\* A frame whose job is gone, waits or has not begun is in order whatever it is.
LEMMA NoTurn ==
  ASSUME TypeOK', NEW j \in Jobs, at'[j] \in {"idle", "waiting", "gone"}, probe'[j] = None,
         PeekedFor(j)' => early'[j[1]].version \in since'[j]..(Now(j[2])'),
         since'[j] <= Now(j[2])'
  PROVE  JobOK(j)'
BY DEF JobOK, ProbeOK, PeekOK, TurnOK, InFlight

-----------------------------------------------------------------------------
(* A frame's job, step by step *)

\* The types of what a step of one job leaves, from what it changes.
LEMMA JobType ==
  ASSUME TypeOK, UNCHANGED <<file, since>>,
         DOMAIN commits' = Stems, DOMAIN phase' = Runs, DOMAIN early' = Runs,
         DOMAIN at' = Jobs, DOMAIN probe' = Jobs, DOMAIN hit' = Jobs, DOMAIN image' = Jobs,
         key' \in [Jobs -> Nat]
  PROVE  TypeOK'
BY DEF TypeOK, Now, Versions

\* The run ends with the error of a job under way or about to be.
LEMMA FailJobStep ==
  ASSUME IInv, NEW j \in Jobs, FailJob(j), Going(j[1])
  PROVE  IInv'
<1>1. TypeOK'
  BY JobType DEF FailJob, IInv, TypeOK, dirVars, histVars
<1>2. JobOK(j)'
  <2>1. at'[j] = "gone" /\ probe'[j] = None /\ UNCHANGED <<file, since, early>>
    BY DEF FailJob, IInv, TypeOK, histVars
  <2>2. (PeekedFor(j)' => early'[j[1]].version \in since'[j]..(Now(j[2])'))
        /\ since'[j] <= Now(j[2])'
    BY <2>1 DEF IInv, JobOK, PeekOK, TurnOK, PeekedFor, Now
  <2>. QED  BY <1>1, <2>1, <2>2, NoTurn
<1>3. (\A r \in Runs : RunOK(r)') /\ (\A i \in Jobs : JobOK(i)')
  BY <1>1, <1>2, OneJob DEF FailJob, IInv, TypeOK, histVars
<1>. QED  BY <1>1, <1>3 DEF IInv, CommitsAreHonest, Honest, Image, FailJob, dirVars

\* probe: the version of the file as the run begins, and its commit.
LEMMA ProbeStep ==
  ASSUME IInv, NEW j \in Jobs, Probe(j)
  PROVE  IInv'
<1>1. TypeOK'
  BY JobType DEF Probe, IInv, TypeOK, dirVars, runVars, histVars
<1>2. JobOK(j)'
  <2>1. early[j[1]] = None
    BY JobParts DEF Probe, IInv, RunOK
  <2>2. at'[j] = "waiting" /\ UNCHANGED <<file, since, early>>
    BY DEF Probe, IInv, TypeOK, runVars, histVars
  <2>3. PeekOK(j)' /\ TurnOK(j)'
    BY <2>1, <2>2 DEF PeekOK, TurnOK, PeekedFor, InFlight, IInv, JobOK, Now
  <2>4. Now(j[2]) \in since[j]..Now(j[2])
    BY JobParts DEF IInv, JobOK, TurnOK, TypeOK, Now
  <2>5. Now(j[2]) \in Versions(j[2])
    BY JobParts DEF IInv, TypeOK
  <2>6. ProbeOK(j)'
    <3>. SUFFICES ASSUME probe'[j] # None PROVE ProbeOK(j)'
      BY DEF ProbeOK
    <3>1. probe'[j] = [version |-> Now(j[2]), committed |-> Committed(j[2], Now(j[2]))]
      BY DEF Probe, IInv, TypeOK
    <3>2. Committed(j[2], Now(j[2])) # None => Honest(Committed(j[2], Now(j[2])), j[2], Now(j[2]))
      BY JobParts, <2>5, CommittedIsHonest DEF IInv
    <3>3. /\ probe'[j].version = Now(j[2]) /\ Now(j[2])' = Now(j[2]) /\ since'[j] = since[j]
          /\ probe'[j].committed = Committed(j[2], Now(j[2]))
      BY <2>2, <3>1 DEF Now
    <3>4. probe'[j].committed # None => Honest(probe'[j].committed, j[2], probe'[j].version)
      BY <3>2, <3>3
    <3>. QED  BY <2>4, <3>3, <3>4 DEF ProbeOK, Honest, Image
  <2>. QED  BY <2>3, <2>6 DEF JobOK
<1>3. (\A r \in Runs : RunOK(r)') /\ (\A i \in Jobs : JobOK(i)')
  BY <1>1, <1>2, OneJob DEF Probe, IInv, TypeOK, histVars, runVars
<1>. QED  BY <1>1, <1>3 DEF IInv, CommitsAreHonest, Honest, Image, Probe, dirVars

\* resolve: the version the frame will be kept under, and its commit.
LEMMA ResolveStep ==
  ASSUME IInv, NEW j \in Jobs, Resolve(j)
  PROVE  IInv'
<1>1. ASSUME NEW v \in since[j]..Now(j[2]), NEW c, ResolveAt(j, v, c),
             c # None => Honest(c, j[2], v),
             PeekedFor(j) => v <= early[j[1]].version
      PROVE  IInv'
  <2>1. v \in Nat
    BY <1>1, JobParts DEF IInv, TypeOK, Now
  <2>2. TypeOK'
    BY <1>1, <2>1, JobType DEF ResolveAt, IInv, TypeOK, dirVars, runVars, histVars
  <2>3. /\ at'[j] = "resolved" /\ probe'[j] = None /\ key'[j] = v /\ hit'[j] = c
        /\ UNCHANGED <<file, since, early>>
    BY <1>1 DEF ResolveAt, IInv, TypeOK, runVars, histVars
  <2>4. JobOK(j)'
    BY <1>1, <2>3 DEF JobOK, ProbeOK, PeekOK, TurnOK, PeekedFor, InFlight, IInv, Now, Honest, Image
  <2>5. (\A r \in Runs : RunOK(r)') /\ (\A i \in Jobs : JobOK(i)')
    BY <1>1, <2>2, <2>4, OneJob DEF Resolve, Going, ResolveAt, IInv, TypeOK, histVars, runVars
  <2>. QED  BY <1>1, <2>2, <2>5 DEF IInv, CommitsAreHonest, Honest, Image, ResolveAt, dirVars
<1>2. CASE ProbeStands(j) /\ ResolveAt(j, probe[j].version, probe[j].committed)
  <2>1. /\ probe[j].version \in since[j]..Now(j[2])
        /\ probe[j].committed # None => Honest(probe[j].committed, j[2], probe[j].version)
        /\ PeekedFor(j) => probe[j].version <= early[j[1]].version
    BY <1>2 DEF ProbeStands, IInv, JobOK, ProbeOK, PeekOK
  <2>. QED  BY <1>1, <1>2, <2>1
<1>3. CASE ~PeekedFor(j) /\ ResolveAt(j, Now(j[2]), Committed(j[2], Now(j[2])))
  <2>1. Now(j[2]) \in since[j]..Now(j[2]) /\ Now(j[2]) \in Versions(j[2])
    BY JobParts DEF IInv, JobOK, TurnOK, TypeOK, Now
  <2>2. Committed(j[2], Now(j[2])) # None => Honest(Committed(j[2], Now(j[2])), j[2], Now(j[2]))
    BY <2>1, JobParts, CommittedIsHonest DEF IInv
  <2>. QED  BY <1>1, <1>3, <2>1, <2>2
<1>4. CASE FailJob(j)
  BY <1>4, FailJobStep DEF Resolve, Going
<1>. QED  BY <1>2, <1>3, <1>4 DEF Resolve

\* Reuse: what is mapped holds the digests of an honest commit.
LEMMA ReuseStep ==
  ASSUME IInv, NEW j \in Jobs, Reuse(j)
  PROVE  IInv'
<1>1. TypeOK'
  BY JobType DEF Reuse, IInv, TypeOK, dirVars, histVars
<1>2. /\ at[j] = "resolved" /\ hit[j] # None
      /\ KeptAt(j)["channels"] = hit[j].digests["channels"]
  BY DEF Reuse, Reusable, Whole, RolesRead, Roles
<1>3. KeptAt(j)["channels"] = Image(j[2], key[j], key[j]) /\ key[j] \in since[j]..Now(j[2])
  BY <1>2 DEF IInv, JobOK, TurnOK, Honest, Roles, InFlight
<1>4. JobOK(j)'
  <2>1. /\ at'[j] = "done" /\ image'[j] = KeptAt(j)["channels"] /\ probe'[j] = probe[j]
        /\ UNCHANGED <<file, since, early>>
    BY DEF Reuse, IInv, TypeOK, histVars
  <2>2. ProbeOK(j)' /\ PeekOK(j)'
    BY <2>1 DEF IInv, JobOK, ProbeOK, PeekOK, PeekedFor, Now, Honest, Image
  <2>3. TurnOK(j)'
    BY <1>3, <2>1 DEF IInv, JobOK, TurnOK, InFlight, Now, Image
  <2>. QED  BY <2>2, <2>3 DEF JobOK
<1>5. (\A r \in Runs : RunOK(r)') /\ (\A i \in Jobs : JobOK(i)')
  BY <1>1, <1>4, OneJob DEF Reuse, IInv, TypeOK, histVars
<1>. QED  BY <1>1, <1>5 DEF IInv, CommitsAreHonest, Honest, Image, Reuse, dirVars

\* A step of job j that only moves it on, and the image it has.
LEMMA TurnStep ==
  ASSUME IInv, NEW j \in Jobs, Going(j[1]),
         \A i \in Jobs \ {j} : at'[i] = at[i] /\ hit'[i] = hit[i] /\ image'[i] = image[i],
         DOMAIN at' = Jobs, DOMAIN hit' = Jobs, DOMAIN image' = Jobs,
         UNCHANGED <<file, phase, early, probe, key, since>>, CommitsAreHonest', DOMAIN commits' = Stems,
         at'[j] # "resolved", at[j] # "idle",
         TurnOK(j)'
  PROVE  IInv'
<1>1. TypeOK'
  BY JobType DEF IInv, TypeOK
<1>2. ProbeOK(j)' /\ PeekOK(j)'
  BY DEF IInv, JobOK, ProbeOK, PeekOK, PeekedFor, Now, Honest, Image
<1>3. (\A r \in Runs : RunOK(r)') /\ (\A i \in Jobs : JobOK(i)')
  <2>1. JobOK(j)'
    BY <1>2 DEF JobOK
  <2>. QED  BY <1>1, <2>1, OneJob
<1>. QED  BY <1>1, <1>3 DEF IInv

\* The decode opens the file, or goes on with what was read for the plan.
LEMMA StartDecodeStep ==
  ASSUME IInv, NEW j \in Jobs, StartDecode(j)
  PROVE  IInv'
<1>1. Opened(j) \in key[j]..Now(j[2])
  <2>1. key[j] \in since[j]..Now(j[2]) /\ key[j] \in Nat /\ Now(j[2]) \in Nat /\ since[j] \in Nat
    BY JobParts DEF StartDecode, IInv, JobOK, TurnOK, InFlight, TypeOK, Now
  <2>2. CASE PeekedFor(j)
    <3>1. early[j[1]].version \in since[j]..Now(j[2]) /\ key[j] <= early[j[1]].version
      BY <2>2 DEF StartDecode, IInv, JobOK, PeekOK
    <3>. QED  BY <2>1, <2>2, <3>1 DEF Opened
  <2>3. CASE ~PeekedFor(j)
    BY <2>1, <2>3 DEF Opened
  <2>. QED  BY <2>2, <2>3
<1>2. /\ at'[j] = "decoding" /\ image'[j] = Image(j[2], Opened(j), 0)
      /\ UNCHANGED <<file, key, since>>
  BY DEF StartDecode, IInv, TypeOK, histVars
<1>3. TurnOK(j)'
  BY <1>1, <1>2 DEF StartDecode, IInv, JobOK, TurnOK, InFlight, Now, Image
<1>4. CommitsAreHonest'
  BY DEF StartDecode, IInv, CommitsAreHonest, Honest, Image, dirVars
<1>. QED  BY <1>2, <1>3, <1>4, TurnStep DEF StartDecode, IInv, TypeOK, dirVars, histVars

\* What is read to its end is of versions no older than the one resolved.
LEMMA FinishDecodeStep ==
  ASSUME IInv, NEW j \in Jobs, FinishDecode(j)
  PROVE  IInv'
<1>1. PICK from \in key[j]..Now(j[2]) : image[j] = Image(j[2], from, 0)
  BY DEF FinishDecode, IInv, JobOK, TurnOK
<1>2. PICK to \in image[j][2]..Now(j[2]) :
        image' = [image EXCEPT ![j] = Image(j[2], image[j][2], to)]
  BY DEF FinishDecode
<1>3. image[j][2] = from
  BY <1>1 DEF Image
<1>4. /\ at'[j] = "decoded" /\ image'[j] = Image(j[2], from, to)
      /\ UNCHANGED <<file, key, since>>
  BY <1>2, <1>3 DEF FinishDecode, IInv, TypeOK, histVars
<1>5. TurnOK(j)'
  <2>1. at[j] = "decoding" /\ to \in from..Now(j[2])
    BY <1>3 DEF FinishDecode
  <2>2. since[j] <= Now(j[2]) /\ key[j] \in since[j]..Now(j[2])
    BY <2>1 DEF IInv, JobOK, TurnOK, InFlight
  <2>. QED  BY <1>1, <1>4, <2>1, <2>2 DEF TurnOK, InFlight, Now, Image
<1>6. CommitsAreHonest'
  BY DEF FinishDecode, IInv, CommitsAreHonest, Honest, Image, dirVars
<1>. QED  BY <1>2, <1>4, <1>5, <1>6, TurnStep DEF FinishDecode, IInv, TypeOK, dirVars, histVars

\* ensure_unchanged: the file is still as resolved, so all of it was read as
\* resolved.
LEMMA EnsureUnchangedStep ==
  ASSUME IInv, NEW j \in Jobs, EnsureUnchanged(j)
  PROVE  IInv'
<1>1. CASE FailJob(j)
  BY <1>1, FailJobStep DEF EnsureUnchanged
<1>2. CASE /\ Now(j[2]) = key[j] /\ at' = [at EXCEPT ![j] = "unchanged"]
           /\ UNCHANGED <<file, dirVars, runVars, probe, key, hit, image, histVars>>
  <2>1. PICK from \in key[j]..Now(j[2]) : \E to \in from..Now(j[2]) : image[j] = Image(j[2], from, to)
    BY DEF EnsureUnchanged, IInv, JobOK, TurnOK
  <2>2. PICK to \in from..Now(j[2]) : image[j] = Image(j[2], from, to)
    BY <2>1
  <2>3. key[j] \in Nat
    BY DEF IInv, TypeOK
  <2>4. image[j] = Image(j[2], key[j], key[j])
    BY <1>2, <2>2, <2>3
  <2>5. at'[j] = "unchanged"
    BY <1>2 DEF IInv, TypeOK
  <2>6. TurnOK(j)'
    BY <1>2, <2>4, <2>5 DEF EnsureUnchanged, IInv, JobOK, TurnOK, InFlight, Now, Image, histVars
  <2>7. CommitsAreHonest'
    BY <1>2 DEF IInv, CommitsAreHonest, Honest, Image, dirVars
  <2>. QED  BY <1>2, <2>5, <2>6, <2>7, TurnStep
            DEF EnsureUnchanged, IInv, TypeOK, dirVars, runVars, histVars
<1>. QED  BY <1>1, <1>2 DEF EnsureUnchanged

\* The steps of a keep before its commit move the job on and touch no commit.
LEMMA KeepStep ==
  ASSUME IInv, NEW j \in Jobs, Going(j[1]),
         at[j] \in {"unchanged", "gain", "channels", "samples"},
         at' = [at EXCEPT ![j] = at'[j]],
         at'[j] \in {"gain", "channels", "samples", "done"},
         UNCHANGED <<file, phase, early, probe, key, hit, image, since>>,
         CommitsAreHonest', DOMAIN commits' = Stems
  PROVE  IInv'
<1>1. image[j] = Image(j[2], key[j], key[j]) /\ key[j] \in since[j]..Now(j[2])
  BY DEF IInv, JobOK, TurnOK, InFlight
<1>2. TurnOK(j)'
  BY <1>1 DEF IInv, JobOK, TurnOK, InFlight, Now, Image
<1>. QED  BY <1>2, TurnStep DEF IInv, TypeOK

\* keep_gain touches no commit.
LEMMA KeepGainStep ==
  ASSUME IInv, NEW j \in Jobs, KeepGain(j)
  PROVE  IInv'
<1>1. at'[j] = "gain" /\ CommitsAreHonest'
  BY DEF KeepGain, IInv, TypeOK, CommitsAreHonest, Honest, Image
<1>. QED  BY <1>1, KeepStep DEF KeepGain, IInv, TypeOK, histVars

\* Nor does a plane published.
LEMMA PublishStep ==
  ASSUME IInv, NEW j \in Jobs, PublishChannels(j) \/ PublishSamples(j)
  PROVE  IInv'
<1>1. CommitsAreHonest'
  BY DEF PublishChannels, PublishSamples, Publish, IInv, CommitsAreHonest, Honest, Image
<1>. QED  BY <1>1, KeepStep
          DEF PublishChannels, PublishSamples, Publish, IInv, TypeOK, runVars, histVars

\* A commit is of what was decoded, all of the version it is under.
LEMMA CommitStep ==
  ASSUME IInv, NEW j \in Jobs, Commit(j)
  PROVE  IInv'
<1>1. image[j] = Image(j[2], key[j], key[j])
  BY DEF Commit, IInv, JobOK, TurnOK
<1>2. Honest(CommitOf(j), j[2], key[j])
  BY <1>1 DEF CommitOf, Honest
<1>3. CommitsAreHonest'
  <2>. SUFFICES ASSUME NEW t \in Stems, commits'[t] # None
                PROVE  Honest(commits'[t], commits'[t].source, commits'[t].version)
    BY DEF CommitsAreHonest, Honest, Image
  <2>1. CASE commits'[t] = CommitOf(j)
    BY <1>2, <2>1 DEF CommitOf
  <2>2. CASE commits'[t] = commits[t]
    BY <2>2 DEF IInv, CommitsAreHonest
  <2>. QED  BY <2>1, <2>2 DEF Commit, IInv, TypeOK
<1>. QED  BY <1>3, KeepStep DEF Commit, IInv, TypeOK, runVars, histVars

-----------------------------------------------------------------------------
(* A run as a whole, and what is done beside it *)

\* A run begins: its frames have met no version but the one now.
LEMMA StartStep ==
  ASSUME IInv, NEW r \in Runs, Start(r)
  PROVE  IInv'
<1>1. /\ UNCHANGED <<file, commits, early, at, probe, key, hit, image>>
      /\ phase' = [phase EXCEPT ![r] = "probing"] /\ phase[r] = "off"
      /\ since' = [j \in Jobs |-> IF j[1] = r THEN Now(j[2]) ELSE since[j]]
  BY DEF Start, dirVars, jobVars
<1>2. \A j \in Jobs : Now(j[2]) \in Nat \ {0}
  BY NowIsAVersion DEF IInv
<1>3. TypeOK'
  BY <1>1, <1>2 DEF IInv, TypeOK, Now, Versions
<1>4. ASSUME NEW j \in Jobs PROVE JobOK(j)'
  <2>1. CASE j[1] = r
    <3>1. at[j] = "idle" /\ probe[j] = None /\ early[r] = None
      BY <1>1, <2>1 DEF IInv, RunOK, JobsOf
    <3>2. since'[j] = Now(j[2])' /\ Now(j[2])' \in Nat
      BY <1>1, <1>2, <2>1 DEF Now
    <3>. QED  BY <1>1, <1>3, <2>1, <3>1, <3>2, NoTurn DEF PeekedFor
  <2>2. CASE j[1] # r
    <3>1. since'[j] = since[j] /\ Now(j[2]) <= Now(j[2])'
      BY <1>1, <1>2, <2>2 DEF Now
    <3>. QED  BY <1>1, <1>3, <3>1, JobFrame DEF IInv
  <2>. QED  BY <2>1, <2>2
<1>5. ASSUME NEW q \in Runs PROVE RunOK(q)'
  BY <1>1 DEF IInv, TypeOK, RunOK, JobsOf
<1>. QED  BY <1>1, <1>3, <1>4, <1>5 DEF IInv, CommitsAreHonest, Honest, Image

\* The plan's read comes after the probe, so what it read is no older.
LEMMA PeekStep ==
  ASSUME IInv, NEW r \in Runs, Peek(r)
  PROVE  IInv'
<1>1. /\ UNCHANGED <<file, commits, at, probe, key, hit, image, since>>
      /\ phase[r] = "probing" /\ \A j \in JobsOf(r) : at[j] = "waiting"
      /\ phase' \in {[phase EXCEPT ![r] = "loading"], [phase EXCEPT ![r] = "failed"]}
  BY DEF Peek, dirVars, jobVars, histVars
<1>2. \/ early' = early
      \/ \E i \in Jobs : early' = [early EXCEPT ![r] = [source |-> i[2], version |-> Now(i[2])]]
  BY DEF Peek, Uncached, JobsOf
<1>3. TypeOK'
  BY <1>1, <1>2 DEF IInv, TypeOK, Now, Versions
<1>4. ASSUME NEW j \in Jobs PROVE JobOK(j)'
  <2>1. Now(j[2]) <= Now(j[2])' /\ Now(j[2]) \in Nat
    BY <1>1, JobParts DEF IInv, TypeOK, Now
  <2>2. CASE early'[j[1]] = early[j[1]]
    BY <1>1, <1>3, <2>1, <2>2, JobFrame DEF IInv
  <2>3. CASE early'[j[1]] # early[j[1]]
    <3>1. j[1] = r /\ early' # early
      BY <1>2, <2>3, JobParts DEF IInv, TypeOK
    <3>2. PICK i \in Jobs : early' = [early EXCEPT ![r] = [source |-> i[2], version |-> Now(i[2])]]
      BY <1>2, <3>1
    <3>3. early'[j[1]] = [source |-> i[2], version |-> Now(i[2])]
      BY <3>1, <3>2 DEF IInv, TypeOK
    <3>4. at[j] = "waiting"
      BY <1>1, <3>1 DEF JobsOf
    <3>5. ProbeOK(j)' /\ TurnOK(j)'
      BY <1>1, <3>4 DEF IInv, JobOK, ProbeOK, TurnOK, InFlight, Now, Honest, Image
    <3>6. PeekOK(j)'
      <4>. SUFFICES ASSUME PeekedFor(j)' PROVE PeekOK(j)'
        BY DEF PeekOK
      <4>1. i[2] = j[2]
        BY <3>3 DEF PeekedFor
      <4>2. early'[j[1]].version = Now(j[2])
        BY <3>3, <4>1
      <4>3. since[j] \in Nat /\ since[j] <= Now(j[2])
        BY DEF IInv, TypeOK, JobOK, TurnOK
      <4>4. probe[j] # None => probe[j].version \in since[j]..Now(j[2])
        BY DEF IInv, JobOK, ProbeOK
      <4>5. Now(j[2])' = Now(j[2])
        BY <1>1 DEF Now
      <4>. QED  BY <1>1, <2>1, <3>4, <4>2, <4>3, <4>4, <4>5 DEF PeekOK
    <3>. QED  BY <3>5, <3>6 DEF JobOK
  <2>. QED  BY <2>2, <2>3
<1>5. ASSUME NEW q \in Runs PROVE RunOK(q)'
  <2>1. CASE q = r
    BY <1>1, <2>1 DEF IInv, TypeOK, RunOK
  <2>2. CASE q # r
    <3>1. phase'[q] = phase[q] /\ early'[q] = early[q]
      BY <1>1, <1>2, <2>2 DEF IInv, TypeOK
    <3>. QED  BY <1>1, <3>1 DEF IInv, RunOK, JobsOf
  <2>. QED  BY <2>1, <2>2
<1>. QED  BY <1>1, <1>3, <1>4, <1>5 DEF IInv, CommitsAreHonest, Honest, Image

\* The end of a run's loading, good or cancelled.
LEMMA EndStep ==
  ASSUME IInv, NEW r \in Runs, Finish(r) \/ Cancel(r)
  PROVE  IInv'
<1>1. /\ UNCHANGED <<file, commits, early, at, probe, key, hit, image, since>>
      /\ phase' \in {[phase EXCEPT ![r] = "done"], [phase EXCEPT ![r] = "failed"]}
  BY DEF Finish, Cancel, dirVars, jobVars, histVars
<1>2. TypeOK'
  BY <1>1 DEF IInv, TypeOK, Now, Versions
<1>3. ASSUME NEW j \in Jobs PROVE JobOK(j)'
  <2>1. Now(j[2]) <= Now(j[2])'
    BY <1>1, JobParts DEF IInv, TypeOK, Now
  <2>. QED  BY <1>1, <1>2, <2>1, JobFrame DEF IInv
<1>4. ASSUME NEW q \in Runs PROVE RunOK(q)'
  BY <1>1 DEF IInv, TypeOK, RunOK, JobsOf
<1>. QED  BY <1>1, <1>2, <1>3, <1>4 DEF IInv, CommitsAreHonest, Honest, Image

\* A run that is over, or killed, leaves nothing behind but its files.
LEMMA NoRunStep ==
  ASSUME IInv, NEW r \in Runs, NoRun(r), UNCHANGED <<file, dirVars>>
  PROVE  IInv'
<1>1. \A j \in Jobs : Now(j[2]) \in Nat \ {0} /\ Now(j[2])' = Now(j[2])
  <2>1. \A j \in Jobs : Now(j[2])' = Now(j[2])
    BY DEF Now
  <2>. QED  BY <2>1, NowIsAVersion DEF IInv
<1>2. TypeOK'
  BY DEF NoRun, IInv, TypeOK, Now, Versions, dirVars
<1>3. ASSUME NEW j \in Jobs PROVE JobOK(j)'
  <2>1. CASE j[1] = r
    <3>1. at'[j] = "idle" /\ probe'[j] = None /\ early'[j[1]] = None /\ since'[j] = 1
      BY <2>1, JobParts DEF NoRun, IInv, TypeOK
    <3>. QED  BY <1>1, <1>2, <3>1, NoTurn DEF PeekedFor
  <2>2. CASE j[1] # r
    <3>1. /\ at'[j] = at[j] /\ probe'[j] = probe[j] /\ key'[j] = key[j] /\ hit'[j] = hit[j]
          /\ image'[j] = image[j] /\ since'[j] = since[j] /\ early'[j[1]] = early[j[1]]
      BY <2>2, JobParts DEF NoRun, IInv, TypeOK
    <3>2. Now(j[2]) <= Now(j[2])'
      BY <1>1
    <3>. QED  BY <1>2, <3>1, <3>2, JobFrame DEF IInv
  <2>. QED  BY <2>1, <2>2
<1>4. ASSUME NEW q \in Runs PROVE RunOK(q)'
  <2>1. CASE q = r
    BY <2>1 DEF NoRun, IInv, TypeOK, RunOK, JobsOf
  <2>2. CASE q # r
    <3>1. phase'[q] = phase[q] /\ early'[q] = early[q]
      BY <2>2 DEF NoRun, IInv, TypeOK
    <3>2. \A j \in JobsOf(q) : at'[j] = at[j] /\ probe'[j] = probe[j]
      BY <2>2 DEF NoRun, JobsOf
    <3>. QED  BY <3>1, <3>2 DEF IInv, RunOK, JobsOf
  <2>. QED  BY <2>1, <2>2
<1>. QED  BY <1>2, <1>3, <1>4 DEF IInv, CommitsAreHonest, Honest, Image, dirVars

\* The files move on under every frame, and the cache's files are damaged.
LEMMA UpsetStep ==
  ASSUME IInv, (\E s \in Sources : Rewrite(s) \/ Remove(s)) \/ Damage
  PROVE  IInv'
<1>1. UNCHANGED <<phase, early, at, probe, key, hit, image, since>>
  BY DEF Rewrite, Remove, Damage, runVars, jobVars
<1>2. file' \in [Sources -> [version : Nat, there : BOOLEAN]]
      /\ \A s \in Sources : Now(s)' \in Versions(s) /\ Now(s) <= Now(s)'
  <2>. USE DEF Now
  <2>1. \A s \in Sources : /\ file[s] \in [version : Nat, there : BOOLEAN]
                           /\ file[s].version \in 1..LastVersion[s] /\ LastVersion[s] \in Nat
    BY SourcesAssumption DEF IInv, TypeOK, Versions
  <2>2. ASSUME NEW s \in Sources, Rewrite(s)
        PROVE  file' \in [Sources -> [version : Nat, there : BOOLEAN]]
               /\ \A t \in Sources : file'[t].version \in 1..LastVersion[t]
                                     /\ file[t].version <= file'[t].version
    BY <2>1, <2>2 DEF Rewrite, IInv, TypeOK
  <2>3. ASSUME NEW s \in Sources, Remove(s)
        PROVE  file' \in [Sources -> [version : Nat, there : BOOLEAN]]
               /\ \A t \in Sources : file'[t].version \in 1..LastVersion[t]
                                     /\ file[t].version <= file'[t].version
    <3>1. file'[s] = [file[s] EXCEPT !.there = FALSE]
      BY <2>3 DEF Remove, IInv, TypeOK
    <3>2. file'[s] \in [version : Nat, there : BOOLEAN] /\ file'[s].version = file[s].version
      BY <2>1, <3>1
    <3>3. DOMAIN file' = Sources /\ \A t \in Sources \ {s} : file'[t] = file[t]
      BY <2>3 DEF Remove, IInv, TypeOK
    <3>4. file' = [t \in Sources |-> file'[t]]
      BY <2>3 DEF Remove, IInv, TypeOK
    <3>5. file' \in [Sources -> [version : Nat, there : BOOLEAN]]
      BY <2>1, <3>2, <3>3, <3>4
    <3>6. \A t \in Sources : file'[t].version = file[t].version
      BY <3>2, <3>3
    <3>. QED  BY <2>1, <3>5, <3>6
  <2>4. CASE Damage
    BY <2>1, <2>4 DEF Damage, IInv, TypeOK, Versions
  <2>. QED  BY <2>2, <2>3, <2>4 DEF Versions
<1>3. CommitsAreHonest' /\ DOMAIN commits' = Stems
  <2>1. DOMAIN commits' = Stems /\ \A t \in Stems : commits'[t] \in {commits[t], None}
    BY DEF Rewrite, Remove, Damage, dirVars, IInv, TypeOK
  <2>. QED  BY <2>1 DEF IInv, CommitsAreHonest, Honest, Image
<1>4. TypeOK'
  BY <1>1, <1>2, <1>3 DEF IInv, TypeOK
<1>5. ASSUME NEW j \in Jobs PROVE JobOK(j)'
  BY <1>1, <1>2, <1>4, JobParts, JobFrame DEF IInv
<1>6. ASSUME NEW q \in Runs PROVE RunOK(q)'
  BY <1>1 DEF IInv, RunOK, JobsOf
<1>. QED  BY <1>3, <1>4, <1>5, <1>6 DEF IInv

-----------------------------------------------------------------------------
(* The theorems *)

\* The invariant holds before any run.
LEMMA InitInv == Init => IInv
<1>. SUFFICES ASSUME Init PROVE IInv
  OBVIOUS
<1>1. \A s \in Sources : Now(s) = 1 /\ 1 \in Versions(s)
  BY SourcesAssumption DEF Init, Now, Versions
<1>2. TypeOK
  BY <1>1 DEF Init, TypeOK
<1>3. \A j \in Jobs : JobOK(j)
  BY <1>1, JobParts DEF Init, JobOK, ProbeOK, PeekOK, TurnOK, PeekedFor, InFlight
<1>4. CommitsAreHonest /\ \A r \in Runs : RunOK(r)
  BY DEF Init, CommitsAreHonest, RunOK, JobsOf
<1>. QED  BY <1>2, <1>3, <1>4 DEF IInv

\* Every step keeps it.
LEMMA NextInv == IInv /\ [Next]_vars => IInv'
<1>. SUFFICES ASSUME IInv, [Next]_vars PROVE IInv'
  OBVIOUS
<1>1. ASSUME NEW j \in Jobs, JobStep(j) PROVE IInv'
  <2>1. CASE Fail(j)
    BY <2>1, FailJobStep DEF Fail
  <2>. QED  BY <1>1, <2>1, ProbeStep, ResolveStep, ReuseStep, StartDecodeStep, FinishDecodeStep,
               EnsureUnchangedStep, KeepGainStep, PublishStep, CommitStep DEF JobStep
<1>2. ASSUME NEW r \in Runs,
             Start(r) \/ Peek(r) \/ Finish(r) \/ Cancel(r) \/ Close(r) \/ Kill(r)
      PROVE  IInv'
  <2>1. CASE Close(r) \/ Kill(r)
    BY <2>1, NoRunStep DEF Close, Kill
  <2>. QED  BY <1>2, <2>1, StartStep, PeekStep, EndStep
<1>3. CASE (\E s \in Sources : Rewrite(s) \/ Remove(s)) \/ Damage
  BY <1>3, UpsetStep
<1>4. CASE UNCHANGED vars
  <2>1. UNCHANGED <<file, commits, phase, early, at, probe, key, hit, image, since>>
    BY <1>4 DEF vars, dirVars, runVars, jobVars, histVars
  <2>2. TypeOK' /\ CommitsAreHonest' /\ \A r \in Runs : RunOK(r)'
    BY <2>1 DEF IInv, TypeOK, CommitsAreHonest, RunOK, JobsOf, Honest, Image, Now, Versions
  <2>3. ASSUME NEW j \in Jobs PROVE JobOK(j)'
    <3>1. Now(j[2]) <= Now(j[2])'
      BY <2>1, JobParts DEF IInv, TypeOK, Now
    <3>. QED  BY <2>1, <2>2, <3>1, JobFrame DEF IInv
  <2>. QED  BY <2>2, <2>3 DEF IInv
<1>. QED  BY <1>1, <1>2, <1>3, <1>4 DEF Next

\* The inductive invariant holds in every state a run of the cache reaches.
THEOREM IInvHolds == Spec => []IInv
BY InitInv, NextInv, PTL DEF Spec

\* A frame taken is the whole decode of one version of its own file, current at
\* some moment since its run began, whatever was killed, rewritten or damaged.
THEOREM TakenFramesAreDecodes == Spec => []FramesAreDecodes
<1>1. IInv => FramesAreDecodes
  BY DEF IInv, JobOK, TurnOK, FramesAreDecodes
<1>. QED  BY <1>1, IInvHolds, PTL

\* A commit is of the whole decode of the version it is under: the digests a
\* later run compares are those of the frame it asks for.
THEOREM CommitsStayHonest == Spec => []CommitsAreHonest
<1>1. IInv => CommitsAreHonest
  BY DEF IInv
<1>. QED  BY <1>1, IInvHolds, PTL

-----------------------------------------------------------------------------
(* What a keep leaves if it is killed: the second invariant, while nothing  *)
(* of the cache was damaged.  A frame alone under its name has its planes   *)
(* before its commit, and every gain named is in its file, each where the   *)
(* keep that wrote it has come to.                                          *)

Planed(s, v, role) == planes[Name(s, v)][role] = Image(s, v, v)
GainKept(g) == g # None => g \in Gains /\ gainFile[g] = "whole"
Keeping(j) == at[j] \in {"gain", "channels", "samples"}

CacheShape ==
    /\ planes = [t \in Stems |-> [role \in Roles |-> planes[t][role]]]
    /\ DOMAIN gainFile = Gains /\ DOMAIN wrote = Runs
KeepOK(j) ==
    Keeping(j) =>
        /\ GainKept(GainDue(j))
        /\ Alone(j[2], key[j]) =>
            /\ at[j] # "gain" => Planed(j[2], key[j], "channels")
            /\ at[j] = "samples" => Planed(j[2], key[j], "samples")
CommitOK(s, v) ==
    Committed(s, v) # None =>
        /\ Committed(s, v).digests = [role \in Roles |-> Image(s, v, v)]
        /\ GainKept(Committed(s, v).gain)
        /\ Alone(s, v) => \A role \in Roles : Planed(s, v, role)
KeepInv ==
    /\ CacheShape
    /\ ~harmed =>
        /\ \A r \in Runs : \A g \in wrote[r] : GainKept(g)
        /\ \A j \in Jobs : KeepOK(j)
        /\ \A s \in Sources : \A v \in Versions(s) : CommitOK(s, v)

\* A frame being kept is of a version of its file.
LEMMA KeptVersion ==
  ASSUME IInv, NEW j \in Jobs, InFlight(j)
  PROVE  j[2] \in Sources /\ key[j] \in Versions(j[2])
BY JobParts, MetVersions DEF IInv, JobOK, TurnOK

\* A commit stays whole while its planes and its gain are there.
LEMMA CommitFrame ==
  ASSUME NEW s, NEW v, CommitOK(s, v), Committed(s, v)' = Committed(s, v), planes' = planes,
         \A g : GainKept(g) => GainKept(g)'
  PROVE  CommitOK(s, v)'
<1>. SUFFICES ASSUME Committed(s, v)' # None PROVE CommitOK(s, v)'
  BY DEF CommitOK
<1>1. \A role : Planed(s, v, role)' <=> Planed(s, v, role)
  BY DEF Planed, Image, Name
<1>2. Alone(s, v)' <=> Alone(s, v)
  BY DEF Alone, Name
<1>3. /\ Committed(s, v)'.digests = [role \in Roles |-> Image(s, v, v)]
      /\ GainKept(Committed(s, v).gain)'
      /\ Alone(s, v) => \A role \in Roles : Planed(s, v, role)
  BY DEF CommitOK
<1>. QED  BY <1>1, <1>2, <1>3 DEF CommitOK, GainKept, Image

\* A step that writes no file of the cache, and brings no job into its keep.
LEMMA NothingKept ==
  ASSUME KeepInv, UNCHANGED <<planes, commits, gainFile, harmed>>,
         DOMAIN wrote' = Runs, \A r \in Runs : wrote'[r] \subseteq wrote[r],
         \A j \in Jobs : Keeping(j)' => at'[j] = at[j] /\ key'[j] = key[j]
  PROVE  KeepInv'
<1>1. CacheShape'
  BY DEF KeepInv, CacheShape
<1>. SUFFICES ASSUME ~harmed' PROVE /\ \A r \in Runs : \A g \in wrote'[r] : GainKept(g)'
                                    /\ \A j \in Jobs : KeepOK(j)'
                                    /\ \A s \in Sources : \A v \in Versions(s) : CommitOK(s, v)'
  BY <1>1 DEF KeepInv
<1>2. ASSUME NEW r \in Runs, NEW g \in wrote'[r] PROVE GainKept(g)'
  BY <1>2 DEF KeepInv, GainKept
<1>3. ASSUME NEW j \in Jobs PROVE KeepOK(j)'
  <2>. SUFFICES ASSUME Keeping(j)' PROVE KeepOK(j)'
    BY DEF KeepOK
  <2>1. at'[j] = at[j] /\ key'[j] = key[j] /\ KeepOK(j)
    BY DEF KeepInv
  <2>. QED  BY <2>1 DEF KeepOK, Keeping, GainKept, GainDue, Planed, Image, Alone
<1>4. ASSUME NEW s \in Sources, NEW v \in Versions(s) PROVE CommitOK(s, v)'
  <2>1. CommitOK(s, v) /\ Committed(s, v)' = Committed(s, v)
    BY DEF KeepInv, Committed, Name
  <2>2. \A g : GainKept(g) => GainKept(g)'
    BY DEF GainKept
  <2>. QED  BY <2>1, <2>2, CommitFrame
<1>. QED  BY <1>2, <1>3, <1>4

\* The gain first: written now, or by this run before.
LEMMA KeepGainKeeps ==
  ASSUME IInv, KeepInv, NEW j \in Jobs, KeepGain(j)
  PROVE  KeepInv'
<1>1. /\ at' = [at EXCEPT ![j] = "gain"] /\ at[j] = "unchanged"
      /\ UNCHANGED <<planes, commits, key, harmed>>
  BY DEF KeepGain, histVars
<1>2. GainDue(j) \in Gains \cup {None} /\ j[1] \in Runs
  <2>1. <<j[2], key[j]>> \in FileVersions
    BY <1>1, KeptVersion DEF InFlight, FileVersions
  <2>. QED  BY <2>1, KeyAssumption, JobParts DEF GainDue, GainIn
<1>3. CacheShape'
  BY <1>1 DEF KeepGain, KeepInv, CacheShape
<1>. SUFFICES ASSUME ~harmed' PROVE /\ \A r \in Runs : \A g \in wrote'[r] : GainKept(g)'
                                    /\ \A i \in Jobs : KeepOK(i)'
                                    /\ \A s \in Sources : \A v \in Versions(s) : CommitOK(s, v)'
  BY <1>3 DEF KeepInv
<1>4. \A g : GainKept(g) => GainKept(g)'
  BY DEF KeepGain, KeepInv, CacheShape, GainKept
<1>5. GainKept(GainDue(j))'
  <2>1. CASE GainDue(j) = None \/ GainDue(j) \in wrote[j[1]]
    BY <1>1, <1>2, <1>4, <2>1 DEF KeepInv, GainKept, GainDue
  <2>2. CASE ~(GainDue(j) = None \/ GainDue(j) \in wrote[j[1]])
    BY <1>1, <1>2, <2>2 DEF KeepGain, KeepInv, CacheShape, GainKept, GainDue
  <2>. QED  BY <2>1, <2>2
<1>6. ASSUME NEW r \in Runs, NEW g \in wrote'[r] PROVE GainKept(g)'
  <2>1. g \in wrote[r] \/ g = GainDue(j)
    BY <1>2 DEF KeepGain, KeepInv, CacheShape
  <2>. QED  BY <1>1, <1>4, <1>5, <2>1 DEF KeepInv, GainDue
<1>7. ASSUME NEW i \in Jobs PROVE KeepOK(i)'
  <2>1. CASE i = j
    BY <1>1, <1>5, <2>1 DEF KeepOK, IInv, TypeOK
  <2>2. CASE i # j
    <3>1. at'[i] = at[i] /\ key'[i] = key[i] /\ KeepOK(i)
      BY <1>1, <2>2 DEF KeepInv, IInv, TypeOK
    <3>. QED  BY <1>1, <1>4, <3>1 DEF KeepOK, Keeping, GainDue, Planed, Image, Alone
  <2>. QED  BY <2>1, <2>2
<1>8. ASSUME NEW s \in Sources, NEW v \in Versions(s) PROVE CommitOK(s, v)'
  <2>1. CommitOK(s, v) /\ Committed(s, v)' = Committed(s, v)
    BY <1>1 DEF KeepInv, Committed, Name
  <2>. QED  BY <1>1, <1>4, <2>1, CommitFrame
<1>. QED  BY <1>6, <1>7, <1>8

\* Planes are written of the very version their name is of: what is whole under
\* a name of one frame stays so, whoever writes it again.
LEMMA PublishKeeps ==
  ASSUME IInv, KeepInv, NEW j \in Jobs, PublishChannels(j) \/ PublishSamples(j)
  PROVE  KeepInv'
<1>1. PICK role \in Roles :
        /\ at[j] = (IF role = "channels" THEN "gain" ELSE "channels")
        /\ at' = [at EXCEPT ![j] = role]
        /\ planes' = [planes EXCEPT ![Name(j[2], key[j])][role] = image[j]]
        /\ UNCHANGED <<commits, gainFile, wrote, key, harmed>>
  BY DEF PublishChannels, PublishSamples, Publish, Roles, runVars, histVars
<1>2. image[j] = Image(j[2], key[j], key[j]) /\ j[2] \in Sources /\ key[j] \in Versions(j[2])
  BY <1>1, KeptVersion DEF IInv, JobOK, TurnOK, InFlight
<1>3. <<j[2], key[j]>> \in FileVersions /\ Name(j[2], key[j]) \in Stems
  BY <1>2, VersionsAreNamed DEF FileVersions
<1>4. CacheShape'
  BY <1>1, <1>3 DEF KeepInv, CacheShape
<1>5. Planed(j[2], key[j], role)'
  BY <1>1, <1>2, <1>3 DEF Planed, KeepInv, CacheShape, Image
<1>6. ASSUME NEW s \in Sources, NEW v \in Versions(s), NEW p \in Roles,
             Alone(s, v), Planed(s, v, p)
      PROVE  Planed(s, v, p)'
  <2>1. Name(s, v) \in Stems
    BY VersionsAreNamed
  <2>2. CASE Name(j[2], key[j]) = Name(s, v)
    <3>1. <<j[2], key[j]>> = <<s, v>>
      BY <1>3, <1>6, <2>2 DEF Alone, Name
    <3>. QED  BY <1>1, <1>2, <1>3, <1>6, <3>1 DEF Planed, KeepInv, CacheShape, Image
  <2>3. CASE Name(j[2], key[j]) # Name(s, v)
    BY <1>1, <1>3, <1>6, <2>1, <2>3 DEF Planed, KeepInv, CacheShape, Image
  <2>. QED  BY <2>2, <2>3
<1>. SUFFICES ASSUME ~harmed' PROVE /\ \A r \in Runs : \A g \in wrote'[r] : GainKept(g)'
                                    /\ \A i \in Jobs : KeepOK(i)'
                                    /\ \A s \in Sources : \A v \in Versions(s) : CommitOK(s, v)'
  BY <1>4 DEF KeepInv
<1>7. ASSUME NEW r \in Runs, NEW g \in wrote'[r] PROVE GainKept(g)'
  BY <1>1, <1>7 DEF KeepInv, GainKept
<1>8. ASSUME NEW i \in Jobs PROVE KeepOK(i)'
  <2>. SUFFICES ASSUME Keeping(i)' PROVE KeepOK(i)'
    BY DEF KeepOK
  <2>1. Keeping(i) /\ key'[i] = key[i] /\ i[2] \in Sources /\ key[i] \in Versions(i[2])
    <3>1. Keeping(i) /\ key'[i] = key[i]
      BY <1>1 DEF Keeping, Roles, IInv, TypeOK
    <3>. QED  BY <3>1, KeptVersion DEF Keeping, InFlight
  <2>2. GainKept(GainDue(i))'
    BY <1>1, <2>1 DEF KeepInv, KeepOK, GainKept, GainDue
  <2>3. ASSUME Alone(i[2], key[i]), at'[i] # "gain" PROVE Planed(i[2], key[i], "channels")'
    <3>1. CASE at[i] # "gain"
      BY <1>1, <1>6, <2>1, <2>3, <3>1 DEF KeepInv, KeepOK, Roles
    <3>2. CASE at[i] = "gain"
      <4>1. i = j
        BY <1>1, <2>3, <3>2 DEF IInv, TypeOK
      <4>2. role = "channels"
        BY <1>1, <3>2, <4>1
      <4>. QED  BY <1>5, <4>1, <4>2
    <3>. QED  BY <3>1, <3>2
  <2>4. ASSUME Alone(i[2], key[i]), at'[i] = "samples" PROVE Planed(i[2], key[i], "samples")'
    <3>1. CASE at[i] = "samples"
      BY <1>1, <1>6, <2>1, <2>4, <3>1 DEF KeepInv, KeepOK, Roles
    <3>2. CASE at[i] # "samples"
      <4>1. i = j
        BY <1>1, <2>4, <3>2 DEF IInv, TypeOK
      <4>2. role = "samples"
        BY <1>1, <2>4, <4>1 DEF IInv, TypeOK
      <4>. QED  BY <1>5, <4>1, <4>2
    <3>. QED  BY <3>1, <3>2
  <2>. QED  BY <2>1, <2>2, <2>3, <2>4 DEF KeepOK, Planed, Image, Alone
<1>9. ASSUME NEW s \in Sources, NEW v \in Versions(s) PROVE CommitOK(s, v)'
  <2>. SUFFICES ASSUME Committed(s, v)' # None PROVE CommitOK(s, v)'
    BY DEF CommitOK
  <2>1. Committed(s, v)' = Committed(s, v) /\ CommitOK(s, v)
    BY <1>1 DEF Committed, KeepInv
  <2>. QED  BY <1>1, <1>6, <2>1 DEF CommitOK, GainKept, Alone, Image
<1>. QED  BY <1>7, <1>8, <1>9

\* The commit last, of planes and a gain that are there.
LEMMA CommitKeeps ==
  ASSUME IInv, KeepInv, NEW j \in Jobs, Commit(j)
  PROVE  KeepInv'
<1>1. /\ at[j] = "samples" /\ at' = [at EXCEPT ![j] = "done"]
      /\ commits' = [commits EXCEPT ![Name(j[2], key[j])] = CommitOf(j)]
      /\ UNCHANGED <<planes, gainFile, wrote, key, harmed>>
  BY DEF Commit, runVars, histVars
<1>2. image[j] = Image(j[2], key[j], key[j]) /\ j[2] \in Sources /\ key[j] \in Versions(j[2])
  BY <1>1, KeptVersion DEF IInv, JobOK, TurnOK, InFlight
<1>3. CacheShape'
  BY <1>1 DEF KeepInv, CacheShape
<1>. SUFFICES ASSUME ~harmed' PROVE /\ \A r \in Runs : \A g \in wrote'[r] : GainKept(g)'
                                    /\ \A i \in Jobs : KeepOK(i)'
                                    /\ \A s \in Sources : \A v \in Versions(s) : CommitOK(s, v)'
  BY <1>3 DEF KeepInv
<1>4. ASSUME NEW r \in Runs, NEW g \in wrote'[r] PROVE GainKept(g)'
  BY <1>1, <1>4 DEF KeepInv, GainKept
<1>5. ASSUME NEW i \in Jobs PROVE KeepOK(i)'
  <2>. SUFFICES ASSUME Keeping(i)' PROVE KeepOK(i)'
    BY DEF KeepOK
  <2>1. at'[i] = at[i] /\ key'[i] = key[i] /\ KeepOK(i)
    BY <1>1 DEF Keeping, IInv, TypeOK, KeepInv
  <2>. QED  BY <1>1, <2>1 DEF KeepOK, Keeping, GainKept, GainDue, Planed, Image, Alone
<1>6. ASSUME NEW s \in Sources, NEW v \in Versions(s) PROVE CommitOK(s, v)'
  <2>. SUFFICES ASSUME Committed(s, v)' # None PROVE CommitOK(s, v)'
    BY DEF CommitOK
  <2>1. Name(s, v) \in Stems
    BY VersionsAreNamed
  <2>2. commits'[Name(s, v)] \in {CommitOf(j), commits[Name(s, v)]}
    BY <1>1, <2>1 DEF IInv, TypeOK
  <2>3. CASE Committed(s, v)' = Committed(s, v)
    <3>1. CommitOK(s, v) /\ \A g : GainKept(g) => GainKept(g)'
      BY <1>1 DEF KeepInv, GainKept
    <3>. QED  BY <1>1, <2>3, <3>1, CommitFrame
  <2>4. CASE Committed(s, v)' = CommitOf(j) /\ j[2] = s /\ key[j] = v
    <3>1. KeepOK(j) /\ Keeping(j)
      BY <1>1 DEF KeepInv, Keeping
    <3>2. /\ Committed(s, v)'.digests = [role \in Roles |-> Image(s, v, v)]
          /\ Committed(s, v)'.gain = GainDue(j)
      BY <1>2, <2>4 DEF CommitOf
    <3>3. GainKept(GainDue(j))
      BY <3>1 DEF KeepOK
    <3>4. Alone(s, v) => \A role \in Roles : Planed(s, v, role)
      BY <1>1, <2>4, <3>1 DEF KeepOK, Roles
    <3>. QED  BY <1>1, <3>2, <3>3, <3>4 DEF CommitOK, GainKept, Planed, Image, Alone
  <2>. QED  BY <2>2, <2>3, <2>4 DEF Committed, CommitOf
<1>. QED  BY <1>4, <1>5, <1>6

\* An empty cache is whole.
LEMMA KeepInit == Init => KeepInv
<1>. SUFFICES ASSUME Init PROVE KeepInv
  OBVIOUS
<1>1. \A s \in Sources : \A v \in Versions(s) : Committed(s, v) = None
  BY VersionsAreNamed DEF Init, Committed
<1>. QED  BY <1>1 DEF Init, KeepInv, CacheShape, KeepOK, Keeping, CommitOK

\* Every step keeps the cache whole; damage ends the promise.
LEMMA KeepNext == IInv /\ KeepInv /\ [Next]_vars => KeepInv'
<1>. SUFFICES ASSUME IInv, KeepInv, [Next]_vars PROVE KeepInv'
  OBVIOUS
<1>1. ASSUME NEW j \in Jobs, KeepGain(j) \/ PublishChannels(j) \/ PublishSamples(j) \/ Commit(j)
      PROVE  KeepInv'
  BY <1>1, KeepGainKeeps, PublishKeeps, CommitKeeps
<1>2. ASSUME NEW j \in Jobs,
             \/ Probe(j) \/ Resolve(j) \/ Reuse(j) \/ StartDecode(j) \/ FinishDecode(j)
             \/ EnsureUnchanged(j) \/ Fail(j)
      PROVE  KeepInv'
  <2>1. UNCHANGED <<planes, commits, gainFile, wrote, harmed>>
    BY <1>2 DEF Probe, Resolve, ResolveAt, Reuse, StartDecode, FinishDecode, EnsureUnchanged,
                Fail, FailJob, dirVars, runVars, histVars
  <2>2. \E stop \in {"waiting", "resolved", "done", "decoding", "decoded", "unchanged", "gone"} :
            at' = [at EXCEPT ![j] = stop]
    BY <1>2 DEF Probe, Resolve, ResolveAt, Reuse, StartDecode, FinishDecode, EnsureUnchanged,
                Fail, FailJob
  <2>3. \A i \in Jobs \ {j} : key'[i] = key[i]
    BY <1>2 DEF Probe, Resolve, ResolveAt, Reuse, StartDecode, FinishDecode, EnsureUnchanged,
                Fail, FailJob, IInv, TypeOK
  <2>4. \A i \in Jobs : Keeping(i)' => at'[i] = at[i] /\ key'[i] = key[i]
    BY <2>2, <2>3 DEF Keeping, IInv, TypeOK
  <2>. QED  BY <2>1, <2>4, NothingKept DEF KeepInv, CacheShape
<1>3. ASSUME NEW r \in Runs, Start(r) \/ Peek(r) \/ Finish(r) \/ Cancel(r)
      PROVE  KeepInv'
  <2>1. UNCHANGED <<planes, commits, gainFile, wrote, harmed, at, key>>
    BY <1>3 DEF Start, Peek, Finish, Cancel, dirVars, jobVars, histVars
  <2>. QED  BY <2>1, NothingKept DEF KeepInv, CacheShape
<1>4. ASSUME NEW r \in Runs, Close(r) \/ Kill(r)
      PROVE  KeepInv'
  <2>1. UNCHANGED <<planes, commits, gainFile, harmed>> /\ NoRun(r)
    BY <1>4 DEF Close, Kill, dirVars
  <2>2. DOMAIN wrote' = Runs /\ \A q \in Runs : wrote'[q] \subseteq wrote[q]
    BY <2>1 DEF NoRun, KeepInv, CacheShape
  <2>3. \A i \in Jobs : Keeping(i)' => at'[i] = at[i] /\ key'[i] = key[i]
    BY <2>1 DEF NoRun, Keeping
  <2>. QED  BY <2>1, <2>2, <2>3, NothingKept
<1>5. ASSUME NEW s \in Sources, Rewrite(s) \/ Remove(s)
      PROVE  KeepInv'
  <2>1. UNCHANGED <<planes, commits, gainFile, wrote, harmed, at, key>>
    BY <1>5 DEF Rewrite, Remove, dirVars, runVars, jobVars
  <2>. QED  BY <2>1, NothingKept DEF KeepInv, CacheShape
<1>6. CASE Damage
  <2>1. harmed' /\ DOMAIN gainFile' = DOMAIN gainFile /\ wrote' = wrote
    BY <1>6 DEF Damage, runVars
  <2>2. planes' = [t \in Stems |-> [role \in Roles |-> planes'[t][role]]]
    BY <1>6 DEF Damage, KeepInv, CacheShape
  <2>. QED  BY <2>1, <2>2 DEF KeepInv, CacheShape
<1>7. CASE UNCHANGED vars
  <2>1. UNCHANGED <<planes, commits, gainFile, wrote, harmed, at, key>>
    BY <1>7 DEF vars, dirVars, runVars, jobVars, histVars
  <2>. QED  BY <2>1, NothingKept DEF KeepInv, CacheShape
<1>. QED  BY <1>1, <1>2, <1>3, <1>4, <1>5, <1>6, <1>7 DEF Next, JobStep

\* Wherever runs were killed, what a commit lists is there: each plane as it
\* was decoded, and the gain in its file, as long as nothing was damaged.
THEOREM CommitsAreWhole == Spec => []CommittedIsWhole
<1>1. KeepInv => CommittedIsWhole
  <2>. SUFFICES ASSUME KeepInv, ~harmed, NEW s \in Sources, NEW v \in Versions(s),
                       Alone(s, v), Committed(s, v) # None
                PROVE  /\ planes[Name(s, v)] = Committed(s, v).digests
                       /\ Committed(s, v).gain # None => gainFile[Committed(s, v).gain] = "whole"
    BY DEF CommittedIsWhole
  <2>1. CommitOK(s, v) /\ Name(s, v) \in Stems
    BY VersionsAreNamed DEF KeepInv
  <2>2. planes[Name(s, v)] = [role \in Roles |-> planes[Name(s, v)][role]]
    BY <2>1 DEF KeepInv, CacheShape
  <2>3. [role \in Roles |-> planes[Name(s, v)][role]] = [role \in Roles |-> Image(s, v, v)]
    BY <2>1 DEF CommitOK, Planed
  <2>. QED  BY <2>1, <2>2, <2>3 DEF CommitOK, GainKept
<1>2. Spec => []KeepInv
  BY InitInv, NextInv, KeepInit, KeepNext, PTL DEF Spec
<1>. QED  BY <1>1, <1>2, PTL

-----------------------------------------------------------------------------
(* What a run leaves when it ends well: the third invariant, of a run with  *)
(* no file changed or damaged since it began.  The versions it meets are    *)
(* then the ones its files have, so what it found committed still is, what  *)
(* it published is there, and each gain it holds is in its file or about to *)
(* be, by a frame still on its way to its keep.                             *)

NamesItsGain(c) == c.gain = GainIn(c.source, c.version)
CommitsNameGains ==
    /\ \A t \in Stems : commits[t] # None => NamesItsGain(commits[t])
    /\ \A j \in Jobs :
         /\ probe[j] # None => (probe[j].committed # None => NamesItsGain(probe[j].committed))
         /\ hit[j] # None => NamesItsGain(hit[j])

IsCommitted(s) == Committed(s, Now(s)) # None
GainComing(r, g) ==
    GainKept(g) \/ \E i \in JobsOf(r) : at[i] \in {"decoded", "unchanged"} /\ GainDue(i) = g

FrameHeals(j) ==
    /\ Keeping(j) => GainKept(GainDue(j))
    /\ at[j] = "done" => GainHeld(j[1], GainIn(j[2], Now(j[2])))
    /\ Alone(j[2], Now(j[2])) =>
        /\ probe[j] # None => (probe[j].committed # None => IsCommitted(j[2]))
        /\ at[j] = "resolved" /\ hit[j] # None => IsCommitted(j[2])
        /\ at[j] \in {"channels", "samples"} => Planed(j[2], Now(j[2]), "channels")
        /\ at[j] = "samples" => Planed(j[2], Now(j[2]), "samples")
        /\ at[j] = "done" =>
              IsCommitted(j[2]) /\ \A role \in RolesRead(j[1]) : Planed(j[2], Now(j[2]), role)

Undisturbed(r) == calm[r] /\ phase[r] \in {"probing", "loading", "done"}
RunHeals(r) ==
    /\ \A g \in wrote[r] : GainKept(g)
    /\ \A g \in held[r] : GainComing(r, g)
    /\ \A j \in JobsOf(r) : since[j] = Now(j[2]) /\ FrameHeals(j)
    /\ phase[r] = "done" => \A j \in JobsOf(r) : at[j] = "done"

HealInv ==
    /\ CommitsNameGains
    /\ DOMAIN held = Runs /\ DOMAIN calm = Runs /\ DOMAIN mode = Runs
    /\ \A r \in Runs : phase[r] = "off" => held[r] = {} /\ wrote[r] = {}
    /\ \A r \in Runs : Undisturbed(r) => RunHeals(r)

-----------------------------------------------------------------------------
\* The gain a version of a file carries, and the frame it is of.
LEMMA GainInType ==
  ASSUME NEW s \in Sources, NEW v \in Versions(s)
  PROVE  GainIn(s, v) \in Gains \cup {None}
<1>1. <<s, v>> \in FileVersions
  BY DEF FileVersions
<1>. QED  BY <1>1, KeyAssumption DEF GainIn

\* Planes are written of the very version their name is of: what is whole under
\* a name of one frame stays so, whoever writes it again.
LEMMA PlanesStay ==
  ASSUME IInv, CacheShape, NEW j \in Jobs, PublishChannels(j) \/ PublishSamples(j),
         NEW s \in Sources, NEW v \in Versions(s), NEW p \in Roles, Alone(s, v), Planed(s, v, p)
  PROVE  Planed(s, v, p)'
<1>1. PICK role \in Roles :
        /\ at[j] = (IF role = "channels" THEN "gain" ELSE "channels")
        /\ planes' = [planes EXCEPT ![Name(j[2], key[j])][role] = image[j]]
  BY DEF PublishChannels, PublishSamples, Publish, Roles
<1>2. image[j] = Image(j[2], key[j], key[j]) /\ j[2] \in Sources /\ key[j] \in Versions(j[2])
  BY <1>1, KeptVersion DEF IInv, JobOK, TurnOK, InFlight
<1>3. <<j[2], key[j]>> \in FileVersions /\ Name(j[2], key[j]) \in Stems /\ Name(s, v) \in Stems
  BY <1>2, VersionsAreNamed DEF FileVersions
<1>4. CASE Name(j[2], key[j]) = Name(s, v)
  <2>1. <<j[2], key[j]>> = <<s, v>>
    BY <1>3, <1>4 DEF Alone, Name
  <2>. QED  BY <1>1, <1>2, <1>3, <2>1 DEF Planed, CacheShape, Image
<1>5. CASE Name(j[2], key[j]) # Name(s, v)
  BY <1>1, <1>3, <1>5 DEF Planed, CacheShape, Image
<1>. QED  BY <1>4, <1>5

-----------------------------------------------------------------------------
\* What a step that damages nothing keeps of the cache's files.
Grows ==
    /\ \A g : GainKept(g) => GainKept(g)'
    /\ \A s \in Sources : \A v \in Versions(s) : Alone(s, v) =>
          /\ \A role \in Roles : Planed(s, v, role) => Planed(s, v, role)'
          /\ Committed(s, v) # None => Committed(s, v)' # None

\* Nothing is written.
LEMMA SameGrows == UNCHANGED dirVars => Grows
BY DEF dirVars, Grows, GainKept, Planed, Committed, Name, Image

\* A commit written is not the lack of one.
LEMMA CommitIsOne ==
  ASSUME IInv, NEW j \in Jobs, at[j] = "samples"
  PROVE  CommitOf(j) # None
<1>1. j[2] \in Sources /\ key[j] \in Versions(j[2]) /\ key[j] \in Nat
  BY KeptVersion DEF InFlight, IInv, TypeOK
<1>2. image[j] = <<j[2], key[j], key[j]>>
  BY DEF IInv, JobOK, TurnOK, Image
<1>3. GainDue(j) \in Gains \cup {None}
  BY <1>1, GainInType DEF GainDue
<1>4. [role \in Roles |-> image[j]] \in [Roles -> Sources \X Nat \X Nat]
  BY <1>1, <1>2
<1>5. CommitOf(j) \in [source : Sources, version : Nat, gain : Gains \cup {None},
                       digests : [Roles -> Sources \X Nat \X Nat]]
  BY <1>1, <1>3, <1>4 DEF CommitOf
<1>. QED  BY <1>5, CommitAssumption

\* A keep writes a gain, a plane or a commit.
LEMMA KeepGrows ==
  ASSUME IInv, CacheShape, NEW j \in Jobs,
         KeepGain(j) \/ PublishChannels(j) \/ PublishSamples(j) \/ Commit(j)
  PROVE  Grows
<1>1. CASE KeepGain(j)
  <2>1. \A g : GainKept(g) => GainKept(g)'
    BY <1>1 DEF KeepGain, CacheShape, GainKept
  <2>2. UNCHANGED <<planes, commits>>
    BY <1>1 DEF KeepGain
  <2>. QED  BY <2>1, <2>2 DEF Grows, Planed, Committed, Name, Image
<1>2. CASE PublishChannels(j) \/ PublishSamples(j)
  <2>1. UNCHANGED <<commits, gainFile>>
    BY <1>2 DEF PublishChannels, PublishSamples, Publish
  <2>2. \A g : GainKept(g) => GainKept(g)'
    BY <2>1 DEF GainKept
  <2>3. ASSUME NEW s \in Sources, NEW v \in Versions(s) PROVE Committed(s, v)' = Committed(s, v)
    BY <2>1 DEF Committed, Name
  <2>. QED  BY <1>2, <2>2, <2>3, PlanesStay DEF Grows
<1>3. CASE Commit(j)
  <2>1. /\ UNCHANGED <<planes, gainFile>> /\ at[j] = "samples"
        /\ commits' = [commits EXCEPT ![Name(j[2], key[j])] = CommitOf(j)]
    BY <1>3 DEF Commit
  <2>2. j[2] \in Sources /\ key[j] \in Versions(j[2])
    BY <2>1, KeptVersion DEF InFlight
  <2>3. <<j[2], key[j]>> \in FileVersions /\ Name(j[2], key[j]) \in Stems
    BY <2>2, VersionsAreNamed DEF FileVersions
  <2>4. ASSUME NEW s \in Sources, NEW v \in Versions(s), Alone(s, v), Committed(s, v) # None
        PROVE  Committed(s, v)' # None
    <3>1. Name(s, v) \in Stems
      BY VersionsAreNamed
    <3>2. CASE Name(j[2], key[j]) = Name(s, v)
      <4>1. <<j[2], key[j]>> = <<s, v>>
        BY <2>3, <2>4, <3>2 DEF Alone, Name
      <4>2. commits'[Name(s, v)] = CommitOf(j)
        BY <2>1, <3>1, <3>2 DEF IInv, TypeOK
      <4>3. CommitOf(j).source = s /\ CommitOf(j).version = v /\ CommitOf(j) # None
        BY <2>1, <2>2, <4>1, CommitIsOne DEF CommitOf
      <4>. QED  BY <4>2, <4>3 DEF Committed, Name
    <3>3. CASE Name(j[2], key[j]) # Name(s, v)
      BY <2>1, <2>4, <3>1, <3>3 DEF Committed, Name, IInv, TypeOK
    <3>. QED  BY <3>2, <3>3
  <2>5. \A g : GainKept(g) => GainKept(g)'
    BY <2>1 DEF GainKept
  <2>. QED  BY <2>1, <2>4, <2>5 DEF Grows, Planed, Name, Image
<1>. QED  BY <1>1, <1>2, <1>3

-----------------------------------------------------------------------------
\* Every commit names the gain of the version it is of.

\* What is found committed is a commit there is.
LEMMA CommittedIsThere ==
  ASSUME NEW s \in Sources, NEW v \in Versions(s), Committed(s, v) # None
  PROVE  /\ Name(s, v) \in Stems /\ Committed(s, v) = commits[Name(s, v)]
         /\ commits[Name(s, v)] # None
BY VersionsAreNamed DEF Committed

\* A commit is written with the gain of its key, a probe and a hit are of commits.
LEMMA GainsStep == IInv /\ CommitsNameGains /\ [Next]_vars => CommitsNameGains'
<1>. SUFFICES ASSUME IInv, CommitsNameGains, [Next]_vars PROVE CommitsNameGains'
  OBVIOUS
<1>. DEFINE Honoured(c) == c # None => NamesItsGain(c)
            Found == {None} \cup {Committed(s, v) : s \in Sources, v \in Nat}
<1>1. \A j \in Jobs : j[2] \in Sources /\ Now(j[2]) \in Versions(j[2]) /\ Now(j[2]) \in Nat
  BY JobParts DEF IInv, TypeOK, Now
<1>2. \A j \in Jobs : Honoured(Committed(j[2], Now(j[2])))
  <2>. SUFFICES ASSUME NEW j \in Jobs, Committed(j[2], Now(j[2])) # None
                PROVE  NamesItsGain(Committed(j[2], Now(j[2])))
    OBVIOUS
  <2>1. PICK t \in Stems : Committed(j[2], Now(j[2])) = commits[t] /\ commits[t] # None
    BY <1>1, CommittedIsThere
  <2>. QED  BY <2>1 DEF CommitsNameGains
<1>3. \A t \in Stems : Honoured(commits'[t])
  <2>1. CASE \E j \in Jobs : Commit(j)
    <3>1. PICK j \in Jobs : Commit(j)
      BY <2>1
    <3>2. \A t \in Stems : commits'[t] \in {commits[t], CommitOf(j)}
      BY <3>1 DEF Commit, IInv, TypeOK
    <3>3. NamesItsGain(CommitOf(j))
      BY DEF NamesItsGain, CommitOf, GainDue
    <3>. QED  BY <3>2, <3>3 DEF CommitsNameGains
  <2>2. CASE Damage
    <3>1. \A t \in Stems : commits'[t] \in {commits[t], None}
      BY <2>2 DEF Damage, IInv, TypeOK
    <3>. QED  BY <3>1 DEF CommitsNameGains
  <2>3. CASE ~Damage /\ ~(\E j \in Jobs : Commit(j))
    <3>1. commits' = commits
      BY <2>3 DEF Next, JobStep, Probe, Resolve, ResolveAt, Reuse, StartDecode, FinishDecode,
                  EnsureUnchanged, Fail, FailJob, KeepGain, PublishChannels, PublishSamples, Publish,
                  Start, Peek, Finish, Cancel, Close, Kill, Rewrite, Remove, dirVars, vars
    <3>. QED  BY <3>1 DEF CommitsNameGains
  <2>. QED  BY <2>1, <2>2, <2>3
<1>4. ASSUME NEW j \in Jobs PROVE probe'[j] # None => Honoured(probe'[j].committed)
  <2>1. CASE \E i \in Jobs : Probe(i)
    <3>1. PICK i \in Jobs : Probe(i)
      BY <2>1
    <3>2. \/ probe'[j] \in {probe[j], None}
          \/ i = j /\ probe'[j] = [version |-> Now(i[2]), committed |-> Committed(i[2], Now(i[2]))]
      BY <3>1 DEF Probe, IInv, TypeOK
    <3>. QED  BY <1>2, <3>2 DEF CommitsNameGains
  <2>2. CASE ~(\E i \in Jobs : Probe(i))
    <3>1. \/ probe' = probe
          \/ \E i \in Jobs : probe' = [probe EXCEPT ![i] = None]
          \/ \E r \in Runs : probe' = [i \in Jobs |-> IF i[1] = r THEN None ELSE probe[i]]
      BY <2>2 DEF Next, JobStep, Resolve, ResolveAt, Reuse, StartDecode, FinishDecode,
                  EnsureUnchanged, Fail, FailJob, KeepGain, PublishChannels, PublishSamples, Publish,
                  Commit, Start, Peek, Finish, Cancel, Close, Kill, NoRun, Rewrite, Remove, Damage,
                  vars, jobVars
    <3>2. probe'[j] \in {probe[j], None}
      BY <3>1 DEF IInv, TypeOK
    <3>. QED  BY <3>2 DEF CommitsNameGains
  <2>. QED  BY <2>1, <2>2
<1>5. ASSUME NEW j \in Jobs PROVE Honoured(hit'[j])
  <2>1. CASE \E i \in Jobs : Resolve(i)
    <3>1. PICK i \in Jobs : Resolve(i)
      BY <2>1
    <3>2. \/ hit'[j] \in {hit[j], None}
          \/ i = j /\ hit'[j] = Committed(i[2], Now(i[2]))
          \/ i = j /\ probe[i] # None /\ hit'[j] = probe[i].committed
      BY <3>1 DEF Resolve, ResolveAt, FailJob, ProbeStands, IInv, TypeOK
    <3>. QED  BY <1>2, <3>2 DEF CommitsNameGains
  <2>2. CASE ~(\E i \in Jobs : Resolve(i))
    <3>1. \/ hit' = hit
          \/ \E i \in Jobs : hit' = [hit EXCEPT ![i] = None]
          \/ \E r \in Runs : hit' = [i \in Jobs |-> IF i[1] = r THEN None ELSE hit[i]]
      BY <2>2 DEF Next, JobStep, Probe, Reuse, StartDecode, FinishDecode,
                  EnsureUnchanged, Fail, FailJob, KeepGain, PublishChannels, PublishSamples, Publish,
                  Commit, Start, Peek, Finish, Cancel, Close, Kill, NoRun, Rewrite, Remove, Damage,
                  vars, jobVars
    <3>2. hit'[j] \in {hit[j], None}
      BY <3>1 DEF IInv, TypeOK
    <3>. QED  BY <3>2 DEF CommitsNameGains
  <2>. QED  BY <2>1, <2>2
<1>6. \A c : NamesItsGain(c)' <=> NamesItsGain(c)
  OBVIOUS
<1>. QED  BY <1>3, <1>4, <1>5 DEF CommitsNameGains, NamesItsGain

-----------------------------------------------------------------------------
\* A run nothing disturbs.

\* The versions it meets are all the one its files have.
LEMMA CalmVersions ==
  ASSUME IInv, NEW j \in Jobs, since[j] = Now(j[2])
  PROVE  /\ j[2] \in Sources /\ Now(j[2]) \in Versions(j[2])
         /\ InFlight(j) => key[j] = Now(j[2])
         /\ probe[j] # None => probe[j].version = Now(j[2])
         /\ PeekedFor(j) => early[j[1]].version = Now(j[2])
<1>1. j[2] \in Sources /\ Now(j[2]) \in Versions(j[2]) /\ Now(j[2]) \in Nat /\ JobOK(j)
  BY JobParts DEF IInv, TypeOK, Now
<1>2. \A k \in Now(j[2])..Now(j[2]) : k = Now(j[2])
  BY <1>1
<1>. QED  BY <1>1, <1>2 DEF JobOK, ProbeOK, PeekOK, TurnOK

\* What a frame has come to stays while the cache only grows.
LEMMA FrameStays ==
  ASSUME IInv, NEW j \in Jobs, since[j] = Now(j[2]), FrameHeals(j), Grows, file' = file,
         at'[j] = at[j], key'[j] = key[j], mode'[j[1]] = mode[j[1]],
         probe'[j] \in {probe[j], None}, hit'[j] \in {hit[j], None},
         held[j[1]] \subseteq held'[j[1]]
  PROVE  FrameHeals(j)'
<1>. DEFINE s == j[2]
            v == Now(j[2])
<1>1. s \in Sources /\ v \in Versions(s)
  BY CalmVersions
<1>2. Now(j[2])' = v
  BY DEF Now
<1>3. Keeping(j)' => GainKept(GainDue(j))'
  BY DEF FrameHeals, Keeping, Grows, GainDue, GainKept
<1>4. at'[j] = "done" => GainHeld(j[1], GainIn(j[2], v))'
  <2>. SUFFICES ASSUME at'[j] = "done" PROVE GainHeld(j[1], GainIn(s, v))'
    OBVIOUS
  <2>1. GainHeld(j[1], GainIn(s, v))
    BY DEF FrameHeals
  <2>2. GainIn(s, v) \in Gains \cup {None}
    BY <1>1, GainInType
  <2>3. PICK g : g = GainIn(s, v)
    OBVIOUS
  <2>4. gainFile[g] = "whole" /\ g # None => gainFile'[g] = "whole"
    BY <2>2, <2>3 DEF Grows, GainKept
  <2>5. GainIn(s, v)' = g
    BY <1>2, <2>3
  <2>. QED  BY <2>1, <2>3, <2>4, <2>5 DEF GainHeld
<1>5. ASSUME Alone(s, v)
      PROVE  /\ IsCommitted(s) => IsCommitted(s)'
             /\ \A role \in Roles : Planed(s, v, role) => Planed(s, v, role)'
  BY <1>1, <1>2, <1>5 DEF Grows, IsCommitted
<1>6. RolesRead(j[1])' = RolesRead(j[1]) /\ RolesRead(j[1]) \subseteq Roles
  BY DEF RolesRead, Roles
<1>7. Alone(s, v)' <=> Alone(s, v)
  BY <1>2 DEF Alone, Name
<1>8. ASSUME Alone(s, v)
      PROVE  /\ probe'[j] # None => (probe'[j].committed # None => IsCommitted(s)')
             /\ at'[j] = "resolved" /\ hit'[j] # None => IsCommitted(s)'
             /\ at'[j] \in {"channels", "samples"} => Planed(s, v, "channels")'
             /\ at'[j] = "samples" => Planed(s, v, "samples")'
             /\ at'[j] = "done" => IsCommitted(s)' /\ \A role \in RolesRead(j[1]) : Planed(s, v, role)'
  BY <1>5, <1>6, <1>8 DEF FrameHeals, Roles
<1>. QED  BY <1>2, <1>3, <1>4, <1>6, <1>7, <1>8 DEF FrameHeals, Planed, Image, Keeping

\* A gain held is still to come while no decode that owes it is lost.
LEMMA ComingStays ==
  ASSUME Grows, NEW r, NEW g, GainComing(r, g),
         \A i \in JobsOf(r) : at[i] \in {"decoded", "unchanged"} =>
            /\ key'[i] = key[i]
            /\ at'[i] \in {"decoded", "unchanged"} \/ GainKept(GainDue(i))'
  PROVE  GainComing(r, g)'
<1>1. CASE GainKept(g)
  BY <1>1 DEF Grows, GainComing
<1>2. ASSUME NEW i \in JobsOf(r), at[i] \in {"decoded", "unchanged"}, GainDue(i) = g
      PROVE  GainComing(r, g)'
  <2>1. GainDue(i)' = g /\ i \in JobsOf(r)'
    BY <1>2 DEF GainDue, JobsOf
  <2>2. CASE at'[i] \in {"decoded", "unchanged"}
    BY <2>1, <2>2 DEF GainComing
  <2>3. CASE GainKept(GainDue(i))'
    BY <2>1, <2>3 DEF GainComing, GainKept
  <2>. QED  BY <1>2, <2>2, <2>3
<1>. QED  BY <1>1, <1>2 DEF GainComing

\* A run a step leaves alone, or takes no further than its end.
LEMMA RunStays ==
  ASSUME IInv, NEW r \in Runs, Undisturbed(r) => RunHeals(r), Undisturbed(r), Grows, file' = file,
         mode'[r] = mode[r], held'[r] = held[r], wrote'[r] = wrote[r],
         phase'[r] = "done" => phase[r] = "done" \/ \A j \in JobsOf(r) : at[j] = "done",
         \A j \in JobsOf(r) : /\ at'[j] = at[j] /\ key'[j] = key[j] /\ since'[j] = since[j]
                              /\ probe'[j] = probe[j] /\ hit'[j] = hit[j]
  PROVE  RunHeals(r)'
<1>1. \A j \in JobsOf(r) : j \in Jobs /\ j[1] = r
  BY DEF JobsOf
<1>2. \A j \in JobsOf(r) : since'[j] = Now(j[2])' /\ FrameHeals(j)'
  BY <1>1, FrameStays DEF RunHeals, Now
<1>3. \A g \in held'[r] : GainComing(r, g)'
  BY ComingStays DEF RunHeals
<1>4. \A g \in wrote'[r] : GainKept(g)'
  BY DEF RunHeals, Grows
<1>5. phase'[r] = "done" => \A j \in JobsOf(r) : at'[j] = "done"
  BY DEF RunHeals
<1>6. JobsOf(r)' = JobsOf(r)
  BY DEF JobsOf
<1>. QED  BY <1>2, <1>3, <1>4, <1>5, <1>6 DEF RunHeals

\* One of its frames goes on.
LEMMA RunGoesOn ==
  ASSUME IInv, NEW j \in Jobs, RunHeals(j[1]), Grows, file' = file, since' = since, mode' = mode,
         \A i \in Jobs \ {j} : /\ at'[i] = at[i] /\ key'[i] = key[i]
                               /\ probe'[i] = probe[i] /\ hit'[i] = hit[i],
         FrameHeals(j)', held[j[1]] \subseteq held'[j[1]],
         \A g \in held'[j[1]] : GainComing(j[1], g)', \A g \in wrote'[j[1]] : GainKept(g)',
         phase'[j[1]] # "done"
  PROVE  RunHeals(j[1])'
<1>1. ASSUME NEW i \in JobsOf(j[1]) PROVE since'[i] = Now(i[2])' /\ FrameHeals(i)'
  <2>1. i \in Jobs /\ i[1] = j[1]
    BY DEF JobsOf
  <2>2. since'[i] = Now(i[2])'
    BY DEF RunHeals, Now
  <2>3. CASE i = j
    BY <2>2, <2>3
  <2>4. CASE i # j
    BY <2>1, <2>2, <2>4, FrameStays DEF RunHeals
  <2>. QED  BY <2>3, <2>4
<1>2. JobsOf(j[1])' = JobsOf(j[1])
  BY DEF JobsOf
<1>. QED  BY <1>1, <1>2 DEF RunHeals

\* What a step of one frame's job leaves alone.
LEMMA JobStepFrame ==
  ASSUME IInv, KeepInv, HealInv, NEW j \in Jobs, JobStep(j)
  PROVE  /\ UNCHANGED <<file, since, mode, calm, starts>> /\ Grows
         /\ \A i \in Jobs \ {j} : /\ at'[i] = at[i] /\ key'[i] = key[i]
                                  /\ probe'[i] = probe[i] /\ hit'[i] = hit[i]
         /\ \A r \in Runs \ {j[1]} : /\ phase'[r] = phase[r] /\ held'[r] = held[r]
                                     /\ wrote'[r] = wrote[r]
         /\ DOMAIN held' = Runs
         /\ phase[j[1]] \in {"probing", "loading", "failed"}
         /\ phase'[j[1]] = phase[j[1]] \/ (phase'[j[1]] = "failed" /\ \E i \in {j} : FailJob(i))
<1>1. Grows
  <2>1. CASE KeepGain(j) \/ PublishChannels(j) \/ PublishSamples(j) \/ Commit(j)
    BY <2>1, KeepGrows DEF KeepInv
  <2>2. CASE ~(KeepGain(j) \/ PublishChannels(j) \/ PublishSamples(j) \/ Commit(j))
    <3>1. UNCHANGED dirVars
      BY <2>2 DEF JobStep, Probe, Resolve, ResolveAt, Reuse, StartDecode, FinishDecode,
                  EnsureUnchanged, Fail, FailJob, dirVars
    <3>. QED  BY <3>1, SameGrows
  <2>. QED  BY <2>1, <2>2
<1>. USE DEF JobStep, Probe, Resolve, ResolveAt, Reuse, StartDecode, FinishDecode,
             EnsureUnchanged, Fail, FailJob, KeepGain, PublishChannels, PublishSamples, Publish,
             Commit
<1>2. UNCHANGED <<file, since, mode, calm, starts>>
  BY DEF runVars, histVars
<1>3. ASSUME NEW i \in Jobs \ {j} PROVE at'[i] = at[i] /\ key'[i] = key[i]
  BY DEF IInv, TypeOK
<1>4. ASSUME NEW i \in Jobs \ {j} PROVE probe'[i] = probe[i] /\ hit'[i] = hit[i]
  BY DEF IInv, TypeOK
<1>5. ASSUME NEW r \in Runs \ {j[1]} PROVE phase'[r] = phase[r]
  BY DEF IInv, TypeOK, runVars
<1>6. DOMAIN held' = Runs /\ \A r \in Runs \ {j[1]} : held'[r] = held[r]
  BY DEF HealInv, runVars, Share
<1>7. ASSUME NEW r \in Runs \ {j[1]} PROVE wrote'[r] = wrote[r]
  BY DEF KeepInv, CacheShape, runVars
<1>8. phase[j[1]] \in {"probing", "loading", "failed"}
  BY DEF Going
<1>9. phase'[j[1]] = phase[j[1]] \/ (phase'[j[1]] = "failed" /\ \E i \in {j} : FailJob(i))
  <2>1. CASE phase' = phase
    BY <2>1
  <2>2. CASE FailJob(j)
    BY <2>2, JobParts DEF IInv, TypeOK
  <2>. QED  BY <2>1, <2>2 DEF runVars
<1>. QED  BY <1>1, <1>2, <1>3, <1>4, <1>5, <1>6, <1>7, <1>8, <1>9

\* What a step of one frame's job gives its run, when nothing disturbs it.
JobGoes(j) ==
    /\ FrameHeals(j)'
    /\ at[j] \in {"decoded", "unchanged"} =>
          key'[j] = key[j] /\ (at'[j] \in {"decoded", "unchanged"} \/ GainKept(GainDue(j))')
    /\ held[j[1]] \subseteq held'[j[1]]
    /\ \A g \in held'[j[1]] \ held[j[1]] : GainComing(j[1], g)'
    /\ \A g \in wrote'[j[1]] : GainKept(g)'

\* Given that, every run a step of a job leaves undisturbed heals.
LEMMA JobHeals ==
  ASSUME IInv, KeepInv, HealInv, NEW j \in Jobs, JobStep(j), CommitsNameGains',
         Undisturbed(j[1]) /\ RunHeals(j[1]) /\ phase'[j[1]] = phase[j[1]] => JobGoes(j)
  PROVE  HealInv'
<1>1. /\ UNCHANGED <<file, since, mode, calm>> /\ Grows
      /\ \A i \in Jobs \ {j} : /\ at'[i] = at[i] /\ key'[i] = key[i]
                               /\ probe'[i] = probe[i] /\ hit'[i] = hit[i]
      /\ \A r \in Runs \ {j[1]} : phase'[r] = phase[r] /\ held'[r] = held[r] /\ wrote'[r] = wrote[r]
      /\ DOMAIN held' = Runs
      /\ phase[j[1]] \in {"probing", "loading", "failed"}
      /\ phase'[j[1]] \in {phase[j[1]], "failed"}
  BY JobStepFrame
<1>2. ASSUME NEW r \in Runs, phase'[r] = "off" PROVE held'[r] = {} /\ wrote'[r] = {}
  BY <1>1, <1>2 DEF HealInv
<1>3. ASSUME NEW r \in Runs, Undisturbed(r)' PROVE RunHeals(r)'
  <2>1. Undisturbed(r) /\ phase'[r] = phase[r]
    BY <1>1, <1>3 DEF Undisturbed
  <2>2. RunHeals(r)
    BY <2>1 DEF HealInv
  <2>3. CASE r # j[1]
    <3>1. \A i \in JobsOf(r) : i \in Jobs \ {j}
      BY <2>3 DEF JobsOf
    <3>. QED  BY <1>1, <2>1, <2>2, <2>3, <3>1, RunStays DEF RunHeals
  <2>4. CASE r = j[1]
    <3>1. JobGoes(j)
      BY <2>1, <2>2, <2>4
    <3>2. ASSUME NEW g \in held[j[1]] PROVE GainComing(j[1], g)'
      <4>1. GainComing(j[1], g)
        BY <2>2, <2>4 DEF RunHeals
      <4>2. \A i \in JobsOf(j[1]) : at[i] \in {"decoded", "unchanged"} =>
              /\ key'[i] = key[i]
              /\ at'[i] \in {"decoded", "unchanged"} \/ GainKept(GainDue(i))'
        BY <1>1, <3>1 DEF JobGoes, JobsOf
      <4>. QED  BY <1>1, <4>1, <4>2, ComingStays
    <3>3. \A g \in held'[j[1]] : GainComing(j[1], g)'
      BY <3>1, <3>2 DEF JobGoes
    <3>4. phase'[j[1]] # "done"
      BY <1>1
    <3>5. /\ FrameHeals(j)' /\ held[j[1]] \subseteq held'[j[1]]
          /\ \A g \in wrote'[j[1]] : GainKept(g)'
      BY <3>1 DEF JobGoes
    <3>. QED  BY <1>1, <2>2, <2>4, <3>3, <3>4, <3>5, RunGoesOn
  <2>. QED  BY <2>3, <2>4
<1>. QED  BY <1>1, <1>2, <1>3 DEF HealInv

\* A frame of a run nothing disturbs: what its step finds.
LEMMA FrameOfRun ==
  ASSUME IInv, NEW j \in Jobs, RunHeals(j[1])
  PROVE  /\ since[j] = Now(j[2]) /\ FrameHeals(j) /\ j[1] \in Runs
         /\ j[2] \in Sources /\ Now(j[2]) \in Versions(j[2]) /\ Now(j[2]) \in Nat
         /\ GainIn(j[2], Now(j[2])) \in Gains \cup {None}
<1>1. since[j] = Now(j[2]) /\ FrameHeals(j)
  BY DEF RunHeals, JobsOf
<1>. QED  BY <1>1, JobParts, GainInType DEF IInv, TypeOK, Now

\* A step that shares no gain and loses no decode is only of its frame.
LEMMA OnlyTheFrame ==
  ASSUME KeepInv, NEW j \in Jobs, RunHeals(j[1]), UNCHANGED <<held, wrote, gainFile>>, FrameHeals(j)',
         at[j] \in {"decoded", "unchanged"} =>
            key'[j] = key[j] /\ at'[j] \in {"decoded", "unchanged"}
  PROVE  JobGoes(j)
<1>1. \A g \in wrote'[j[1]] : GainKept(g)'
  BY DEF RunHeals, GainKept
<1>. QED  BY <1>1 DEF JobGoes

\* probe: of the version the run began with, and what is committed for it.
LEMMA ProbeGoes ==
  ASSUME IInv, KeepInv, HealInv, NEW j \in Jobs, Probe(j), RunHeals(j[1])
  PROVE  JobGoes(j)
<1>. DEFINE s == j[2]
            v == Now(j[2])
<1>1. /\ at[j] = "idle" /\ at'[j] = "waiting"
      /\ probe'[j] # None => probe'[j] = [version |-> v, committed |-> Committed(s, v)]
      /\ UNCHANGED <<file, commits, gainFile, held, wrote>>
  BY DEF Probe, IInv, TypeOK, dirVars, runVars
<1>2. Committed(s, v)' = Committed(s, v) /\ Now(s)' = v
  BY <1>1 DEF Committed, Name, Now
<1>3. probe'[j] # None => (probe'[j].committed # None => IsCommitted(s)')
  BY <1>1, <1>2 DEF IsCommitted
<1>4. FrameHeals(j)'
  BY <1>1, <1>3 DEF FrameHeals, Keeping
<1>. QED  BY <1>1, <1>4, OnlyTheFrame

\* resolve: at that version again.
LEMMA ResolveGoes ==
  ASSUME IInv, KeepInv, HealInv, NEW j \in Jobs, Resolve(j), RunHeals(j[1]),
         phase'[j[1]] = phase[j[1]]
  PROVE  JobGoes(j)
<1>. DEFINE s == j[2]
            v == Now(j[2])
<1>1. ~FailJob(j)
  BY JobParts DEF FailJob, Resolve, IInv, TypeOK
<1>2. /\ at[j] = "waiting" /\ at'[j] = "resolved" /\ probe'[j] = None
      /\ \/ hit'[j] = Committed(s, v)
         \/ probe[j] # None /\ hit'[j] = probe[j].committed
      /\ UNCHANGED <<file, commits, gainFile, held, wrote>>
  BY <1>1 DEF Resolve, ResolveAt, ProbeStands, IInv, TypeOK, dirVars, runVars
<1>3. IsCommitted(s)' <=> Committed(s, v) # None
  BY <1>2 DEF IsCommitted, Committed, Name, Now
<1>4. Alone(s, v)' <=> Alone(s, v)
  BY <1>2 DEF Alone, Name, Now
<1>5. Now(s)' = v
  BY <1>2 DEF Now
<1>6. Alone(s, v) => (hit'[j] # None => IsCommitted(s)')
  BY <1>2, <1>3, FrameOfRun DEF FrameHeals, IsCommitted
<1>7. FrameHeals(j)'
  BY <1>2, <1>4, <1>5, <1>6 DEF FrameHeals, Keeping
<1>. QED  BY <1>2, <1>7, OnlyTheFrame

\* The gain of a commit found is the one its version carries.
LEMMA HitNamesItsGain ==
  ASSUME IInv, HealInv, NEW j \in Jobs, RunHeals(j[1]), at[j] = "resolved", hit[j] # None
  PROVE  hit[j].gain = GainIn(j[2], Now(j[2])) /\ Honest(hit[j], j[2], Now(j[2]))
         /\ key[j] = Now(j[2])
<1>1. key[j] = Now(j[2])
  BY FrameOfRun, CalmVersions DEF InFlight
<1>2. Honest(hit[j], j[2], Now(j[2]))
  BY <1>1 DEF IInv, JobOK, TurnOK
<1>3. NamesItsGain(hit[j])
  BY DEF HealInv, CommitsNameGains
<1>. QED  BY <1>1, <1>2, <1>3 DEF NamesItsGain, Honest

\* A gain is shared that the run had, or that is in its file.
LEMMA ShareHeld ==
  ASSUME HealInv, NEW r \in Runs, NEW g \in Gains \cup {None}, Share(r, g), gainFile' = gainFile,
         GainHeld(r, g)
  PROVE  /\ held[r] \subseteq held'[r]
         /\ \A h \in held'[r] \ held[r] : GainComing(r, h)'
         /\ GainHeld(r, g)'
<1>1. held'[r] = IF g = None THEN held[r] ELSE held[r] \cup {g}
  BY DEF Share, HealInv
<1>2. ASSUME NEW h \in held'[r] \ held[r] PROVE GainComing(r, h)'
  <2>1. h = g /\ g # None /\ gainFile[g] = "whole"
    BY <1>1, <1>2 DEF GainHeld
  <2>2. GainKept(h)'
    BY <2>1 DEF GainKept
  <2>. QED  BY <2>2 DEF GainComing
<1>3. GainHeld(r, g)'
  BY <1>1 DEF GainHeld
<1>. QED  BY <1>1, <1>2, <1>3

\* A reuse is of a commit that is there, with its planes and its gain.
LEMMA ReuseGoes ==
  ASSUME IInv, KeepInv, HealInv, NEW j \in Jobs, Reuse(j), RunHeals(j[1])
  PROVE  JobGoes(j)
<1>. DEFINE s == j[2]
            v == Now(j[2])
<1>1. /\ at[j] = "resolved" /\ at'[j] = "done" /\ hit[j] # None /\ Whole(j)
      /\ GainHeld(j[1], hit[j].gain) /\ Share(j[1], hit[j].gain)
      /\ UNCHANGED <<file, planes, commits, gainFile, mode, wrote, probe>>
  BY DEF Reuse, Reusable, IInv, TypeOK, dirVars
<1>2. hit[j].gain = GainIn(s, v) /\ Honest(hit[j], s, v) /\ key[j] = v
  BY <1>1, HitNamesItsGain
<1>3. GainIn(s, v) \in Gains \cup {None} /\ j[1] \in Runs
  BY FrameOfRun
<1>4. /\ held[j[1]] \subseteq held'[j[1]]
      /\ \A h \in held'[j[1]] \ held[j[1]] : GainComing(j[1], h)'
      /\ GainHeld(j[1], GainIn(s, v))'
  <2>1. Share(j[1], GainIn(s, v)) /\ GainHeld(j[1], GainIn(s, v))
    BY <1>1, <1>2
  <2>2. PICK g \in Gains \cup {None} : g = GainIn(s, v)
    BY <1>3
  <2>3. GainIn(s, v)' = g
    BY <1>1, <2>2 DEF Now
  <2>4. /\ held[j[1]] \subseteq held'[j[1]]
        /\ \A h \in held'[j[1]] \ held[j[1]] : GainComing(j[1], h)'
        /\ GainHeld(j[1], g)'
    BY <1>1, <1>3, <2>1, <2>2, ShareHeld
  <2>. QED  BY <2>3, <2>4 DEF GainHeld
<1>5. Now(s)' = v /\ RolesRead(j[1])' = RolesRead(j[1]) /\ RolesRead(j[1]) \subseteq Roles
  BY <1>1 DEF Now, RolesRead, Roles
<1>6. \A role \in RolesRead(j[1]) : Planed(s, v, role)
  BY <1>1, <1>2, <1>5 DEF Whole, KeptAt, Planed, Honest
<1>7. Alone(s, v) => IsCommitted(s)
  BY <1>1, FrameOfRun DEF FrameHeals
<1>8. /\ IsCommitted(s)' <=> IsCommitted(s)
      /\ Alone(s, v)' <=> Alone(s, v)
      /\ \A role : Planed(s, v, role)' <=> Planed(s, v, role)
  BY <1>1 DEF IsCommitted, Committed, Name, Now, Alone, Planed, Image
<1>9. FrameHeals(j)'
  BY <1>1, <1>4, <1>5, <1>6, <1>7, <1>8 DEF FrameHeals, Keeping, InFlight
<1>10. \A g \in wrote'[j[1]] : GainKept(g)'
  BY <1>1 DEF RunHeals, GainKept
<1>. QED  BY <1>1, <1>4, <1>9, <1>10 DEF JobGoes

\* A decode that begins has shared no gain but one already held.
LEMMA StartGoes ==
  ASSUME IInv, KeepInv, HealInv, NEW j \in Jobs, StartDecode(j), RunHeals(j[1])
  PROVE  JobGoes(j)
<1>. DEFINE s == j[2]
            v == Now(j[2])
<1>1. /\ at[j] = "resolved" /\ at'[j] = "decoding"
      /\ UNCHANGED <<file, planes, commits, gainFile, mode, wrote, probe>>
  BY DEF StartDecode, IInv, TypeOK, dirVars
<1>2. /\ held[j[1]] \subseteq held'[j[1]]
      /\ \A h \in held'[j[1]] \ held[j[1]] : GainComing(j[1], h)'
  <2>1. CASE GainOnMiss(j)
    <3>1. Share(j[1], hit[j].gain) /\ GainHeld(j[1], hit[j].gain) /\ hit[j] # None
      BY <2>1 DEF StartDecode, GainOnMiss
    <3>2. hit[j].gain \in Gains \cup {None} /\ j[1] \in Runs
      BY <1>1, <3>1, HitNamesItsGain, FrameOfRun
    <3>. QED  BY <1>1, <3>1, <3>2, ShareHeld
  <2>2. CASE ~GainOnMiss(j)
    BY <2>2 DEF StartDecode
  <2>. QED  BY <2>1, <2>2
<1>3. /\ IsCommitted(s)' <=> IsCommitted(s)
      /\ Alone(s, v)' <=> Alone(s, v)
      /\ Now(s)' = v
  BY <1>1 DEF IsCommitted, Committed, Name, Now, Alone
<1>4. FrameHeals(j)'
  BY <1>1, <1>3, FrameOfRun DEF FrameHeals, Keeping
<1>5. \A g \in wrote'[j[1]] : GainKept(g)'
  BY <1>1 DEF RunHeals, GainKept
<1>. QED  BY <1>1, <1>2, <1>4, <1>5 DEF JobGoes

\* A decode that ends shares the gain its keep will write.
LEMMA FinishGoes ==
  ASSUME IInv, KeepInv, HealInv, NEW j \in Jobs, FinishDecode(j), RunHeals(j[1])
  PROVE  JobGoes(j)
<1>. DEFINE s == j[2]
            v == Now(j[2])
<1>1. /\ at[j] = "decoding" /\ at'[j] = "decoded"
      /\ UNCHANGED <<file, planes, commits, gainFile, mode, wrote, probe, key>>
  BY DEF FinishDecode, IInv, TypeOK, dirVars
<1>2. key[j] = v /\ v \in Nat
  BY <1>1, FrameOfRun, CalmVersions DEF InFlight
<1>3. PICK to \in image[j][2]..v : Share(j[1], GainIn(s, to))
  BY DEF FinishDecode
<1>4. to = v
  <2>1. PICK from \in v..v : image[j] = <<s, from, 0>>
    BY <1>1, <1>2 DEF IInv, JobOK, TurnOK, Image
  <2>. QED  BY <1>2, <1>3, <2>1
<1>5. GainDue(j)' = GainIn(s, v) /\ j \in JobsOf(j[1])'
  BY <1>1, <1>2 DEF GainDue, GainIn, JobsOf
<1>6. held'[j[1]] = IF GainIn(s, v) = None THEN held[j[1]] ELSE held[j[1]] \cup {GainIn(s, v)}
  BY <1>3, <1>4, JobParts DEF Share, HealInv
<1>7. ASSUME NEW h \in held'[j[1]] \ held[j[1]] PROVE GainComing(j[1], h)'
  <2>1. GainDue(j)' = h
    BY <1>5, <1>6, <1>7
  <2>. QED  BY <1>1, <1>5, <2>1 DEF GainComing
<1>8. /\ IsCommitted(s)' <=> IsCommitted(s)
      /\ Alone(s, v)' <=> Alone(s, v)
      /\ Now(s)' = v
  BY <1>1 DEF IsCommitted, Committed, Name, Now, Alone
<1>9. FrameHeals(j)'
  BY <1>1, <1>8, FrameOfRun DEF FrameHeals, Keeping
<1>10. \A g \in wrote'[j[1]] : GainKept(g)'
  BY <1>1 DEF RunHeals, GainKept
<1>. QED  BY <1>1, <1>6, <1>7, <1>9, <1>10 DEF JobGoes

\* ensure_unchanged: the decode goes on to its keep.
LEMMA EnsureGoes ==
  ASSUME IInv, KeepInv, HealInv, NEW j \in Jobs, EnsureUnchanged(j), RunHeals(j[1]),
         phase'[j[1]] = phase[j[1]], phase[j[1]] # "failed"
  PROVE  JobGoes(j)
<1>. DEFINE s == j[2]
            v == Now(j[2])
<1>1. ~FailJob(j)
  BY JobParts DEF FailJob, IInv, TypeOK
<1>2. /\ at[j] = "decoded" /\ at'[j] = "unchanged"
      /\ UNCHANGED <<file, planes, commits, gainFile, mode, held, wrote, probe, key>>
  BY <1>1 DEF EnsureUnchanged, FailJob, IInv, TypeOK, dirVars, runVars
<1>3. /\ IsCommitted(s)' <=> IsCommitted(s)
      /\ Alone(s, v)' <=> Alone(s, v)
      /\ Now(s)' = v
  BY <1>2 DEF IsCommitted, Committed, Name, Now, Alone
<1>4. FrameHeals(j)'
  BY <1>2, <1>3, FrameOfRun DEF FrameHeals, Keeping
<1>. QED  BY <1>2, <1>4, OnlyTheFrame

\* keep_gain: the gain is in its file, written now or by this run before.
LEMMA KeepGainGoes ==
  ASSUME IInv, KeepInv, HealInv, NEW j \in Jobs, KeepGain(j), RunHeals(j[1])
  PROVE  JobGoes(j)
<1>. DEFINE s == j[2]
            v == Now(j[2])
<1>1. /\ at[j] = "unchanged" /\ at'[j] = "gain"
      /\ UNCHANGED <<file, planes, commits, mode, held, probe, key>>
  BY DEF KeepGain, IInv, TypeOK
<1>2. GainDue(j) \in Gains \cup {None} /\ j[1] \in Runs
  BY <1>1, FrameOfRun, CalmVersions DEF InFlight, GainDue
<1>3. \A g : GainKept(g) => GainKept(g)'
  BY DEF KeepGain, KeepInv, CacheShape, GainKept
<1>4. GainKept(GainDue(j))'
  <2>1. CASE GainDue(j) = None \/ GainDue(j) \in wrote[j[1]]
    BY <1>1, <1>2, <1>3, <2>1 DEF RunHeals, GainKept, GainDue
  <2>2. CASE ~(GainDue(j) = None \/ GainDue(j) \in wrote[j[1]])
    BY <1>1, <1>2, <2>2 DEF KeepGain, KeepInv, CacheShape, GainKept, GainDue
  <2>. QED  BY <2>1, <2>2
<1>5. ASSUME NEW g \in wrote'[j[1]] PROVE GainKept(g)'
  <2>1. g \in wrote[j[1]] \/ g = GainDue(j)
    BY <1>2, <1>5 DEF KeepGain, KeepInv, CacheShape
  <2>. QED  BY <1>1, <1>3, <1>4, <2>1 DEF RunHeals, GainDue
<1>6. /\ IsCommitted(s)' <=> IsCommitted(s)
      /\ Alone(s, v)' <=> Alone(s, v)
      /\ Now(s)' = v
  BY <1>1 DEF IsCommitted, Committed, Name, Now, Alone
<1>7. FrameHeals(j)'
  BY <1>1, <1>4, <1>6, FrameOfRun DEF FrameHeals
<1>. QED  BY <1>1, <1>4, <1>5, <1>7 DEF JobGoes

\* The planes a frame is kept as are of the version its file has.
LEMMA PublishGoes ==
  ASSUME IInv, KeepInv, HealInv, NEW j \in Jobs, PublishChannels(j) \/ PublishSamples(j),
         RunHeals(j[1])
  PROVE  JobGoes(j)
<1>. DEFINE s == j[2]
            v == Now(j[2])
<1>1. PICK role \in Roles :
        /\ at[j] = (IF role = "channels" THEN "gain" ELSE "channels")
        /\ at' = [at EXCEPT ![j] = role]
        /\ planes' = [planes EXCEPT ![Name(j[2], key[j])][role] = image[j]]
        /\ UNCHANGED <<file, commits, gainFile, held, wrote, probe, key>>
  BY DEF PublishChannels, PublishSamples, Publish, Roles, runVars
<1>2. at'[j] = role
  BY <1>1 DEF IInv, TypeOK
<1>3. s \in Sources /\ v \in Versions(s) /\ key[j] = v
  BY <1>1, FrameOfRun, CalmVersions DEF InFlight
<1>4. image[j] = Image(s, v, v)
  BY <1>1, <1>3 DEF IInv, JobOK, TurnOK
<1>5. Name(s, v) \in Stems
  BY <1>3, VersionsAreNamed
<1>6. /\ IsCommitted(s)' <=> IsCommitted(s)
      /\ Alone(s, v)' <=> Alone(s, v)
      /\ Now(s)' = v
  BY <1>1 DEF IsCommitted, Committed, Name, Now, Alone
<1>7. Planed(s, v, role)'
  BY <1>1, <1>3, <1>4, <1>5, <1>6 DEF Planed, KeepInv, CacheShape, Image
<1>8. ASSUME Alone(s, v), role = "samples" PROVE Planed(s, v, "channels")'
  <2>1. Planed(s, v, "channels")
    BY <1>1, <1>8, FrameOfRun DEF FrameHeals
  <2>2. PICK w \in Versions(s) : w = v
    BY <1>3
  <2>3. Planed(s, w, "channels")'
    BY <1>3, <1>8, <2>1, <2>2, PlanesStay DEF KeepInv, Roles
  <2>. QED  BY <1>6, <2>2, <2>3 DEF Planed, Image
<1>9. GainKept(GainDue(j))'
  BY <1>1, FrameOfRun DEF FrameHeals, Keeping, GainDue, GainKept
<1>10. probe'[j] # None => (probe'[j].committed # None => (Alone(s, v) => IsCommitted(s)'))
  BY <1>1, <1>6, FrameOfRun DEF FrameHeals
<1>11. FrameHeals(j)'
  <2>1. role \in {"channels", "samples"}
    BY DEF Roles
  <2>2. CASE role = "channels"
    BY <1>2, <1>6, <1>7, <1>9, <1>10, <2>2 DEF FrameHeals
  <2>3. CASE role = "samples"
    BY <1>2, <1>6, <1>7, <1>8, <1>9, <1>10, <2>3 DEF FrameHeals
  <2>. QED  BY <2>1, <2>2, <2>3
<1>12. at[j] \notin {"decoded", "unchanged"}
  BY <1>1
<1>. QED  BY <1>1, <1>11, <1>12, OnlyTheFrame

\* The commit names planes and a gain that are there.
LEMMA CommitGoes ==
  ASSUME IInv, KeepInv, HealInv, NEW j \in Jobs, Commit(j), RunHeals(j[1])
  PROVE  JobGoes(j)
<1>. DEFINE s == j[2]
            v == Now(j[2])
<1>1. /\ at[j] = "samples" /\ at'[j] = "done"
      /\ commits' = [commits EXCEPT ![Name(s, key[j])] = CommitOf(j)]
      /\ UNCHANGED <<file, planes, gainFile, held, wrote, mode, probe, key>>
  BY DEF Commit, IInv, TypeOK, runVars
<1>2. s \in Sources /\ v \in Versions(s) /\ key[j] = v
  BY <1>1, FrameOfRun, CalmVersions DEF InFlight
<1>3. Name(s, v) \in Stems
  BY <1>2, VersionsAreNamed
<1>4. /\ Alone(s, v)' <=> Alone(s, v)
      /\ Now(s)' = v /\ Name(s, v)' = Name(s, v)
      /\ \A role : Planed(s, v, role)' <=> Planed(s, v, role)
  BY <1>1 DEF Name, Now, Alone, Planed, Image
<1>5. IsCommitted(s)'
  <2>1. commits'[Name(s, v)] = CommitOf(j)
    BY <1>1, <1>2, <1>3 DEF IInv, TypeOK
  <2>2. CommitOf(j) # None /\ CommitOf(j).source = s /\ CommitOf(j).version = v
    BY <1>1, <1>2, CommitIsOne DEF CommitOf
  <2>. QED  BY <1>4, <2>1, <2>2 DEF IsCommitted, Committed
<1>6. GainHeld(j[1], GainIn(s, v))'
  <2>1. GainKept(GainIn(s, v))
    BY <1>1, <1>2, FrameOfRun DEF FrameHeals, Keeping, GainDue
  <2>2. GainIn(s, v)' = GainIn(s, v)
    BY <1>1 DEF Now
  <2>. QED  BY <1>1, <2>1, <2>2 DEF GainHeld, GainKept
<1>7. Alone(s, v) => \A role \in RolesRead(j[1])' : Planed(s, v, role)
  <2>1. RolesRead(j[1])' \subseteq {"channels", "samples"}
    BY DEF RolesRead, Roles
  <2>. QED  BY <1>1, <2>1, FrameOfRun DEF FrameHeals
<1>8. FrameHeals(j)'
  BY <1>1, <1>4, <1>5, <1>6, <1>7 DEF FrameHeals, Keeping
<1>. QED  BY <1>1, <1>8, OnlyTheFrame

\* So does every step of a frame's job, or it ends its run's hope of healing.
LEMMA JobStepHeals ==
  ASSUME IInv, KeepInv, HealInv, NEW j \in Jobs, JobStep(j), CommitsNameGains'
  PROVE  HealInv'
<1>1. ASSUME Undisturbed(j[1]), RunHeals(j[1]), phase'[j[1]] = phase[j[1]]
      PROVE  JobGoes(j)
  <2>1. phase[j[1]] # "failed"
    BY <1>1 DEF Undisturbed
  <2>2. ~Fail(j)
    BY <1>1, <2>1, JobParts DEF Fail, FailJob, IInv, TypeOK
  <2>. QED  BY <1>1, <2>1, <2>2, ProbeGoes, ResolveGoes, ReuseGoes, StartGoes, FinishGoes, EnsureGoes,
            KeepGainGoes, PublishGoes, CommitGoes DEF JobStep
<1>. QED  BY <1>1, JobHeals

\* A run that begins, reads its plan, ends, or is closed or killed.
LEMMA RunStepHeals ==
  ASSUME IInv, KeepInv, HealInv, CommitsNameGains', NEW r \in Runs,
         Start(r) \/ Peek(r) \/ Finish(r) \/ Cancel(r) \/ Close(r) \/ Kill(r)
  PROVE  HealInv'
<1>1. UNCHANGED <<file, dirVars>> /\ Grows
  BY SameGrows DEF Start, Peek, Finish, Cancel, Close, Kill
<1>2. DOMAIN held = Runs /\ DOMAIN calm = Runs /\ DOMAIN mode = Runs /\ DOMAIN wrote = Runs
  BY DEF HealInv, KeepInv, CacheShape
<1>3. \/ UNCHANGED <<mode, held, wrote>>
      \/ UNCHANGED <<held, wrote>> /\ phase'[r] # "off" /\ \E m : mode' = [mode EXCEPT ![r] = m]
      \/ /\ phase' = [phase EXCEPT ![r] = "off"] /\ mode' = [mode EXCEPT ![r] = "take"]
         /\ held' = [held EXCEPT ![r] = {}] /\ wrote' = [wrote EXCEPT ![r] = {}]
  BY DEF Start, Peek, Finish, Cancel, Close, Kill, NoRun, IInv, TypeOK
<1>4. \/ UNCHANGED calm
      \/ calm' = [calm EXCEPT ![r] = TRUE]
  BY DEF Start, Peek, Finish, Cancel, Close, Kill, NoRun, histVars
<1>5. \E p \in {"probing", "loading", "failed", "done", "off"} : phase' = [phase EXCEPT ![r] = p]
  BY DEF Start, Peek, Finish, Cancel, Close, Kill, NoRun
<1>6. DOMAIN held' = Runs /\ DOMAIN calm' = Runs /\ DOMAIN mode' = Runs
  <2>1. DOMAIN calm' = Runs
    BY <1>2, <1>4
  <2>. QED  BY <1>2, <1>3, <2>1
<1>7. ASSUME NEW q \in Runs \ {r}
      PROVE  /\ phase'[q] = phase[q] /\ held'[q] = held[q] /\ wrote'[q] = wrote[q]
             /\ mode'[q] = mode[q]
  BY <1>2, <1>3, <1>5, <1>7 DEF IInv, TypeOK
<1>8. ASSUME NEW q \in Runs \ {r} PROVE calm'[q] = calm[q]
  BY <1>2, <1>4, <1>8
<1>9. ASSUME NEW j \in Jobs, j[1] # r
      PROVE  /\ at'[j] = at[j] /\ key'[j] = key[j] /\ since'[j] = since[j]
             /\ probe'[j] = probe[j] /\ hit'[j] = hit[j]
  <2>1. CASE Start(r)
    BY <1>9, <2>1 DEF Start, jobVars, IInv, TypeOK
  <2>2. CASE Peek(r) \/ Finish(r) \/ Cancel(r)
    BY <2>2 DEF Peek, Finish, Cancel, jobVars, histVars
  <2>3. CASE NoRun(r)
    BY <1>9, <2>3 DEF NoRun
  <2>. QED  BY <2>1, <2>2, <2>3 DEF Close, Kill
<1>10. ASSUME NEW q \in Runs, phase'[q] = "off" PROVE held'[q] = {} /\ wrote'[q] = {}
  <2>1. CASE q # r
    BY <1>7, <1>10, <2>1 DEF HealInv
  <2>2. CASE q = r /\ NoRun(r)
    BY <1>2, <2>2 DEF NoRun
  <2>3. CASE q = r /\ ~NoRun(r)
    BY <1>10, <2>3 DEF Start, Peek, Finish, Cancel, Close, Kill, IInv, TypeOK, HealInv
  <2>. QED  BY <2>1, <2>2, <2>3
<1>11. ASSUME NEW q \in Runs \ {r}, Undisturbed(q)' PROVE RunHeals(q)'
  <2>1. Undisturbed(q) /\ phase'[q] = phase[q] /\ held'[q] = held[q] /\ wrote'[q] = wrote[q]
        /\ mode'[q] = mode[q]
    BY <1>7, <1>8, <1>11 DEF Undisturbed
  <2>2. \A j \in JobsOf(q) : /\ at'[j] = at[j] /\ key'[j] = key[j] /\ since'[j] = since[j]
                             /\ probe'[j] = probe[j] /\ hit'[j] = hit[j]
    BY <1>9, <1>11 DEF JobsOf
  <2>3. RunHeals(q)
    BY <2>1 DEF HealInv
  <2>. QED  BY <1>1, <2>1, <2>2, <2>3, RunStays
<1>12. ASSUME Undisturbed(r)' PROVE RunHeals(r)'
  <2>1. CASE Start(r)
    <3>1. /\ held'[r] = {} /\ wrote'[r] = {} /\ phase'[r] = "probing" /\ UNCHANGED jobVars
          /\ since' = [j \in Jobs |-> IF j[1] = r THEN Now(j[2]) ELSE since[j]]
      BY <2>1 DEF Start, HealInv, IInv, TypeOK
    <3>2. \A j \in JobsOf(r) : at[j] = "idle" /\ probe[j] = None
      BY <2>1 DEF Start, IInv, RunOK
    <3>3. ASSUME NEW j \in JobsOf(r) PROVE since'[j] = Now(j[2])' /\ FrameHeals(j)'
      <4>1. at'[j] = "idle" /\ probe'[j] = None
        BY <3>1, <3>2, <3>3 DEF jobVars
      <4>2. FrameHeals(j)'
        BY <4>1 DEF FrameHeals, Keeping
      <4>3. since'[j] = Now(j[2])'
        BY <1>1, <3>1, <3>3 DEF JobsOf, Now
      <4>. QED  BY <4>2, <4>3
    <3>4. JobsOf(r)' = JobsOf(r)
      BY DEF JobsOf
    <3>. QED  BY <3>1, <3>3, <3>4 DEF RunHeals
  <2>2. CASE Peek(r) \/ Finish(r) \/ Cancel(r)
    <3>1. /\ UNCHANGED <<mode, held, wrote, jobVars, histVars>>
          /\ phase[r] \in {"probing", "loading"}
          /\ phase'[r] = "done" => \A j \in JobsOf(r) : at[j] = "done"
      BY <2>2 DEF Peek, Finish, Cancel, IInv, TypeOK
    <3>2. Undisturbed(r)
      BY <1>12, <3>1 DEF Undisturbed, histVars
    <3>3. RunHeals(r)
      BY <3>2 DEF HealInv
    <3>4. \A j \in JobsOf(r) : /\ at'[j] = at[j] /\ key'[j] = key[j] /\ since'[j] = since[j]
                               /\ probe'[j] = probe[j] /\ hit'[j] = hit[j]
      BY <3>1 DEF jobVars, histVars
    <3>. QED  BY <1>1, <3>1, <3>2, <3>3, <3>4, RunStays
  <2>3. CASE NoRun(r)
    <3>1. phase'[r] = "off"
      BY <2>3 DEF NoRun, IInv, TypeOK
    <3>. QED  BY <1>12, <3>1 DEF Undisturbed
  <2>. QED  BY <2>1, <2>2, <2>3 DEF Close, Kill
<1>. QED  BY <1>6, <1>10, <1>11, <1>12 DEF HealInv

\* Nothing is held and nothing kept as it begins.
LEMMA HealInit == Init => HealInv
<1>. SUFFICES ASSUME Init PROVE HealInv
  OBVIOUS
<1>1. CommitsNameGains
  BY DEF Init, CommitsNameGains
<1>2. \A r \in Runs : phase[r] = "off" /\ held[r] = {} /\ wrote[r] = {}
  BY DEF Init
<1>. QED  BY <1>1, <1>2 DEF Init, HealInv, Undisturbed

\* Every step keeps it; a change of a file or a damage ends the promise.
LEMMA HealNext == IInv /\ KeepInv /\ HealInv /\ [Next]_vars => HealInv'
<1>. SUFFICES ASSUME IInv, KeepInv, HealInv, [Next]_vars PROVE HealInv'
  OBVIOUS
<1>1. CommitsNameGains'
  BY GainsStep DEF HealInv
<1>2. CASE \E j \in Jobs : JobStep(j)
  BY <1>1, <1>2, JobStepHeals
<1>3. CASE \E r \in Runs : Start(r) \/ Peek(r) \/ Finish(r) \/ Cancel(r) \/ Close(r) \/ Kill(r)
  BY <1>1, <1>3, RunStepHeals
<1>4. CASE Damage \/ \E s \in Sources : Rewrite(s) \/ Remove(s)
  <2>1. UNCHANGED runVars /\ calm' = [r \in Runs |-> FALSE]
    BY <1>4 DEF Damage, Rewrite, Remove, Upset
  <2>2. UNCHANGED <<phase, mode, held, wrote>>
    BY <2>1 DEF runVars
  <2>3. \A r \in Runs : ~Undisturbed(r)'
    BY <2>1 DEF Undisturbed
  <2>. QED  BY <1>1, <2>1, <2>2, <2>3 DEF HealInv
<1>5. CASE UNCHANGED vars
  <2>1. /\ UNCHANGED <<file, dirVars, phase, mode, held, wrote, calm>> /\ Grows
        /\ UNCHANGED <<at, key, since, probe, hit>>
    BY <1>5, SameGrows DEF vars, runVars, jobVars, histVars
  <2>2. ASSUME NEW r \in Runs, Undisturbed(r)' PROVE RunHeals(r)'
    <3>1. Undisturbed(r) /\ RunHeals(r)
      BY <2>1, <2>2 DEF Undisturbed, HealInv
    <3>. QED  BY <2>1, <3>1, RunStays
  <2>. QED  BY <1>1, <2>1, <2>2 DEF HealInv
<1>. QED  BY <1>2, <1>3, <1>4, <1>5 DEF Next

\* A run that ends well, with no file changed or damaged since it began, leaves
\* every frame of its that is alone under its name committed, with the planes a
\* run of its kind reads and with its gain, whatever damage it found.
THEOREM FinishedRunsHeal == Spec => []RunsHealTheCache
<1>1. IInv /\ KeepInv /\ HealInv => RunsHealTheCache
  <2>. SUFFICES ASSUME IInv, KeepInv, HealInv, NEW r \in Runs, phase[r] = "done", calm[r],
                       NEW s \in Paths[r], Alone(s, Now(s))
                PROVE  /\ Committed(s, Now(s)) # None
                       /\ \A role \in RolesRead(r) :
                            planes[Name(s, Now(s))][role] = Committed(s, Now(s)).digests[role]
                       /\ Committed(s, Now(s)).gain # None =>
                            gainFile[Committed(s, Now(s)).gain] = "whole"
    BY DEF RunsHealTheCache
  <2>. DEFINE j == <<r, s>>
              v == Now(s)
              c == Committed(s, v)
  <2>1. j \in JobsOf(r) /\ j \in Jobs /\ j[1] = r /\ j[2] = s
    BY SourcesAssumption DEF JobsOf, Jobs
  <2>2. RunHeals(r) /\ FrameHeals(j) /\ \A i \in JobsOf(r) : at[i] = "done"
    BY <2>1 DEF HealInv, Undisturbed, RunHeals
  <2>3. s \in Sources /\ v \in Versions(s)
    BY <2>1, <2>2, FrameOfRun
  <2>4. c # None /\ (\A role \in RolesRead(r) : Planed(s, v, role)) /\ GainHeld(r, GainIn(s, v))
    BY <2>1, <2>2 DEF FrameHeals, IsCommitted
  <2>5. Honest(c, s, v)
    BY <2>3, <2>4, CommittedIsHonest DEF IInv
  <2>6. c.gain = GainIn(s, v)
    <3>1. c = commits[Name(s, v)] /\ Name(s, v) \in Stems
      BY <2>3, <2>4, CommittedIsThere
    <3>2. NamesItsGain(c)
      BY <2>4, <3>1 DEF HealInv, CommitsNameGains
    <3>. QED  BY <2>5, <3>2 DEF NamesItsGain, Honest
  <2>7. \A role \in RolesRead(r) : planes[Name(s, v)][role] = c.digests[role]
    BY <2>4, <2>5 DEF Planed, Honest, RolesRead, Roles
  <2>8. c.gain # None => gainFile[c.gain] = "whole"
    <3>1. \A g \in held[r] : GainKept(g)
      BY <2>2 DEF RunHeals, GainComing
    <3>. QED  BY <2>4, <2>6, <3>1 DEF GainHeld, GainKept
  <2>. QED  BY <2>4, <2>7, <2>8
<1>2. Spec => [](IInv /\ KeepInv /\ HealInv)
  BY InitInv, NextInv, KeepInit, KeepNext, HealInit, HealNext, PTL DEF Spec
<1>. QED  BY <1>1, <1>2, PTL
=============================================================================
