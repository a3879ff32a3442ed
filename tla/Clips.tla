-------------------------------- MODULE Clips --------------------------------
(***************************************************************************)
(* The sound of a unit: the beacon renders it to a WAV file, hands a copy  *)
(* to the spool and notes the airing (beacon/__main__.py _transmit_*_unit, *)
(* voice.py, frame_audio.py, transmit.py), its housekeeping deletes old    *)
(* files, and the ui plays what is still there (ui/beacon_audio.py).       *)
(*                                                                         *)
(* Which unit is due is Beacon's matter: here any unit may come next, and  *)
(* one that is dropped before it is rendered (no callsign, no text, a      *)
(* frame too long) leaves no trace.  A file's name is the sequence of the  *)
(* parts that '-' joins, so two names may be the same; parts are numbers,  *)
(* the ones in Numerals read as digits.  Time is in units of a second for  *)
(* the names and of the retention for the sweep: RenderMax stands for the  *)
(* 30 and 60 seconds a subprocess may take, far below a day.               *)
(***************************************************************************)
EXTENDS Integers, Sequences, SequencesExt

CONSTANTS Units,       \* [kind, source, item, ref]; kind: "voice", "frame", "manual", "watermark"
          Numerals, ManualWord, WatermarkWord,
          Knobs,       \* the settings: [retention : 0 is "keep", spool : BOOLEAN]
          RenderMax, LastStart, MaxClock, MaxAirings   \* bounds

VARIABLES
    clock, knobs,
    wavs,      \* the files under BEACON_TTS_WAV_DIR: [name, ext, n, whole, at]
    incoming,  \* the files of the spool: [n, name, ext, copy], n its stamp in milliseconds
    airings,   \* the audit rows beacon.*.transmitted: [n, unit, clip, at]
    job,       \* the transmit thread: [pc, since, read], about the unit begun last
    begun      \* history: the units in the order they were begun, with their file's name

clipVars == <<clock, knobs, wavs, incoming, airings, job, begun>>

Asleep == [pc |-> "idle", since |-> 0, read |-> {}]
N      == Len(begun)
Unit   == begun[N].unit
Clip   == begun[N].name
Copy   == [n : 1 .. N, whole : BOOLEAN]    \* what has been read of a file

-----------------------------------------------------------------------------
(* Names. *)

Name(u, t) ==
    CASE u.kind = "voice"     -> u.source \o u.item \o <<t>>
      [] u.kind = "frame"     -> u.source \o u.item \o <<u.ref, t>>
      [] u.kind = "manual"    -> <<ManualWord, u.ref, t>>
      [] u.kind = "watermark" -> <<WatermarkWord, t>>

\* What follows the item's prefix, and the patterns it is matched with.
After(i, name)   == SubSeq(name, Len(i.source \o i.item) + 1, Len(name))
Digits(s)        == ToSet(s) \subseteq Numerals
OfItem(i, name)  == IsPrefix(i.source \o i.item, name)
VoiceOf(i, name) == OfItem(i, name) /\ Len(After(i, name)) = 1 /\ Digits(After(i, name))
ClipOf(i, name)  == OfItem(i, name) /\ Len(After(i, name)) \in {1, 2} /\ Digits(After(i, name))

Items == {[source |-> u.source, item |-> u.item] : u \in {v \in Units : v.kind \in {"voice", "frame"}}}
Owns(i, u) == u.kind \in {"voice", "frame"} /\ u.source = i.source /\ u.item = i.item

\* The code joins names with '-' and checks nothing: an item "x-1" has the names that the
\* chunk 1 of an item "x" has, and a source "manual" those of a message.
Namesakes(u) == {v \in Units \ {u} : \E t, s \in Numerals : Name(u, t) = Name(v, s)}
Strangers(i) == {u \in Units : ~Owns(i, u) /\ \E t \in Numerals : ClipOf(i, Name(u, t))}

ASSUME UnitsAssumption == /\ Units \subseteq [kind : {"voice", "frame", "manual", "watermark"}, source : Seq(Nat),
                                               item : Seq(Nat), ref : Nat]
                          /\ {ManualWord, WatermarkWord, MaxClock, LastStart, MaxAirings} \subseteq Nat
                          /\ 0 .. LastStart \subseteq Numerals
ASSUME KnobsAssumption == Knobs \subseteq [retention : Nat, spool : BOOLEAN]
ASSUME RetentionIsLong == RenderMax \in Nat /\ \A k \in Knobs : k.retention = 0 \/ RenderMax < k.retention

-----------------------------------------------------------------------------
ClipsTypeOK ==
    /\ clock \in 0 .. MaxClock /\ knobs \in Knobs
    /\ begun \in Seq([unit : Units, name : Seq(Nat)]) /\ N <= MaxAirings
    /\ wavs \subseteq [name : Seq(Nat), ext : {"wav", "pad.wav", "txt"}, n : 1 .. N, whole : BOOLEAN, at : 0 .. clock]
    /\ \A f, g \in wavs : f.name = g.name /\ f.ext = g.ext => f = g
    /\ incoming \subseteq [n : 1 .. N, name : Seq(Nat), ext : {"wav", "part"}, copy : SUBSET Copy]
    /\ airings \in Seq([n : 1 .. N, unit : Units, clip : Seq(Nat), at : 0 .. clock])
    /\ job \in [pc : {"idle", "render", "writing", "pad", "swap", "hand", "rename", "sent", "failed"},
                since : 0 .. clock, read : SUBSET Copy]
    /\ clock - job.since <= RenderMax \/ job.pc = "idle"

ClipsFrom(time) == /\ clock = time /\ knobs \in Knobs /\ wavs = {} /\ incoming = {} /\ airings = <<>>
                   /\ job = Asleep /\ begun = <<>>
ClipsInit == ClipsFrom(0)

-----------------------------------------------------------------------------
(* The files. *)

File(name, ext, n, whole) == [name |-> name, ext |-> ext, n |-> n, whole |-> whole, at |-> clock]
Without(fs, name, ext)    == {f \in fs : ~(f.name = name /\ f.ext = ext)}
Put(fs, f)                == Without(fs, f.name, f.ext) \cup {f}
Rendered                  == {f \in wavs : f.name = Clip /\ f.ext = "wav"}

At(pc)   == job.pc = pc
Goto(pc) == job' = [job EXCEPT !.pc = pc]

\* The unit has a callsign, a text and room in a frame; its file is named after the second.
\* A frame's line goes into a temporary file of the same directory.
Begin(u) ==
    /\ At("idle") /\ clock <= LastStart /\ N < MaxAirings
    /\ begun' = Append(begun, [unit |-> u, name |-> Name(u, clock)])
    /\ job' = [pc |-> "render", since |-> clock, read |-> {}]
    /\ wavs' = IF u.kind = "frame" THEN Put(wavs, File(Name(u, clock), "txt", N + 1, TRUE)) ELSE wavs
    /\ UNCHANGED <<clock, knobs, incoming, airings>>

\* espeak-ng, piper or gen_packets opens the file, ...
Write == /\ At("render") /\ Goto("writing") /\ wavs' = Put(wavs, File(Clip, "wav", N, FALSE))
         /\ UNCHANGED <<clock, knobs, incoming, airings, begun>>

\* ... ends well, and the tone or the silence is due or not, ...
Finish(next) ==
    /\ At("writing") /\ Goto(next)
    /\ wavs' = Put(Without(wavs, Clip, "txt"), File(Clip, "wav", N, TRUE))
    /\ UNCHANGED <<clock, knobs, incoming, airings, begun>>

\* ... or is missing, times out or fails: what it wrote stays.
RenderFails ==
    /\ job.pc \in {"render", "writing"} /\ job' = Asleep /\ wavs' = Without(wavs, Clip, "txt")
    /\ UNCHANGED <<clock, knobs, incoming, airings, begun>>

\* prepend_tone_to_wav and _prepend_silence: a second file, then a replace.
Pad  == /\ At("pad") /\ Goto("swap") /\ wavs' = Put(wavs, File(Clip, "pad.wav", N, TRUE))
        /\ UNCHANGED <<clock, knobs, incoming, airings, begun>>
Swap == /\ At("swap") /\ Goto("hand")
        /\ wavs' = Put(Without(wavs, Clip, "pad.wav"), File(Clip, "wav", N, TRUE))
        /\ UNCHANGED <<clock, knobs, incoming, airings, begun>>
PadFails == /\ job.pc \in {"pad", "swap"} /\ Goto("hand")
            /\ UNCHANGED <<clock, knobs, wavs, incoming, airings, begun>>

-----------------------------------------------------------------------------
(* The hand-off. *)

SpoolFile(ext, copy) == [n |-> N, name |-> Clip, ext |-> ext, copy |-> copy]

\* LoggingWavTransmitter only says so.
LogOnly == /\ At("hand") /\ ~knobs.spool /\ Goto("sent")
           /\ UNCHANGED <<clock, knobs, wavs, incoming, airings, begun>>

\* SpoolWavTransmitter: the copy is written under a name the watcher ignores, ...
CopyInPlain ==    \* a mutant: under its own name
    /\ At("hand") /\ knobs.spool /\ Rendered # {}
    /\ job' = [job EXCEPT !.pc = "rename", !.read = {[n |-> f.n, whole |-> f.whole] : f \in Rendered}]
    /\ incoming' = incoming \cup {SpoolFile("wav", {})}
    /\ UNCHANGED <<clock, knobs, wavs, airings, begun>>
CopyIn ==
    /\ At("hand") /\ knobs.spool /\ Rendered # {}
    /\ job' = [job EXCEPT !.pc = "rename", !.read = {[n |-> f.n, whole |-> f.whole] : f \in Rendered}]
    /\ incoming' = incoming \cup {SpoolFile("part", {})}
    /\ UNCHANGED <<clock, knobs, wavs, airings, begun>>

\* ... and then renamed.
Rename ==
    /\ At("rename") /\ Goto("sent")
    /\ incoming' = {f \in incoming : f.n # N} \cup {SpoolFile("wav", job.read)}
    /\ UNCHANGED <<clock, knobs, wavs, airings, begun>>

\* An OSError at any point: what is there stays.
HandOffFails == /\ knobs.spool /\ job.pc \in {"hand", "rename"} /\ Goto("failed")
                /\ UNCHANGED <<clock, knobs, wavs, incoming, airings, begun>>

\* The `finally` of _transmit_watermark.
Unlink(ws) == IF Unit.kind = "watermark" THEN Without(ws, Clip, "wav") ELSE ws

Record ==
    /\ At("sent") /\ job' = Asleep /\ wavs' = Unlink(wavs)
    /\ airings' = Append(airings, [n |-> N, unit |-> Unit, clip |-> Clip, at |-> clock])
    /\ UNCHANGED <<clock, knobs, incoming, begun>>

RecordFailure == /\ At("failed") /\ job' = Asleep /\ wavs' = Unlink(wavs)
                 /\ UNCHANGED <<clock, knobs, incoming, airings, begun>>

-----------------------------------------------------------------------------
(* The rest of the beacon, and the world. *)

\* _prune_old_wavs: one step per file of its listing.
OldAndAired(f) == f.at < clock - knobs.retention /\ \E e \in ToSet(airings) : e.clip = f.name    \* a mutant
Old(f)         == f.at < clock - knobs.retention
Prune(f) == /\ knobs.retention > 0 /\ f.ext \in {"wav", "pad.wav"} /\ Old(f) /\ wavs' = wavs \ {f}
            /\ UNCHANGED <<clock, knobs, incoming, airings, job, begun>>

\* The beacon is killed and started again.
Kill == /\ ~At("idle") /\ job' = Asleep /\ UNCHANGED <<clock, knobs, wavs, incoming, airings, begun>>

Second == /\ clock < MaxClock /\ (~At("idle") => clock - job.since < RenderMax) /\ clock' = clock + 1
          /\ UNCHANGED <<knobs, wavs, incoming, airings, job, begun>>

Work == \/ Write \/ RenderFails \/ Pad \/ Swap \/ PadFails \/ LogOnly \/ CopyIn \/ Rename \/ HandOffFails
        \/ Record \/ RecordFailure \/ (\E next \in {"pad", "hand"} : Finish(next))
Sweep == \E f \in wavs : Prune(f)

ClipsNext == Work \/ Sweep \/ Second \/ Kill \/ (\E u \in Units : Begin(u))

\* A subprocess ends or times out, housekeeping sweeps, time passes.
ClipsFairness == WF_clipVars(Work) /\ WF_clipVars(Sweep) /\ WF_clipVars(Second)

ClipsSpec == ClipsInit /\ [][ClipsNext]_clipVars /\ ClipsFairness

-----------------------------------------------------------------------------
(* What the ui plays. *)

Plays(name) == {f \in wavs : f.name = name /\ f.ext = "wav"}

\* list_item_transmissions, and the row of the dashboard's feed that plays a message.
Listed(i)      == {e \in ToSet(airings) : Owns(i, e.unit) /\ ClipOf(i, e.clip) /\ Plays(e.clip) # {}}
ListedMessages == {e \in ToSet(airings) : e.unit.kind = "manual" /\ Plays(e.clip) # {}}

\* item_clip_path, and latest_voice_clip's candidates and their newest.
ItemClips(i)   == {f \in wavs : f.ext = "wav" /\ ClipOf(i, f.name)}
Candidates(i)  == {f \in wavs : f.ext = "wav" /\ VoiceOf(i, f.name)}
LatestVoice(i) == {f \in Candidates(i) : \A g \in Candidates(i) : g.at <= f.at}

\* A listed airing plays the sound that went out then, whole, unless the same unit, or one
\* with the same file name, was begun again in that second: it is never an earlier sound.
ListedIsWhatAired ==
    \A e \in ListedMessages \cup UNION {Listed(i) : i \in Items} : \A f \in Plays(e.clip) :
        IF f.n = e.n THEN f.whole ELSE f.n > e.n /\ begun[f.n].unit \in {e.unit} \cup Namesakes(e.unit)

\* What the watcher of the spool can see is a whole sound, of the unit it is named after.
SpooledIsWhole == \A f \in incoming : f.ext = "wav" => f.copy = {[n |-> f.n, whole |-> TRUE]}

\* The clips of an item that no stranger's name looks like are its own, and its play button
\* is never a frame's tones.  With a stranger, an item "x-1" beside an item "x", the clips of
\* both are offered, against item_clip_path's docstring.
PlaysItsOwn == \A i \in Items : Strangers(i) = {} =>
                  /\ \A f \in ItemClips(i) : Owns(i, begun[f.n].unit)
                  /\ \A f \in LatestVoice(i) : begun[f.n].unit.kind = "voice"

\* What aired stays playable for the time it is to be kept, unless the watermark, whose file
\* goes at once, has its name.
KeptForRetention ==
    \A e \in ToSet(airings) :
        (\A u \in {e.unit} \cup Namesakes(e.unit) : u.kind # "watermark")
        /\ (knobs.retention = 0 \/ clock - e.at <= knobs.retention - RenderMax)
            => Plays(e.clip) # {}

\* The dashboard plays what aired, through failed renderings and hand-offs, crashes and sweeps.
ClipsTellTheTruth == ListedIsWhatAired /\ SpooledIsWhole /\ PlaysItsOwn /\ KeptForRetention

\* The directory is bounded: every sound leaves it in the end, a crash's leftovers included.
SoundsAreSwept == knobs.retention > 0 => <>[](\A f \in wavs : f.ext = "txt")

=============================================================================
