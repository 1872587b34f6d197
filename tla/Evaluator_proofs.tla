-------------------------- MODULE Evaluator_proofs --------------------------
(***************************************************************************)
(* Proofs, for any flags of the worker, that a verdict is what it says:    *)
(* what the tools make of an event, how evaluate goes through its stages   *)
(* by their outcomes, and that the worker is the one the pipeline assumes. *)
(***************************************************************************)
EXTENDS EvaluatorInPipeline, Artifacts_proofs

(***************************************************************************)
(* The tools: which events an outcome can come of.                         *)
(***************************************************************************)

LEMMA ResultFields ==
    ASSUME NEW event, NEW outcome
    PROVE  Result(event, outcome).event = event /\ Result(event, outcome).outcome = outcome
  BY DEF Result

\* Check fails a submission for a fault in it, and passes one that fits.
LEMMA CheckTells ==
    ASSUME NEW r \in CheckResults
    PROVE  /\ r.outcome = "ok" => r.event = "fits"
           /\ r.outcome = "bad" => r.event = "unfit"
<1>1. PICK c \in Checks : r = Result(CheckEvent(c), CheckOutcome(c))
  BY DEF CheckResults
<1>2. r.event = CheckEvent(c) /\ r.outcome = CheckOutcome(c)
  BY <1>1, ResultFields
<1>3. /\ c.tooling \in BOOLEAN /\ c.architecture \in BOOLEAN /\ c.engine \in BOOLEAN
      /\ c.project \in BOOLEAN /\ c.sanitizer \in BOOLEAN /\ c.challenge \in BOOLEAN
      /\ c.harness \in BOOLEAN
  BY DEF Checks
<1>4. CheckOutcome(c) = "ok" => CheckEvent(c) = "fits"
  BY <1>3 DEF CheckOutcome, CheckEvent
<1>5. CheckOutcome(c) = "bad" => CheckEvent(c) = "unfit"
  BY <1>3 DEF CheckOutcome, CheckEvent
<1> QED BY <1>2, <1>4, <1>5

\* The exit codes of helper.py, as its callers ask for them.
LEMMA HelperPropagates ==
    ASSUME NEW ending \in Nat
    PROVE  HelperExit({"--propagate_exit_codes", "--err_result 201"}, ending) =
            IF ending = Raises THEN 1 ELSE IF ending = Absent THEN 201 ELSE ending
  BY DEF HelperExit, Raises, Absent

\* ossfuzz_config.yaml: a code of the engine counts with the output it requires, ...
LEMMA EngineListed ==
    ASSUME NEW exit \in {0, 70, 71, 77}, NEW marks
    PROVE  RunAnalysis(exit, marks) = IF exit = 0 THEN 0 ELSE 212
<1>1. exit \notin RequireSanitizer /\ exit \in DOMAIN EngineCodes
  BY DEF EngineCodes, RequireSanitizer, TimedOut
<1>2. EngineCodes[exit] = IF exit = 0 THEN 0 ELSE 212
  BY DEF EngineCodes, TimedOut
<1> QED BY <1>1, <1>2 DEF RunAnalysis, InterpretReturnCode, None

LEMMA SanitizerRequired ==
    ASSUME NEW exit \in {1, TimedOut}, NEW marks, "sanitizer" \in marks
    PROVE  RunAnalysis(exit, marks) = 211
<1>1. exit \in DOMAIN EngineCodes /\ EngineCodes[exit] = 211
  BY DEF EngineCodes, TimedOut
<1> QED BY <1>1 DEF RunAnalysis, InterpretReturnCode, None

\* ... other codes are signals or troubles, ...
LEMMA MiscListed ==
    ASSUME NEW exit \in {1, 128, Alarm, 201} \cup DockerErrors \cup Signals, NEW marks,
           "sanitizer" \in marks => exit # 1
    PROVE  RunAnalysis(exit, marks) = IF exit \in Signals THEN 212 ELSE 214
<1>1. exit \notin {0, 70, 71, 77, TimedOut} /\ exit \in Nat
  BY DEF TimedOut, Alarm, DockerErrors, Signals
<1>2. InterpretReturnCode(exit, marks) = DetermineMisc(exit, marks)
  BY <1>1 DEF InterpretReturnCode, EngineCodes, RequireSanitizer
<1>3. exit \in DOMAIN MiscCodes /\ MiscCodes[exit] = IF exit \in Signals THEN 212 ELSE 214
  BY <1>1 DEF MiscCodes
<1> QED BY <1>2, <1>3 DEF RunAnalysis, DetermineMisc, None

\* ... and the output decides of the rest.
LEMMA Unlisteds ==
    ASSUME NEW exit \in {Unlisted, TimedOut}, NEW marks, exit = TimedOut => "sanitizer" \notin marks
    PROVE  RunAnalysis(exit, marks) = IF "daemon" \in marks THEN 214
                                      ELSE IF "sanitizer" \in marks THEN 213 ELSE 0
<1>1. exit \notin {0, 1, 70, 71, 77} /\ exit \notin DOMAIN MiscCodes
  BY DEF TimedOut, Unlisted, Alarm, DockerErrors, Signals, MiscCodes
<1>2. InterpretReturnCode(exit, marks) = DetermineMisc(exit, marks)
  BY <1>1 DEF InterpretReturnCode, EngineCodes, RequireSanitizer, TimedOut, Unlisted
<1> QED BY <1>1, <1>2 DEF RunAnalysis, DetermineMisc, None

\* What the crash interpreter makes of a run.
Told(r) ==
    \/ r.event = "crash" /\ Significance(r) \in {211, 212}
    \/ r.event = "no crash" /\ Significance(r) \in {0, 213}
    \/ r.event = "prevented" /\ Significance(r) \in {213, 214}
    \/ r.event = "late" /\ Significance(r) \in {0, 214}
    \/ r.event = "killed" /\ Significance(r) = 212

LEMMA RunsAreTold ==
    ASSUME NEW r \in Reproductions PROVE Told(r)
<1> USE DEF Told
<1> DEFINE exit == HelperExit({"--propagate_exit_codes", "--err_result 201"}, r.ending)
<1>1. Significance(r) = RunAnalysis(exit, r.marks)
  BY DEF Significance
<1>2. ASSUME r.ending \in Nat
      PROVE  exit = IF r.ending = Raises THEN 1 ELSE IF r.ending = Absent THEN 201 ELSE r.ending
  BY <1>2, HelperPropagates
<1> HIDE DEF exit
<1>3. \/ r \in [event : {"no crash"},  ending : {0, Unlisted},             marks : SUBSET {"sanitizer"}]
      \/ r \in [event : {"no crash"},  ending : {TimedOut},                marks : {{}}]
      \/ r \in [event : {"crash"},     ending : {1, 77, TimedOut},         marks : {{"sanitizer"}}]
      \/ r \in [event : {"crash"},     ending : {70, 71, 77} \cup Signals, marks : SUBSET {"sanitizer"}]
      \/ r \in [event : {"prevented"}, ending : RunTroubles,               marks : {{}}]
      \/ r \in [event : {"prevented"}, ending : {Unlisted},                marks : {{"daemon"}, {"sanitizer"}}]
      \/ r \in [event : {"late"},      ending : {1, TimedOut, Unlisted},   marks : {{}}]
      \/ r \in [event : {"killed"},    ending : {Killed, Terminated},      marks : SUBSET {"sanitizer"}]
  BY DEF Reproductions
<1>4. CASE r \in [event : {"no crash"}, ending : {0, Unlisted}, marks : SUBSET {"sanitizer"}]
  <2>1. r.event = "no crash" /\ "daemon" \notin r.marks
    BY <1>4
  <2>2. r.ending \in {0, Unlisted}
    BY <1>4
  <2>3. exit \in {0, Unlisted} /\ exit # TimedOut
    BY <1>2, <2>2 DEF Unlisted, Raises, Absent, TimedOut
  <2>4. CASE exit = 0
    <3>1. RunAnalysis(exit, r.marks) = 0
      BY <2>4, EngineListed
    <3> QED BY <1>1, <2>1, <3>1
  <2>5. CASE exit = Unlisted
    BY <1>1, <2>1, <2>3, <2>5, Unlisteds
  <2> QED BY <2>3, <2>4, <2>5
<1>5. CASE r \in [event : {"no crash"}, ending : {TimedOut}, marks : {{}}]
  <2>1. r.event = "no crash" /\ r.marks = {}
    BY <1>5
  <2>2. exit = TimedOut
    <3>1. r.ending = TimedOut
      BY <1>5
    <3> QED BY <1>2, <3>1 DEF Raises, Absent, TimedOut
  <2>3. Significance(r) = 0
    BY <1>1, <2>1, <2>2, Unlisteds
  <2> QED BY <2>1, <2>3
<1>6. CASE r \in [event : {"crash"}, ending : {1, 77, TimedOut}, marks : {{"sanitizer"}}]
  <2>1. r.event = "crash" /\ "sanitizer" \in r.marks
    BY <1>6
  <2>2. exit \in {1, 77, TimedOut}
    BY <1>2, <1>6 DEF Raises, Absent, TimedOut
  <2>3. CASE exit = 77
    BY <1>1, <2>1, <2>3, EngineListed
  <2>4. CASE exit \in {1, TimedOut}
    BY <1>1, <2>1, <2>4, SanitizerRequired
  <2> QED BY <2>2, <2>3, <2>4
<1>7. CASE r \in [event : {"crash"}, ending : {70, 71, 77} \cup Signals, marks : SUBSET {"sanitizer"}]
  <2>1. r.event = "crash"
    BY <1>7
  <2>2. exit \in {70, 71, 77} \cup Signals /\ exit # 1
    BY <1>2, <1>7 DEF Raises, Absent, Signals
  <2>3. CASE exit \in {70, 71, 77}
    BY <1>1, <2>1, <2>3, EngineListed
  <2>4. CASE exit \in Signals
    BY <1>1, <2>1, <2>2, <2>4, MiscListed
  <2> QED BY <2>2, <2>3, <2>4
<1>8. CASE r \in [event : {"prevented"}, ending : RunTroubles, marks : {{}}]
  <2>1. r.event = "prevented" /\ "sanitizer" \notin r.marks
    BY <1>8
  <2>2. exit \in {1, 128, Alarm, 201} \cup DockerErrors /\ exit \notin Signals
    BY <1>2, <1>8 DEF RunTroubles, Raises, Absent, Alarm, Signals, DockerErrors
  <2>3. Significance(r) = 214
    BY <1>1, <2>1, <2>2, MiscListed
  <2> QED BY <2>1, <2>3
<1>9. CASE r \in [event : {"prevented"}, ending : {Unlisted}, marks : {{"daemon"}, {"sanitizer"}}]
  <2>1. r.event = "prevented" /\ ("daemon" \in r.marks \/ "sanitizer" \in r.marks)
    BY <1>9
  <2>2. exit = Unlisted /\ exit # TimedOut
    BY <1>2, <1>9 DEF Raises, Absent, TimedOut, Unlisted
  <2>3. Significance(r) \in {213, 214}
    BY <1>1, <2>1, <2>2, Unlisteds
  <2> QED BY <2>1, <2>3
<1>10. CASE r \in [event : {"late"}, ending : {1, TimedOut, Unlisted}, marks : {{}}]
  <2>1. r.event = "late" /\ r.marks = {}
    BY <1>10
  <2>2. exit \in {1, TimedOut, Unlisted} /\ 1 \notin Signals
    BY <1>2, <1>10 DEF Raises, Absent, TimedOut, Unlisted, Signals
  <2>3. CASE exit = 1
    BY <1>1, <2>1, <2>2, <2>3, MiscListed
  <2>4. CASE exit \in {TimedOut, Unlisted}
    BY <1>1, <2>1, <2>4, Unlisteds
  <2> QED BY <2>2, <2>3, <2>4
<1>11. CASE r \in [event : {"killed"}, ending : {Killed, Terminated}, marks : SUBSET {"sanitizer"}]
  <2>1. r.event = "killed"
    BY <1>11
  <2>2. exit \in Signals /\ exit # 1
    <3>1. r.ending \in {Killed, Terminated}
      BY <1>11
    <3>2. r.ending \in Nat /\ r.ending # Raises /\ r.ending # Absent
      BY <3>1 DEF Raises, Absent, Killed, Terminated
    <3>3. exit = r.ending
      BY <1>2, <3>2
    <3> QED BY <3>1, <3>3 DEF Killed, Terminated, Alarm, Signals
  <2>3. Significance(r) = 212
    <3>1. /\ exit \in {1, 128, Alarm, 201} \cup DockerErrors \cup Signals
          /\ "sanitizer" \in r.marks => exit # 1
      BY <2>2
    <3>2. RunAnalysis(exit, r.marks) = IF exit \in Signals THEN 212 ELSE 214
      BY <3>1, MiscListed
    <3> QED BY <1>1, <2>2, <3>2
  <2> QED BY <2>1, <2>3
<1> QED BY <1>3, <1>4, <1>5, <1>6, <1>7, <1>8, <1>9, <1>10, <1>11

\* A run that should crash is "ok" for a crash alone, and a run that should not is "bad"
\* for every crash; a run that was killed looks like a crash, and what comes late like none.
LEMMA PovTells ==
    ASSUME NEW crashExpected \in BOOLEAN, NEW r \in PovResults[crashExpected]
    PROVE  /\ crashExpected => /\ r.outcome = "ok" => r.event \in {"crash", "killed"}
                               /\ r.outcome = "bad" => r.event \in {"no crash", "late"}
           /\ ~crashExpected => /\ r.outcome = "ok" => r.event \in {"no crash", "late"}
                                /\ r.outcome = "bad" <=> r.event \in {"crash", "killed"}
<1>1. PovResults[crashExpected] =
        {Result(p.event, RunPovOutcome(p, crashExpected)) : p \in Reproductions}
  BY DEF PovResults
<1>2. PICK p \in Reproductions : r = Result(p.event, RunPovOutcome(p, crashExpected))
  BY <1>1
<1>3. r.event = p.event /\ r.outcome = RunPovOutcome(p, crashExpected)
  BY <1>2, ResultFields
<1> DEFINE options == PovCommand(crashExpected)
<1>4. PovOptionsFit(options) /\ ("-x" \in options <=> ~crashExpected)
  BY DEF PovCommand, PovOptionsFit
<1> HIDE DEF options
<1>5. RunPovOutcome(p, crashExpected) = Outcome(RunPovScript(options, p))
  BY DEF RunPovOutcome, options
<1>6. /\ Significance(p) \in {213, 214} => RunPovScript(options, p) = 201
      /\ Significance(p) = 0 => RunPovScript(options, p) = IF crashExpected THEN 202 ELSE 0
      /\ Significance(p) \in {211, 212} => RunPovScript(options, p) = IF crashExpected THEN 0 ELSE 202
  BY <1>4 DEF RunPovScript
<1>7. /\ Significance(p) \in {213, 214} => r.outcome = "error"
      /\ Significance(p) = 0 => r.outcome = IF crashExpected THEN "bad" ELSE "ok"
      /\ Significance(p) \in {211, 212} => r.outcome = IF crashExpected THEN "ok" ELSE "bad"
  BY <1>3, <1>5, <1>6 DEF Outcome
<1>8. \/ p.event \in {"crash", "killed"} /\ r.outcome = IF crashExpected THEN "ok" ELSE "bad"
      \/ p.event \in {"no crash", "late"} /\ r.outcome = IF crashExpected THEN "bad" ELSE "ok"
      \/ p.event \notin {"crash", "killed"} /\ r.outcome = "error"
  <2>1. CASE p.event \in {"crash", "killed"} /\ Significance(p) \in {211, 212}
    BY <1>7, <2>1
  <2>2. CASE p.event \in {"no crash", "late"} /\ Significance(p) = 0
    BY <1>7, <2>2
  <2>3. CASE p.event \notin {"crash", "killed"} /\ Significance(p) \in {213, 214}
    BY <1>7, <2>3
  <2>4. \/ p.event = "crash" /\ Significance(p) \in {211, 212}
        \/ p.event = "no crash" /\ Significance(p) \in {0, 213}
        \/ p.event = "prevented" /\ Significance(p) \in {213, 214}
        \/ p.event = "late" /\ Significance(p) \in {0, 214}
        \/ p.event = "killed" /\ Significance(p) = 212
    <3>1. Told(p)
      BY RunsAreTold
    <3> QED BY <3>1 DEF Told
  <2>5. /\ Significance(p) \in {0, 213, 214} => Significance(p) = 0 \/ Significance(p) \in {213, 214}
        /\ Significance(p) = 212 => Significance(p) \in {211, 212}
    OBVIOUS
  <2> QED BY <2>1, <2>2, <2>3, <2>4, <2>5
<1> QED BY <1>3, <1>8

\* build_cr.sh with exit codes asked for: the image is never the submission's fault, nor
\* is an exit code of docker.
LEMMA BuildCommandFits ==
    BuildOptionsFit(BuildCommand) /\ "-e" \in BuildCommand
  BY DEF BuildOptionsFit, BuildCommand

LEMMA BuildPropagates ==
    ASSUME NEW ending \in Nat
    PROVE  BuildExit(BuildCommand, ending) =
            IF ending = Raises THEN 1 ELSE IF ending = Absent THEN 201 ELSE ending
  BY HelperPropagates, BuildCommandFits DEF BuildExit

LEMMA BuildSucceeds == BuildScript(BuildCommand, <<0, 0, 0>>) = 0
<1>1. \A k \in DOMAIN <<0, 0, 0>> : <<0, 0, 0>>[k] = 0
  OBVIOUS
<1>2. BuildExit(BuildCommand, 0) = 0
  BY BuildPropagates DEF Raises, Absent
<1> QED BY <1>1, <1>2, BuildCommandFits DEF BuildScript

FailsAt(endings, n, c) ==
    DOMAIN endings = 1 .. n /\ endings[n] = c /\ \A k \in 1 .. n - 1 : endings[k] = 0

LEMMA BuildFails ==
    ASSUME NEW endings, NEW n \in Nat \ {0}, NEW c \in Nat \ {0}, FailsAt(endings, n, c)
    PROVE  BuildScript(BuildCommand, endings) =
            IF n = 1 \/ c \in DockerErrors \cup {Killed, 201, Absent} THEN 201 ELSE 202
<1> DEFINE exit(k) == BuildExit(BuildCommand, endings[k])
           troubles == exit(n) \in DockerErrors \cup {Killed, 201}
<1>0. /\ DOMAIN endings = 1 .. n /\ endings[n] = c
      /\ \A k \in 1 .. n - 1 : endings[k] = 0
  BY DEF FailsAt
<1>1. exit(n) = IF c = Raises THEN 1 ELSE IF c = Absent THEN 201 ELSE c
  BY <1>0, BuildPropagates
<1>2. \A k \in 1 .. n - 1 : exit(k) = 0
  BY <1>0, BuildPropagates DEF Raises, Absent
<1>3. exit(n) # 0
  BY <1>1
<1>4. troubles <=> c \in DockerErrors \cup {Killed, 201, Absent}
  BY <1>1 DEF DockerErrors, Killed, Absent, Raises
<1>5. n \in DOMAIN endings /\ \A k \in DOMAIN endings : EndsAt(BuildCommand, endings, k) <=> k = n
  <2> SUFFICES ASSUME NEW k \in 1 .. n PROVE EndsAt(BuildCommand, endings, k) <=> k = n
    BY <1>0
  <2>1. CASE k = n
    BY <1>2, <1>3, <2>1 DEF EndsAt
  <2>2. CASE k # n
    <3>1. k \in 1 .. n - 1
      BY <2>2
    <3> QED BY <1>2, <2>2, <3>1 DEF EndsAt
  <2> QED BY <2>1, <2>2
<1>6. BuildScript(BuildCommand, endings) = IF n = 1 \/ troubles THEN 201 ELSE 202
  <2>1. ~\A k \in DOMAIN endings : exit(k) = 0
    BY <1>3, <1>5
  <2>2. (\E k \in DOMAIN endings : EndsAt(BuildCommand, endings, k)
            /\ (k = 1 \/ exit(k) \in DockerErrors \cup {Killed, 201}))
        <=> n = 1 \/ troubles
    BY <1>5
  <2> QED BY <2>1, <2>2, BuildCommandFits DEF BuildScript
<1> QED BY <1>4, <1>6

\* A build is "ok" only when there is something built, and "bad" only for the code, or for
\* a mishap that looks like it.
BuildTold(r) ==
    /\ r.outcome = "ok" => r.event = "built"
    /\ r.outcome = "bad" => r.event \in {"faulty", "mishap"}

LEMMA BuildTells ==
    ASSUME NEW r \in BuildResults PROVE BuildTold(r)
<1>1. PICK b \in Builds : r = Result(b.event, BuildOutcome(b))
  BY DEF BuildResults
<1>2. r.event = b.event /\ r.outcome = BuildOutcome(b)
  BY <1>1, ResultFields
<1> DEFINE exit == BuildScript(BuildCommand, b.endings)
<1>3. /\ exit = 201 => r.outcome = "error"
      /\ exit = 202 /\ b.marks # {} => r.outcome = "error"
  BY <1>2 DEF BuildOutcome, Outcome
<1> HIDE DEF exit
<1>4. /\ exit = 0 => r.outcome = "ok"
      /\ exit = 202 /\ b.marks = {} => r.outcome = "bad"
  BY <1>2 DEF BuildOutcome, Outcome, exit
<1>5. \/ b \in [event : {"built"},     endings : {<<0, 0, 0>>},                       marks : {{}}]
      \/ b \in [event : {"faulty"},    endings : {<<0, c>> : c \in Faults},           marks : {{}}]
      \/ b \in [event : {"faulty"},    endings : {<<0, 0, c>> : c \in Faults},        marks : {{}}]
      \/ b \in [event : {"mishap"},    endings : {<<0, c>> : c \in Mishaps},          marks : {{}}]
      \/ b \in [event : {"mishap"},    endings : {<<0, 0, c>> : c \in Mishaps},       marks : {{}}]
      \/ b \in [event : {"prevented"}, endings : {<<c>> : c \in ImageTroubles},       marks : {{}}]
      \/ b \in [event : {"prevented"}, endings : {<<0, c>> : c \in FuzzersTroubles},  marks : {{}}]
      \/ b \in [event : {"prevented"}, endings : {<<0, 0, c>> : c \in CheckTroubles}, marks : {{}}]
      \/ b \in [event : {"prevented"}, endings : {<<0, c>> : c \in Mishaps},          marks : {{"apt"}, {"maven"}}]
  BY DEF Builds
<1>6. ASSUME NEW c \in Nat \ {0}, b.endings = <<c>> \/ b.endings = <<0, c>> \/ b.endings = <<0, 0, c>>
      PROVE  exit = IF b.endings = <<c>> \/ c \in DockerErrors \cup {Killed, 201, Absent}
                    THEN 201 ELSE 202
  <2>1. CASE b.endings = <<c>>
    <3>1. BuildScript(BuildCommand, <<c>>) = 201
      <4> DEFINE e == <<c>>
      <4>1. FailsAt(e, 1, c)
        BY DEF FailsAt
      <4> HIDE DEF e
      <4>2. BuildScript(BuildCommand, e) =
                IF 1 = 1 \/ c \in DockerErrors \cup {Killed, 201, Absent} THEN 201 ELSE 202
        BY <4>1, BuildFails
      <4> QED BY <4>2 DEF e
    <3> QED BY <2>1, <3>1 DEF exit
  <2>2. CASE b.endings = <<0, c>>
    <3>1. BuildScript(BuildCommand, <<0, c>>) =
            IF c \in DockerErrors \cup {Killed, 201, Absent} THEN 201 ELSE 202
      <4> DEFINE e == <<0, c>>
      <4>1. FailsAt(e, 2, c)
        BY DEF FailsAt
      <4> HIDE DEF e
      <4>2. BuildScript(BuildCommand, e) =
                IF 2 = 1 \/ c \in DockerErrors \cup {Killed, 201, Absent} THEN 201 ELSE 202
        BY <4>1, BuildFails
      <4> QED BY <4>2 DEF e
    <3> QED BY <2>2, <3>1 DEF exit
  <2>3. CASE b.endings = <<0, 0, c>>
    <3>1. BuildScript(BuildCommand, <<0, 0, c>>) =
            IF c \in DockerErrors \cup {Killed, 201, Absent} THEN 201 ELSE 202
      <4> DEFINE e == <<0, 0, c>>
      <4>1. FailsAt(e, 3, c)
        BY DEF FailsAt
      <4> HIDE DEF e
      <4>2. BuildScript(BuildCommand, e) =
                IF 3 = 1 \/ c \in DockerErrors \cup {Killed, 201, Absent} THEN 201 ELSE 202
        BY <4>1, BuildFails
      <4> QED BY <4>2 DEF e
    <3> QED BY <2>3, <3>1 DEF exit
  <2> QED BY <1>6, <2>1, <2>2, <2>3
<1>7. CASE b \in [event : {"built"}, endings : {<<0, 0, 0>>}, marks : {{}}]
  <2>1. b.event = "built" /\ b.endings = <<0, 0, 0>>
    BY <1>7
  <2>2. exit = 0
    BY <2>1, BuildSucceeds DEF exit
  <2> QED BY <1>2, <1>4, <2>1, <2>2 DEF BuildTold
<1>8. CASE b \in [event : {"faulty"}, endings : {<<0, c>> : c \in Faults}, marks : {{}}]
  <2>1. PICK c \in Faults : b.endings = <<0, c>>
    BY <1>8
  <2>2. b.event = "faulty"
    BY <1>8
  <2>3. exit \in {201, 202}
    BY <1>6, <2>1 DEF Faults, Unlisted
  <2>4. r.outcome \in {"error", "bad"}
    BY <1>3, <1>4, <2>3
  <2> QED BY <1>2, <2>2, <2>4 DEF BuildTold
<1>9. CASE b \in [event : {"faulty"}, endings : {<<0, 0, c>> : c \in Faults}, marks : {{}}]
  <2>1. PICK c \in Faults : b.endings = <<0, 0, c>>
    BY <1>9
  <2>2. b.event = "faulty"
    BY <1>9
  <2>3. exit \in {201, 202}
    BY <1>6, <2>1 DEF Faults, Unlisted
  <2>4. r.outcome \in {"error", "bad"}
    BY <1>3, <1>4, <2>3
  <2> QED BY <1>2, <2>2, <2>4 DEF BuildTold
<1>10. CASE b \in [event : {"mishap"}, endings : {<<0, c>> : c \in Mishaps}, marks : {{}}]
  <2>1. PICK c \in Mishaps : b.endings = <<0, c>>
    BY <1>10
  <2>2. b.event = "mishap"
    BY <1>10
  <2>3. exit \in {201, 202}
    BY <1>6, <2>1 DEF Mishaps, Unlisted, Terminated, Raises
  <2>4. r.outcome \in {"error", "bad"}
    BY <1>3, <1>4, <2>3
  <2> QED BY <1>2, <2>2, <2>4 DEF BuildTold
<1>11. CASE b \in [event : {"mishap"}, endings : {<<0, 0, c>> : c \in Mishaps}, marks : {{}}]
  <2>1. PICK c \in Mishaps : b.endings = <<0, 0, c>>
    BY <1>11
  <2>2. b.event = "mishap"
    BY <1>11
  <2>3. exit \in {201, 202}
    BY <1>6, <2>1 DEF Mishaps, Unlisted, Terminated, Raises
  <2>4. r.outcome \in {"error", "bad"}
    BY <1>3, <1>4, <2>3
  <2> QED BY <1>2, <2>2, <2>4 DEF BuildTold
<1>12. CASE b \in [event : {"prevented"}, endings : {<<c>> : c \in ImageTroubles}, marks : {{}}]
  <2>1. PICK c \in ImageTroubles : b.endings = <<c>>
    BY <1>12
  <2>2. exit = 201
    BY <1>6, <2>1 DEF ImageTroubles, DockerErrors, Absent, Raises, Killed, Terminated, Unlisted
  <2> QED BY <1>3, <2>2 DEF BuildTold
<1>13. CASE b \in [event : {"prevented"}, endings : {<<0, c>> : c \in FuzzersTroubles}, marks : {{}}]
  <2>1. PICK c \in FuzzersTroubles : b.endings = <<0, c>>
    BY <1>13
  <2>2. exit = 201
    BY <1>6, <2>1 DEF FuzzersTroubles, DockerErrors, Killed, Absent
  <2> QED BY <1>3, <2>2 DEF BuildTold
<1>14. CASE b \in [event : {"prevented"}, endings : {<<0, 0, c>> : c \in CheckTroubles}, marks : {{}}]
  <2>1. PICK c \in CheckTroubles : b.endings = <<0, 0, c>>
    BY <1>14
  <2>2. exit = 201
    BY <1>6, <2>1 DEF CheckTroubles, DockerErrors, Killed, Absent
  <2> QED BY <1>3, <2>2 DEF BuildTold
<1>15. CASE b \in [event : {"prevented"}, endings : {<<0, c>> : c \in Mishaps}, marks : {{"apt"}, {"maven"}}]
  <2>1. PICK c \in Mishaps : b.endings = <<0, c>>
    BY <1>15
  <2>2. b.marks # {}
    BY <1>15
  <2>3. exit \in {201, 202}
    BY <1>6, <2>1 DEF Mishaps, Unlisted, Terminated, Raises
  <2> QED BY <1>3, <2>2, <2>3 DEF BuildTold
<1> QED BY <1>5, <1>7, <1>8, <1>9, <1>10, <1>11, <1>12, <1>13, <1>14, <1>15

\* The tests passed, or failed, or had a mishap, which looks like a failure.
TestsTold(r) ==
    /\ r.outcome = "ok" => r.event = "passed"
    /\ r.outcome = "bad" => r.event \in {"failed", "mishap"}

LEMMA TestsTell ==
    ASSUME NEW r \in TestsResults PROVE TestsTold(r)
<1>1. PICK t \in TestRuns : r = Result(t.event, TestsOutcome(t))
  BY DEF TestsResults
<1>2. r.event = t.event /\ r.outcome = TestsOutcome(t)
  BY <1>1, ResultFields
<1> DEFINE options == TestsCommand(TRUE)
<1>3. /\ options \subseteq {"-p", "-r", "-i", "-t", "-d", "-x"} /\ {"-p", "-r"} \subseteq options
      /\ ~({"-i", "-d"} \subseteq options) /\ "-x" \notin options
  BY DEF TestsCommand
<1> HIDE DEF options
<1>4. TestsOutcome(t) = Outcome(TestsScript(options, t))
  BY DEF TestsOutcome, options
<1>5. TestsScript(options, t) =
        IF ~t.executable \/ t.exit \in DockerErrors \cup {Killed} THEN 201
        ELSE IF t.exit = 0 THEN 0 ELSE 202
  BY <1>3 DEF TestsScript
<1>6. /\ ~t.executable \/ t.exit \in DockerErrors \cup {Killed} => r.outcome = "error"
      /\ t.executable /\ t.exit = 0 => r.outcome \in {"ok", "error"}
      /\ t.executable /\ t.exit # 0 => r.outcome \in {"bad", "error"}
  BY <1>2, <1>4, <1>5 DEF Outcome
<1>7. \/ t \in [event : {"passed"},    exit : {0},                        executable : {TRUE}]
      \/ t \in [event : {"failed"},    exit : Faults,                     executable : {TRUE}]
      \/ t \in [event : {"mishap"},    exit : Mishaps \ {Raises},         executable : {TRUE}]
      \/ t \in [event : {"prevented"}, exit : DockerErrors \cup {Killed}, executable : {TRUE}]
      \/ t \in [event : {"prevented"}, exit : {0},                        executable : {FALSE}]
  BY DEF TestRuns
<1>8. CASE t \in [event : {"passed"}, exit : {0}, executable : {TRUE}]
  <2>1. t.event = "passed" /\ t.executable /\ t.exit = 0
    BY <1>8
  <2> QED BY <1>2, <1>6, <2>1 DEF TestsTold
<1>9. CASE t \in [event : {"failed"}, exit : Faults, executable : {TRUE}]
  <2>1. t.event = "failed" /\ t.executable
    BY <1>9
  <2>2. t.exit # 0
    BY <1>9 DEF Faults, Unlisted
  <2> QED BY <1>2, <1>6, <2>1, <2>2 DEF TestsTold
<1>10. CASE t \in [event : {"mishap"}, exit : Mishaps \ {Raises}, executable : {TRUE}]
  <2>1. t.event = "mishap" /\ t.executable
    BY <1>10
  <2>2. t.exit # 0
    BY <1>10 DEF Mishaps, Unlisted, Terminated
  <2> QED BY <1>2, <1>6, <2>1, <2>2 DEF TestsTold
<1>11. CASE t \in [event : {"prevented"}, exit : DockerErrors \cup {Killed}, executable : {TRUE}]
  <2>1. t.exit \in DockerErrors \cup {Killed}
    BY <1>11
  <2> QED BY <1>6, <2>1 DEF TestsTold
<1>12. CASE t \in [event : {"prevented"}, exit : {0}, executable : {FALSE}]
  <2>1. ~t.executable
    BY <1>12
  <2> QED BY <1>6, <2>1 DEF TestsTold
<1> QED BY <1>7, <1>8, <1>9, <1>10, <1>11, <1>12

\* The files of a patch: only allowed ones are "ok", and "bad" without an absent or a
\* forbidden one there is not.
LEMMA FilesTell ==
    ASSUME NEW files \in SUBSET Files
    PROVE  /\ "ok" \in CheckFiles(files) => CheckFiles(files) = {"ok"}
           /\ CheckFiles(files) = {"ok"} => files \subseteq {"allowed"}
           /\ "bad" \in CheckFiles(files) => "absent" \in files \/ "forbidden" \in files
<1> DEFINE stops == {o \in {"bad", "error"} :
                        (IF o = "bad" THEN "absent" ELSE "unreadable") \in files}
<1>1. CheckFiles(files) = IF stops # {} THEN stops
                          ELSE {IF "forbidden" \in files THEN "bad" ELSE "ok"}
  BY DEF CheckFiles
<1>2. "ok" \notin stops /\ ("bad" \in stops <=> "absent" \in files)
      /\ ("error" \in stops <=> "unreadable" \in files)
  OBVIOUS
<1> HIDE DEF stops
<1>3. CASE stops # {}
  BY <1>1, <1>2, <1>3
<1>4. CASE stops = {}
  BY <1>1, <1>2, <1>4 DEF Files
<1> QED BY <1>3, <1>4

\* A patch is "ok" if it is one of allowed files that applies; it is "bad" if it is not, or
\* for a mishap, but not for what prevented a look at it.
ApplyTold(r) ==
    /\ r.outcome = "ok" => r.event = "fits"
    /\ r.outcome = "bad" => r.event \in {"unfit", "mishap"}

LEMMA ApplyTells ==
    ASSUME NEW r \in ApplyResults PROVE ApplyTold(r)
<1>1. PICK p \in Patches : \E o \in ApplyOutcomes(p) : r = Result(PatchEvent(p), o)
  BY DEF ApplyResults
<1> DEFINE o == r.outcome
<1>2. r.event = PatchEvent(p) /\ o \in ApplyOutcomes(p)
  BY <1>1, ResultFields
<1>3. /\ p.opens \in BOOLEAN /\ p.parses \in BOOLEAN /\ p.applies \in BOOLEAN
      /\ p.killed \in BOOLEAN /\ p.before \in SUBSET Files /\ p.after \in SUBSET Files
  BY DEF Patches
<1>4. CASE o = "ok"
  <2>1. p.opens /\ p.parses /\ BeforeGit(p) = CheckFiles(p.before) /\ "ok" \in CheckFiles(p.before)
        /\ "ok" \in AfterGit(p)
    BY <1>2, <1>3, <1>4, FilesTell DEF ApplyOutcomes, BeforeGit
  <2>2. CheckFiles(p.after) = {"ok"} /\ p.applies /\ ~p.killed
    BY <1>3, <2>1, FilesTell DEF AfterGit
  <2>3. p.before \cup p.after \subseteq {"allowed"}
    BY <1>3, <2>1, <2>2, FilesTell
  <2>4. PatchEvent(p) = "fits"
    BY <2>1, <2>2, <2>3 DEF PatchEvent
  <2> QED BY <1>2, <1>4, <2>4 DEF ApplyTold
<1>5. CASE o = "bad"
  <2> DEFINE files == p.before \cup p.after
             sound == p.opens /\ p.parses /\ p.applies
  <2>1. ASSUME sound
        PROVE  p.killed \/ \E f \in files : f \in {"absent", "forbidden"}
    <3>1. CASE BeforeGit(p) = {"ok"}
      <4>1. "bad" \in AfterGit(p)
        BY <1>2, <1>5, <3>1 DEF ApplyOutcomes
      <4>2. p.killed \/ "bad" \in CheckFiles(p.after)
        BY <2>1, <4>1 DEF AfterGit
      <4> QED BY <1>3, <4>2, FilesTell
    <3>2. CASE BeforeGit(p) # {"ok"}
      <4>1. "bad" \in CheckFiles(p.before)
        BY <1>2, <1>5, <2>1, <3>2 DEF ApplyOutcomes, BeforeGit
      <4> QED BY <1>3, <4>1, FilesTell
    <3> QED BY <3>1, <3>2
  <2>2. PatchEvent(p) \in {"unfit", "mishap"}
    <3>1. ASSUME sound, ~p.killed
          PROVE  ~(files \subseteq {"allowed"})
      BY <2>1, <3>1
    <3>2. ASSUME sound
          PROVE  files \notin {{"unreadable"}, {"unreadable", "allowed"}}
      <4>1. CASE "bad" \in BeforeGit(p)
        BY <1>3, <3>2, <4>1, FilesTell DEF BeforeGit
      <4>2. CASE "bad" \notin BeforeGit(p)
        <5>1. "bad" \in AfterGit(p) /\ BeforeGit(p) = {"ok"}
          BY <1>2, <1>5, <4>2 DEF ApplyOutcomes
        <5>2. p.before \subseteq {"allowed"}
          BY <1>3, <3>2, <5>1, FilesTell DEF BeforeGit
        <5>3. CASE CheckFiles(p.after) = {"ok"}
          BY <1>3, <5>2, <5>3, FilesTell
        <5>4. CASE CheckFiles(p.after) # {"ok"}
          <6>1. "bad" \in CheckFiles(p.after)
            BY <5>1, <5>4 DEF AfterGit
          <6> QED BY <1>3, <6>1, FilesTell
        <5> QED BY <5>3, <5>4
      <4> QED BY <4>1, <4>2
    <3> HIDE DEF files
    <3> QED BY <3>1, <3>2 DEF PatchEvent, files
  <2> QED BY <1>2, <1>5, <2>2 DEF ApplyTold
<1> QED BY <1>2, <1>4, <1>5 DEF ApplyTold

(***************************************************************************)
(* The stages.                                                             *)
(***************************************************************************)

LEMMA FourteenStages == Len(AllStages) = 14 /\ DOMAIN AllStages = 1 .. 14
  BY DEF AllStages

\* No stage comes twice.
LEMMA StagesDiffer ==
    ASSUME NEW j \in 1 .. Len(AllStages), NEW k \in 1 .. Len(AllStages), AllStages[j] = AllStages[k]
    PROVE  j = k
  BY FourteenStages DEF AllStages

\* What is done on what.
LEMMA StagesHave ==
    ASSUME NEW st \in Stages
    PROVE  /\ st.do \in {"fetch", "check", "build", "pov", "apply", "tests"}
           /\ st.do \in {"apply", "tests"} => st.on = "patch"
           /\ \E k \in 1 .. Len(AllStages) : st = AllStages[k]
  BY FourteenStages DEF Stages, AllStages

LEMMA StageInStages ==
    ASSUME NEW k \in 1 .. Len(AllStages) PROVE AllStages[k] \in Stages
  BY FourteenStages DEF Stages

\* The tool of a stage.
LEMMA ToolsOfStages ==
    ASSUME NEW st
    PROVE  /\ st.do = "check" => PossibleIn(st) = CheckResults
           /\ st.do = "build" => PossibleIn(st) = BuildResults
           /\ st.do = "pov" => PossibleIn(st) = PovResults[st.on = "head"]
           /\ st.do = "tests" => PossibleIn(st) = TestsResults
           /\ st.do = "apply" => PossibleIn(st) = ApplyResults
  BY DEF PossibleIn

LEMMA PossibleAreEvents ==
    ASSUME NEW st \in Stages, st.do # "fetch", NEW r \in PossibleIn(st)
    PROVE  r.event \in Events /\ r = Result(r.event, r.outcome)
<1>1. r \in AllResults
  <2>1. CASE st.do = "pov"
    <3>1. CASE st.on = "head"
      <4>1. (st.on = "head") = TRUE
        BY <3>1
      <4> QED BY <2>1, <4>1, ToolsOfStages DEF AllResults
    <3>2. CASE st.on # "head"
      <4>1. (st.on = "head") = FALSE
        BY <3>2
      <4> QED BY <2>1, <4>1, ToolsOfStages DEF AllResults
    <3> QED BY <3>1, <3>2
  <2> QED BY <2>1, ToolsOfStages, StagesHave DEF AllResults
<1>2. \E event, outcome : r = Result(event, outcome)
  <2>1. CASE r \in PovResults[TRUE] \/ r \in PovResults[FALSE]
    BY <2>1 DEF PovResults
  <2>2. CASE r \in CheckResults
    BY <2>2 DEF CheckResults
  <2>3. CASE r \in BuildResults
    BY <2>3 DEF BuildResults
  <2>4. CASE r \in TestsResults
    BY <2>4 DEF TestsResults
  <2>5. CASE r \in ApplyResults
    BY <2>5 DEF ApplyResults
  <2> QED BY <1>1, <2>1, <2>2, <2>3, <2>4, <2>5 DEF AllResults
<1>3. r = Result(r.event, r.outcome)
  BY <1>2, ResultFields
<1> QED BY <1>1, <1>3 DEF Events

\* Something that happens has an outcome in its stage alone; only a build that succeeds is
\* forgotten.
LEMMA HappensInStage ==
    ASSUME StageApplies, Stage.do # "fetch", SeenIsPossible, UNCHANGED input,
           NEW o \in Outcomes, Happens(o)
    PROVE  /\ SeenIsPossible'
           /\ \A st : st # Stage => OutcomesOf(st)' = OutcomesOf(st)
           /\ \A st : st = Stage => OutcomesOf(st)' =
                (IF Stage.do = "build" /\ o = "ok" THEN {} ELSE OutcomesOf(st)) \cup {o}
<1>1. Stage \in Stages
  BY StageInStages DEF StageApplies, Stage
<1>2. PICK r \in PossibleIn(Stage) :
        /\ r.outcome = o
        /\ seen' = (seen \ Forgotten(o))
                \cup {[stage |-> Stage, event |-> r.event, outcome |-> o]}
  BY DEF Happens
<1> DEFINE n == [stage |-> Stage, event |-> r.event, outcome |-> o]
<1>3. n.stage = Stage /\ n.event = r.event /\ n.outcome = o
  OBVIOUS
<1>4. r.event \in Events /\ r = Result(r.event, r.outcome)
  BY <1>1, PossibleAreEvents
<1>5. n \in [stage : Stages, event : Events, outcome : Outcomes]
  BY <1>1, <1>4
<1>6. Result(n.event, n.outcome) \in PossibleIn(n.stage)
  BY <1>2, <1>3, <1>4
<1>7. seen' = (seen \ Forgotten(o)) \cup {n}
  BY <1>2
<1> HIDE DEF n
<1>8. SeenIsPossible'
  BY <1>3, <1>5, <1>6, <1>7 DEF SeenIsPossible, StageApplies
<1>9. Forgotten(o) = IF Stage.do = "build" /\ o = "ok" THEN {h \in seen : h.stage = Stage} ELSE {}
  BY DEF Forgotten
<1>10. ASSUME NEW st, st # Stage PROVE OutcomesOf(st)' = OutcomesOf(st)
  BY <1>3, <1>7, <1>9, <1>10 DEF OutcomesOf
<1>11. ASSUME NEW st, st = Stage
       PROVE  OutcomesOf(st)' =
                (IF Stage.do = "build" /\ o = "ok" THEN {} ELSE OutcomesOf(st)) \cup {o}
  BY <1>3, <1>7, <1>9, <1>11 DEF OutcomesOf
<1> QED BY <1>8, <1>10, <1>11

\* What a step of evaluate leaves alone, and what may have happened in the others stages.
SameElsewhere ==
    /\ UNCHANGED <<input, expired, verdict, final>>
    /\ SeenIsPossible'
    /\ \A st : st # Stage => OutcomesOf(st)' = OutcomesOf(st)

LEMMA HappensElsewhere ==
    ASSUME StageApplies, SeenIsPossible, UNCHANGED <<input, expired, verdict, final>>,
           UNCHANGED seen \/ (Stage.do # "fetch" /\ \E o \in Outcomes : Happens(o))
    PROVE  SameElsewhere
<1>1. CASE UNCHANGED seen
  BY <1>1 DEF SameElsewhere, SeenIsPossible, OutcomesOf
<1>2. CASE \E o \in Outcomes : Stage.do # "fetch" /\ Happens(o)
  BY <1>2, HappensInStage DEF SameElsewhere
<1> QED BY <1>1, <1>2

LEMMA VerdictsStay ==
    ASSUME ResultIsEarned, result = {}, UNCHANGED <<verdict, final>>
    PROVE  \A v \in verdict' \cup final' : v.status = "inconclusive" /\ v.status # "failed"
  BY DEF ResultIsEarned

\* A stage at its place in the sequence.
LEMMA OtherStages ==
    ASSUME StageApplies, NEW k \in 1 .. Len(AllStages), k # at
    PROVE  AllStages[k] # Stage
  BY StagesDiffer DEF StageApplies, Stage

\* A stage that has succeeded is left for the next one that applies, or for the result.
LEMMA NextStageKeepsJudgeInv ==
    ASSUME JudgeInv, result = {}, SameElsewhere, NextStage,
           \A st : st = Stage /\ st.do # "fetch" => Succeeded(st)'
    PROVE  JudgeInv'
<1> USE DEF JudgeInv
<1>2. Len(AllStages) \in Nat
  BY FourteenStages
<1>1. /\ step' = "idle" /\ tries' = 0 /\ troubled' = FALSE /\ at \in 1 .. Len(AllStages)
      /\ at' \in 1 .. Len(AllStages) /\ at <= at' /\ Applies(input', AllStages[at'])
      /\ result' # {} => result' = {[status |-> "passed", testsFailed |-> FALSE]} /\ Ahead = {}
      /\ result' = {} => at' \in Ahead /\ at < at'
      /\ \A k \in Ahead : at' <= k
  <2>1. step' = "idle" /\ tries' = 0 /\ troubled' = FALSE
    BY DEF NextStage
  <2>2. /\ at \in 1 .. Len(AllStages) /\ Applies(input, Stage) /\ input' = input
    BY DEF StageApplies, SameElsewhere
  <2>3. \A k \in Ahead : k \in 1 .. Len(AllStages) /\ at < k /\ Applies(input, AllStages[k])
    BY <1>2, <2>2 DEF Ahead
  <2>4. CASE Ahead = {}
    <3>1. at' = at /\ result' = {[status |-> "passed", testsFailed |-> FALSE]}
      BY <2>4 DEF NextStage
    <3>2. at <= at' /\ Applies(input', AllStages[at']) /\ at' \in 1 .. Len(AllStages)
      BY <1>2, <2>2, <3>1 DEF Stage
    <3>3. result' # {}
      BY <3>1
    <3> QED BY <2>1, <2>2, <2>4, <3>1, <3>2, <3>3
  <2>5. CASE Ahead # {}
    <3>1. at' \in Ahead /\ \A k \in Ahead : at' <= k
      BY <2>5 DEF NextStage
    <3>2. result' = {}
      BY <2>5 DEF NextStage
    <3>3. at < at' /\ at <= at'
      BY <1>2, <2>2, <2>3, <3>1
    <3> QED BY <2>1, <2>2, <2>3, <3>1, <3>2, <3>3
  <2> QED BY <2>4, <2>5
<1>3. StageApplies'
  BY <1>1 DEF StageApplies, Stage, ReportSteps, SameElsewhere
<1>4. ASSUME NEW k \in 1 .. Len(AllStages), k < at, Applies(input, AllStages[k]),
             AllStages[k].do # "fetch"
      PROVE  Succeeded(AllStages[k])'
  <2>1. Succeeded(AllStages[k]) /\ AllStages[k] # Stage
    BY <1>1, <1>4, OtherStages DEF StagesInOrder
  <2>2. OutcomesOf(AllStages[k])' = OutcomesOf(AllStages[k])
    BY <2>1 DEF SameElsewhere
  <2> QED BY <2>1, <2>2 DEF Succeeded
<1>5. ASSUME NEW k \in 1 .. Len(AllStages), k > at PROVE OutcomesOf(AllStages[k])' = {}
  <2>1. AllStages[k] # Stage /\ OutcomesOf(AllStages[k]) = {}
    BY <1>1, <1>5, OtherStages DEF StagesInOrder
  <2> QED BY <2>1 DEF SameElsewhere
<1>6. ASSUME NEW k \in 1 .. Len(AllStages), k <= at, Applies(input, AllStages[k]),
             AllStages[k].do # "fetch"
      PROVE  Succeeded(AllStages[k])'
  <2>1. CASE k = at
    BY <1>6, <2>1 DEF Stage
  <2>2. CASE k < at
    BY <1>4, <1>6, <2>2
  <2> QED BY <1>1, <1>2, <1>6, <2>1, <2>2
<1>7. ASSUME NEW k \in 1 .. Len(AllStages), k > at, k < at' \/ Ahead = {}
      PROVE  ~Applies(input, AllStages[k])
  <2>1. k \in Ahead => at' <= k /\ Ahead # {}
    BY <1>1
  <2>2. k \notin Ahead
    BY <1>1, <1>2, <1>7, <2>1
  <2> QED BY <1>1, <1>2, <1>7, <2>2 DEF Ahead
<1>8. ASSUME NEW k \in 1 .. Len(AllStages)
      PROVE  k < at' => k <= at \/ (k > at /\ k < at')
  BY <1>1, <1>2
<1>9. StagesInOrder'
  <2>1. ASSUME NEW k \in 1 .. Len(AllStages), k > at' PROVE OutcomesOf(AllStages[k])' = {}
    BY <1>1, <1>2, <1>5, <2>1
  <2>2. ASSUME NEW k \in 1 .. Len(AllStages), k < at', Applies(input', AllStages[k]),
               AllStages[k].do # "fetch"
        PROVE  Succeeded(AllStages[k])'
    BY <1>6, <1>7, <1>8, <2>2 DEF SameElsewhere
  <2> QED BY <2>1, <2>2 DEF StagesInOrder
<1>10. StageAtHand'
  <2>1. SUFFICES ASSUME result' = {} PROVE StageAtHand'
    BY DEF StageAtHand
  <2>2. PICK k \in 1 .. Len(AllStages) : k = at'
    BY <1>1
  <2>3. OutcomesOf(AllStages[k])' = {}
    <3>1. k > at
      BY <1>1, <1>2, <2>1, <2>2
    <3> QED BY <1>5, <3>1
  <2>4. OutcomesOf(Stage)' = {}
    BY <2>2, <2>3 DEF Stage, OutcomesOf
  <2>5. tries' \in 0 .. MaxBuilds - 1 /\ tries' \in 0 .. MaxRuns - 1
    BY <1>1 DEF MaxBuilds, MaxRuns
  <2>6. step' \notin ReportSteps
    BY <1>1 DEF ReportSteps
  <2> QED BY <2>4, <2>5, <2>6 DEF StageAtHand
<1>11. ResultIsEarned'
  <2>1. ASSUME result' # {}, NEW k \in 1 .. Len(AllStages), Applies(input', AllStages[k]),
               AllStages[k].do # "fetch"
        PROVE  Succeeded(AllStages[k])'
    <3>1. Ahead = {}
      BY <1>1, <2>1
    <3>2. k <= at \/ k > at
      BY <1>1, <1>2
    <3> QED BY <1>6, <1>7, <2>1, <3>1, <3>2 DEF SameElsewhere
  <2>2. \A r \in result' : r.status = "passed"
    BY <1>1
  <2>3. \A v \in verdict' \cup final' : v.status = "inconclusive" /\ v.status # "failed"
    BY VerdictsStay DEF SameElsewhere
  <2> QED BY <2>1, <2>2, <2>3 DEF ResultIsEarned
<1> QED BY <1>3, <1>9, <1>10, <1>11 DEF SameElsewhere

\* evaluate returns an error of the infrastructure, or the blame of the submission.
LEMMA ReturnKeepsJudgeInv ==
    ASSUME JudgeInv, result = {}, SameElsewhere, NEW status \in {"failed", "errored"},
           NEW testsFailed \in BOOLEAN, Return(status, testsFailed),
           status = "failed" => Blamed' \/ expired
    PROVE  JudgeInv'
<1> USE DEF JudgeInv
<1>1. /\ step' = "idle" /\ at' = at /\ result' = {[status |-> status, testsFailed |-> testsFailed]}
      /\ Stage' = Stage /\ at \in 1 .. Len(AllStages)
  BY SameStage DEF Return, StageApplies, SameElsewhere
<1>2. result' # {} /\ \A r \in result' : r.status = status
  BY <1>1
<1>3. StageApplies'
  BY <1>1, <1>2 DEF StageApplies, SameElsewhere
<1>4. StagesInOrder'
  <2>1. ASSUME NEW k \in 1 .. Len(AllStages), k # at
        PROVE  OutcomesOf(AllStages[k])' = OutcomesOf(AllStages[k])
    BY <2>1, OtherStages DEF SameElsewhere
  <2>2. ASSUME NEW k \in 1 .. Len(AllStages), k > at PROVE OutcomesOf(AllStages[k])' = {}
    BY <1>1, <2>1, <2>2, FourteenStages DEF StagesInOrder
  <2>3. ASSUME NEW k \in 1 .. Len(AllStages), k < at, Applies(input, AllStages[k]),
               AllStages[k].do # "fetch"
        PROVE  Succeeded(AllStages[k])'
    <3>1. Succeeded(AllStages[k]) /\ k # at
      BY <1>1, <2>3, FourteenStages DEF StagesInOrder
    <3> QED BY <2>1, <3>1 DEF Succeeded
  <2> QED BY <1>1, <2>2, <2>3 DEF StagesInOrder, SameElsewhere
<1>5. ResultIsEarned'
  <2>1. \A v \in verdict' \cup final' : v.status = "inconclusive" /\ v.status # "failed"
    BY VerdictsStay DEF SameElsewhere
  <2> QED BY <1>2, <2>1 DEF ResultIsEarned, SameElsewhere
<1> QED BY <1>2, <1>3, <1>4, <1>5 DEF StageAtHand, SameElsewhere

\* evaluate goes on in its stage.
LEMMA StageKeepsJudgeInv ==
    ASSUME JudgeInv, result = {}, SameElsewhere, UNCHANGED <<at, result>>,
           StageApplies', StageAtHand'
    PROVE  JudgeInv'
<1> USE DEF JudgeInv
<1>1. at \in 1 .. Len(AllStages)
  BY DEF StageApplies
<1>2. StagesInOrder'
  <2>1. ASSUME NEW k \in 1 .. Len(AllStages), k # at
        PROVE  OutcomesOf(AllStages[k])' = OutcomesOf(AllStages[k])
    BY <2>1, OtherStages DEF SameElsewhere
  <2>2. ASSUME NEW k \in 1 .. Len(AllStages), k > at PROVE OutcomesOf(AllStages[k])' = {}
    BY <1>1, <2>1, <2>2, FourteenStages DEF StagesInOrder
  <2>3. ASSUME NEW k \in 1 .. Len(AllStages), k < at, Applies(input, AllStages[k]),
               AllStages[k].do # "fetch"
        PROVE  Succeeded(AllStages[k])'
    <3>1. Succeeded(AllStages[k]) /\ k # at
      BY <1>1, <2>3, FourteenStages DEF StagesInOrder
    <3> QED BY <2>1, <3>1 DEF Succeeded
  <2> QED BY <1>1, <2>2, <2>3 DEF StagesInOrder, SameElsewhere
<1>3. ResultIsEarned'
  <2>1. \A v \in verdict' \cup final' : v.status = "inconclusive" /\ v.status # "failed"
    BY VerdictsStay DEF SameElsewhere
  <2> QED BY <2>1 DEF ResultIsEarned, SameElsewhere
<1> QED BY <1>2, <1>3 DEF SameElsewhere

\* A tool other than the build has put the blame on the submission.
LEMMA BadIsBlame ==
    ASSUME Stage.do # "build", Happens("bad") PROVE Blamed'
<1>1. PICK n : n \in seen' /\ n.stage = Stage /\ n.outcome = "bad"
  BY HappensAdds
<1> QED BY <1>1 DEF Blamed

\* So has a build all of whose attempts did.
LEMMA BadBuildIsBlame ==
    ASSUME Stage.on = "patch", Happens("bad"),
           \A st : st = Stage => OutcomesOf(st)' = {"bad"}
    PROVE  Blamed'
<1>1. PICK n : n \in seen' /\ n.stage = Stage /\ n.outcome = "bad"
  BY HappensAdds
<1>2. OutcomesOf(n.stage)' = {"bad"}
  BY <1>1
<1> QED BY <1>1, <1>2 DEF Blamed

\* evaluate does nothing that is remembered.
LEMMA QuietElsewhere ==
    ASSUME JudgeInv, UNCHANGED <<input, expired, verdict, final, seen>>
    PROVE  /\ SameElsewhere
           /\ \A st : OutcomesOf(st)' = OutcomesOf(st)
           /\ Blamed <=> Blamed'
  BY HappensElsewhere DEF JudgeInv, OutcomesOf, Blamed

\* A stage that is over with one command at most.
LEMMA CommandKeepsJudgeInv ==
    ASSUME JudgeInv, result = {}, UNCHANGED <<input, expired, verdict, final>>,
           Stage.do \in {"check", "apply", "tests"}, NEW o \in Outcomes, Happens(o),
           NEW testsFailed \in BOOLEAN,
           \/ o = "ok" /\ NextStage
           \/ o = "bad" /\ Return("failed", testsFailed)
           \/ o = "error" /\ Return("errored", FALSE)
    PROVE  JudgeInv'
<1> USE DEF JudgeInv
<1>1. Stage.do # "fetch" /\ Stage.do # "build" /\ Stage.do # "pov"
  OBVIOUS
<1>2. SameElsewhere
  BY <1>1, HappensElsewhere
<1>3. ASSUME NEW st, st = Stage PROVE OutcomesOf(st) = {} /\ OutcomesOf(st)' = {o}
  <2>1. OutcomesOf(st) = {}
    BY <1>3 DEF StageAtHand
  <2> QED BY <1>1, <1>3, <2>1, HappensInStage
<1>4. CASE o = "ok" /\ NextStage
  <2>1. \A st : st = Stage => Succeeded(st)'
    BY <1>3, <1>4 DEF Succeeded
  <2> QED BY <1>2, <1>4, <2>1, NextStageKeepsJudgeInv
<1>5. CASE o = "bad" /\ Return("failed", testsFailed)
  <2>1. Blamed'
    BY <1>1, <1>5, BadIsBlame
  <2> QED BY <1>2, <1>5, <2>1, ReturnKeepsJudgeInv
<1>6. CASE o = "error" /\ Return("errored", FALSE)
  BY <1>2, <1>6, ReturnKeepsJudgeInv
<1> QED BY <1>4, <1>5, <1>6

LEMMA SingleStepsKeepJudgeInv ==
    ASSUME JudgeInv, UNCHANGED <<input, expired, verdict, final>>, Check \/ EndApply \/ EndTests
    PROVE  JudgeInv'
<1>1. CASE Check
  BY <1>1, CommandKeepsJudgeInv DEF Check, Evaluating
<1>2. CASE EndApply
  BY <1>2, CommandKeepsJudgeInv DEF EndApply, Evaluating
<1>3. CASE EndTests
  <2>1. PICK o \in Outcomes :
            /\ Happens(o)
            /\ \/ o = "ok" /\ NextStage
               \/ o = "bad" /\ Return("failed", TRUE)
               \/ o = "error" /\ Return("errored", FALSE)
    BY <1>3 DEF EndTests
  <2>2. result = {} /\ Stage.do = "tests"
    BY <1>3 DEF EndTests, Evaluating
  <2> QED BY <2>1, <2>2, CommandKeepsJudgeInv
<1> QED BY <1>1, <1>2, <1>3

\* The files are there, or a command could not be started, run or reported.
LEMMA GivingUpKeepsJudgeInv ==
    ASSUME JudgeInv, UNCHANGED <<input, expired, verdict, final>>,
           \/ Fetch \/ CommandRefused \/ BuildGivesUp \/ RunBreaks \/ UploadGivenUp \/ QueueFails
    PROVE  JudgeInv'
<1> USE DEF reportVars, uploadVars
<1>1. UNCHANGED seen /\ result = {}
  BY DEF Fetch, CommandRefused, BuildGivesUp, RunBreaks, UploadGivenUp, QueueFails, Evaluating,
         Uploading
<1>2. SameElsewhere
  BY <1>1, QuietElsewhere
<1>3. CASE Stage.do = "fetch" /\ NextStage
  <2>1. \A st : st = Stage /\ st.do # "fetch" => Succeeded(st)'
    BY <1>3
  <2> QED BY <1>1, <1>2, <1>3, <2>1, NextStageKeepsJudgeInv
<1>4. CASE Return("errored", FALSE)
  BY <1>1, <1>2, <1>4, ReturnKeepsJudgeInv
<1>5. CASE Return("failed", FALSE) /\ expired
  BY <1>1, <1>2, <1>5, ReturnKeepsJudgeInv
<1> QED BY <1>3, <1>4, <1>5
        DEF Fetch, CommandRefused, BuildGivesUp, BuildReturns, RunBreaks, UploadGivenUp, QueueFails

\* A command starts, and what it leaves is uploaded and reported.
LEMMA ReportingKeepsJudgeInv ==
    ASSUME JudgeInv, UNCHANGED <<input, expired, verdict, final>>,
           \/ BeginCommand \/ UploadBegins \/ UploadAttemptFails \/ UploadEnds
           \/ QueueResult \/ QueueArtifact
    PROVE  JudgeInv'
<1> USE DEF JudgeInv, reportVars, uploadVars, stageVars
<1>1. UNCHANGED <<at, tries, last, troubled, result, fuzzOut, seen>> /\ result = {}
  BY DEF BeginCommand, UploadBegins, UploadAttemptFails, UploadEnds, QueueResult, QueueArtifact,
         Evaluating, Uploading
<1>2. SameElsewhere /\ Stage' = Stage /\ \A st : OutcomesOf(st)' = OutcomesOf(st)
  BY <1>1, QuietElsewhere, SameStage
<1>3. \/ step' = step
      \/ step = "idle" /\ step' = "running" /\ Stage.do \in {"apply", "build", "pov", "tests"}
      \/ step \in ReportSteps /\ step' \in ReportSteps
         /\ (step' \in {"fuzz.out", "artifact"} => fuzzOut # {})
  <2>1. CASE BeginCommand
    BY <2>1 DEF BeginCommand
  <2>2. CASE UploadBegins \/ UploadAttemptFails
    BY <2>2 DEF UploadBegins, UploadAttemptFails
  <2>3. CASE UploadEnds
    <3>1. step \in {"stdout", "stderr", "fuzz.out"} /\ step' = AfterUpload(step)
      BY <2>3 DEF UploadEnds, Uploading
    <3>2. step = "fuzz.out" => fuzzOut # {}
      BY <1>1 DEF StageApplies
    <3> QED BY <3>1, <3>2 DEF AfterUpload, ReportSteps
  <2>4. CASE QueueResult
    BY <2>4 DEF QueueResult, ReportSteps
  <2>5. CASE QueueArtifact
    BY <2>5 DEF QueueArtifact, ReportSteps
  <2> QED BY <2>1, <2>2, <2>3, <2>4, <2>5
<1>4. "idle" \notin ReportSteps /\ "running" \notin ReportSteps
  BY DEF ReportSteps
<1>5. StageApplies'
  <2>1. /\ step' \in {"idle", "running"} \cup ReportSteps
        /\ Stage.do # "pov" => step' \in {"idle", "running"}
        /\ Stage.do \in {"fetch", "check"} => step' = "idle"
        /\ step' \in {"fuzz.out", "artifact"} => fuzzOut # {}
    BY <1>1, <1>3, <1>4 DEF StageApplies
  <2> QED BY <1>1, <1>2, <2>1 DEF StageApplies
<1>6. StageAtHand'
  <2>1. step' \in ReportSteps <=> step \in ReportSteps
    BY <1>3, <1>4
  <2>2. OutcomesOf(Stage)' = OutcomesOf(Stage) /\ CrashExpected' = CrashExpected
    BY <1>1, <1>2 DEF OutcomesOf, CrashExpected
  <2> QED BY <1>1, <1>2, <2>1, <2>2 DEF StageAtHand
<1> QED BY <1>1, <1>2, <1>5, <1>6, StageKeepsJudgeInv

\* The switch at the end of RunPov.
LEMMA JudgeRunKeepsJudgeInv ==
    ASSUME JudgeInv, UNCHANGED <<input, expired, verdict, final>>, JudgeRun
    PROVE  JudgeInv'
<1> USE DEF JudgeInv
<1>1. UNCHANGED seen /\ result = {} /\ step \in ReportSteps
  BY DEF JudgeRun, Evaluating, ReportSteps
<1>2. SameElsewhere /\ (\A st : OutcomesOf(st)' = OutcomesOf(st)) /\ (Blamed <=> Blamed')
  BY <1>1, QuietElsewhere
<1>3. Stage.do = "pov"
  <2>1. "idle" \notin ReportSteps /\ "running" \notin ReportSteps
    BY DEF ReportSteps
  <2> QED BY <1>1, <2>1 DEF StageApplies
<1>4. /\ last \in OutcomesOf(Stage)
      /\ last # "bad" => "bad" \notin OutcomesOf(Stage)
      /\ Stage.on = "head" => OutcomesOf(Stage) = {last}
  BY <1>1, <1>3 DEF StageAtHand, CrashExpected
<1>5. CASE last = "ok" /\ NextStage
  <2>1. ASSUME NEW st, st = Stage PROVE Succeeded(st)'
    <3>1. OutcomesOf(st)' = OutcomesOf(Stage)
      BY <1>2, <2>1
    <3> QED BY <1>3, <1>4, <1>5, <2>1, <3>1 DEF Succeeded
  <2> QED BY <1>1, <1>2, <1>5, <2>1, NextStageKeepsJudgeInv
<1>6. CASE last = "bad" /\ Return("failed", FALSE)
  <2>1. PICK h \in seen : h.stage = Stage /\ h.outcome = "bad"
    BY <1>4, <1>6 DEF OutcomesOf
  <2>2. Blamed
    BY <1>3, <2>1 DEF Blamed
  <2> QED BY <1>1, <1>2, <1>6, <2>2, ReturnKeepsJudgeInv
<1>7. CASE last = "error" /\ Return("errored", FALSE)
  BY <1>1, <1>2, <1>7, ReturnKeepsJudgeInv
<1> QED BY <1>5, <1>6, <1>7 DEF JudgeRun

\* An attempt of BuildRetryEngine.
LEMMA EndBuildKeepsJudgeInv ==
    ASSUME JudgeInv, UNCHANGED <<input, expired, verdict, final>>, EndBuild
    PROVE  JudgeInv'
<1> USE DEF JudgeInv
<1>1. PICK o \in Outcomes :
        /\ Happens(o)
        /\ \/ o = "ok" /\ NextStage
           \/ /\ o # "ok" /\ tries + 1 < MaxBuilds
              /\ tries' = tries + 1
              /\ troubled' = (troubled \/ o = "error")
              /\ step' = "idle"
              /\ UNCHANGED <<at, last, result>>
           \/ /\ o # "ok" /\ tries + 1 = MaxBuilds
              /\ BuildReturns(troubled \/ o = "error")
  BY DEF EndBuild
<1>2. result = {} /\ Stage.do = "build"
  BY DEF EndBuild, Evaluating
<1>3. SameElsewhere
  BY <1>1, <1>2, HappensElsewhere
<1>4. /\ tries \in 0 .. MaxBuilds - 1
      /\ OutcomesOf(Stage) \subseteq IF troubled THEN {"bad", "error"} ELSE {"bad"}
  BY <1>2 DEF StageAtHand
<1>5. ASSUME NEW st, st = Stage
      PROVE  OutcomesOf(st)' = (IF o = "ok" THEN {} ELSE OutcomesOf(Stage)) \cup {o}
  BY <1>1, <1>2, <1>5, HappensInStage
<1>6. CASE o = "ok" /\ NextStage
  <2>1. \A st : st = Stage => Succeeded(st)'
    BY <1>2, <1>5, <1>6 DEF Succeeded
  <2> QED BY <1>2, <1>3, <1>6, <2>1, NextStageKeepsJudgeInv
<1>7. CASE /\ o # "ok" /\ tries + 1 < MaxBuilds
           /\ tries' = tries + 1
           /\ troubled' = (troubled \/ o = "error")
           /\ step' = "idle"
           /\ UNCHANGED <<at, last, result>>
  <2>1. Stage' = Stage /\ "idle" \notin ReportSteps
    BY <1>3, <1>7, SameStage DEF SameElsewhere, ReportSteps
  <2>2. StageApplies'
    BY <1>2, <1>3, <1>7, <2>1 DEF StageApplies, SameElsewhere
  <2>3. tries' \in 0 .. MaxBuilds - 1
    BY <1>4, <1>7 DEF MaxBuilds
  <2>4. OutcomesOf(Stage)' = OutcomesOf(Stage) \cup {o}
    BY <1>5, <1>7, <2>1 DEF OutcomesOf
  <2>5. OutcomesOf(Stage)' \subseteq IF troubled' THEN {"bad", "error"} ELSE {"bad"}
    BY <1>1, <1>4, <1>7, <2>4 DEF Outcomes
  <2>6. StageAtHand'
    BY <1>2, <2>1, <2>3, <2>5 DEF StageAtHand
  <2> QED BY <1>2, <1>3, <1>7, <2>2, <2>6, StageKeepsJudgeInv
<1>8. CASE o # "ok" /\ BuildReturns(troubled \/ o = "error")
  <2>1. CASE Return("errored", FALSE)
    BY <1>2, <1>3, <2>1, ReturnKeepsJudgeInv
  <2>2. CASE Return("failed", FALSE) /\ Stage.on = "patch" /\ ~troubled /\ o = "bad"
    <3>1. \A st : st = Stage => OutcomesOf(st)' = {"bad"}
      BY <1>4, <1>5, <2>2
    <3>2. Blamed'
      BY <1>1, <2>2, <3>1, BadBuildIsBlame
    <3> QED BY <1>2, <1>3, <2>2, <3>2, ReturnKeepsJudgeInv
  <2> QED BY <1>8, <2>1, <2>2 DEF BuildReturns, Outcomes
<1> QED BY <1>1, <1>6, <1>7, <1>8

\* A run of the target.
LEMMA EndRunKeepsJudgeInv ==
    ASSUME JudgeInv, UNCHANGED <<input, expired, verdict, final>>, EndRun
    PROVE  JudgeInv'
<1> USE DEF JudgeInv
<1>1. PICK o \in Outcomes :
        /\ Happens(o) /\ last' = o /\ tries' = tries + 1
        /\ step' = IF CrashExpected \/ o = "bad" \/ tries' = MaxRuns THEN "stdout" ELSE "idle"
  BY DEF EndRun
<1>2. /\ result = {} /\ Stage.do = "pov" /\ step = "running"
      /\ UNCHANGED <<at, troubled, result>>
  BY DEF EndRun, Evaluating
<1>3. SameElsewhere
  BY <1>1, <1>2, HappensElsewhere
<1>4. /\ "running" \notin ReportSteps /\ "idle" \notin ReportSteps /\ "stdout" \in ReportSteps
      /\ step' \notin {"fuzz.out", "artifact"}
  BY <1>1 DEF ReportSteps
<1>5. /\ tries \in 0 .. MaxRuns - 1
      /\ "bad" \notin OutcomesOf(Stage)
      /\ CrashExpected => OutcomesOf(Stage) = {}
  BY <1>2, <1>4 DEF StageAtHand
<1>6. Stage' = Stage /\ CrashExpected' = CrashExpected
  BY <1>2, SameStage DEF CrashExpected
<1>7. OutcomesOf(Stage)' = OutcomesOf(Stage) \cup {o}
  <2>1. \A st : st = Stage => OutcomesOf(st)' = OutcomesOf(Stage) \cup {o}
    BY <1>1, <1>2, HappensInStage
  <2> QED BY <1>6, <2>1 DEF OutcomesOf
<1>8. StageApplies'
  BY <1>1, <1>2, <1>3, <1>4, <1>6 DEF StageApplies, SameElsewhere
<1>9. StageAtHand'
  <2>1. CASE CrashExpected \/ o = "bad" \/ tries' = MaxRuns
    <3>1. step' = "stdout"
      BY <1>1, <2>1
    <3> QED BY <1>1, <1>2, <1>4, <1>5, <1>6, <1>7, <3>1 DEF StageAtHand
  <2>2. CASE ~CrashExpected /\ o # "bad" /\ tries' # MaxRuns
    <3>1. step' = "idle"
      BY <1>1, <2>2
    <3>2. tries' \in 0 .. MaxRuns - 1
      BY <1>1, <1>5, <2>2 DEF MaxRuns
    <3> QED BY <1>2, <1>4, <1>5, <1>6, <1>7, <2>2, <3>1, <3>2 DEF StageAtHand
  <2> QED BY <2>1, <2>2
<1> QED BY <1>2, <1>3, <1>8, <1>9, StageKeepsJudgeInv

\* Evaluate: the verdict is the result, or inconclusive when the deadline has passed.
LEMMA MainKeepsJudgeInv ==
    ASSUME JudgeInv, MainStep \/ DeadlineExpires \/ UNCHANGED vars PROVE JudgeInv'
<1> USE DEF JudgeInv, stageVars, reportVars, uploadVars
<1>1. UNCHANGED <<input, at, step, tries, last, troubled, result, fuzzOut, seen>>
  BY DEF MainStep, DeadlineExpires, vars
<1>2. Stage' = Stage /\ (\A st : OutcomesOf(st)' = OutcomesOf(st)) /\ (Blamed' <=> Blamed)
  BY <1>1, SameStage DEF OutcomesOf, Blamed
<1>3. StageApplies' /\ SeenIsPossible' /\ StageAtHand'
  BY <1>1, <1>2 DEF StageApplies, SeenIsPossible, StageAtHand, CrashExpected, OutcomesOf
<1>4. StagesInOrder'
  BY <1>1, <1>2 DEF StagesInOrder, Succeeded
<1>5. expired => expired'
  BY DEF MainStep, Start, SetupFails, TimeOut, ReceiveResult, SendFinal, SendFinalFails,
         DeadlineExpires, vars
<1>6. ASSUME \A v \in verdict' \cup final' :
                \/ v \in verdict \cup final
                \/ v.status = "inconclusive" /\ v.status # "failed"
                \/ v \in result /\ ~expired
      PROVE  ResultIsEarned'
  <2>1. ASSUME NEW k \in 1 .. Len(AllStages)
        PROVE  Succeeded(AllStages[k])' <=> Succeeded(AllStages[k])
    BY <1>2 DEF Succeeded
  <2>2. ASSUME NEW r \in result', r.status = "passed", NEW k \in 1 .. Len(AllStages),
               Applies(input', AllStages[k]), AllStages[k].do # "fetch"
        PROVE  Succeeded(AllStages[k])'
    BY <1>1, <2>1, <2>2 DEF ResultIsEarned
  <2>3. \A r \in result' : r.status = "failed" => Blamed' \/ expired'
    BY <1>1, <1>2, <1>5 DEF ResultIsEarned
  <2>4. ASSUME NEW v \in verdict' \cup final'
        PROVE  /\ v.status # "inconclusive" => v \in result'
               /\ v.status = "failed" => Blamed'
    <3>1. CASE v \in verdict \cup final
      BY <1>1, <1>2, <3>1 DEF ResultIsEarned
    <3>2. CASE v.status = "inconclusive" /\ v.status # "failed"
      BY <3>2
    <3>3. CASE v \in result /\ ~expired
      BY <1>1, <1>2, <3>3 DEF ResultIsEarned
    <3> QED BY <1>6, <3>1, <3>2, <3>3
  <2> QED BY <2>2, <2>3, <2>4 DEF ResultIsEarned
<1>7. CASE TimeOut
  <2> DEFINE v == [status |-> "inconclusive", testsFailed |-> FALSE]
  <2>1. verdict' = {v} /\ final' = final
    BY <1>7 DEF TimeOut
  <2>2. v.status = "inconclusive" /\ v.status # "failed"
    OBVIOUS
  <2> HIDE DEF v
  <2> QED BY <1>3, <1>4, <1>6, <2>1, <2>2
<1>8. CASE ReceiveResult
  <2>1. final' = final
        /\ verdict' = {IF expired THEN [r EXCEPT !.status = "inconclusive"] ELSE r : r \in result}
    BY <1>8 DEF ReceiveResult
  <2>2. CASE expired
    <3>1. ASSUME NEW v \in verdict' PROVE v.status = "inconclusive" /\ v.status # "failed"
      <4>1. PICK r \in result : v = [r EXCEPT !.status = "inconclusive"]
        BY <2>1, <2>2, <3>1
      <4>2. v.status = "inconclusive"
        BY <4>1
      <4> QED BY <4>2
    <3> QED BY <1>3, <1>4, <1>6, <2>1, <3>1
  <2>3. CASE ~expired
    BY <1>3, <1>4, <1>6, <2>1, <2>3
  <2> QED BY <2>2, <2>3
<1>9. CASE Start \/ SetupFails \/ SendFinal \/ SendFinalFails \/ DeadlineExpires \/ UNCHANGED vars
  <2>1. verdict' \cup final' \subseteq verdict \cup final
    BY <1>9 DEF Start, SetupFails, SendFinal, SendFinalFails, DeadlineExpires, vars
  <2> QED BY <1>3, <1>4, <1>6, <2>1
<1> QED BY <1>7, <1>8, <1>9 DEF MainStep

LEMMA NextKeepsJudgeInv == JudgeInv /\ [Next]_vars => JudgeInv'
<1> SUFFICES ASSUME JudgeInv, [Next]_vars PROVE JudgeInv'
  OBVIOUS
<1>1. CASE EvaluateStep
  <2>1. UNCHANGED <<input, expired, verdict, final>>
    BY <1>1 DEF EvaluateStep
  <2> QED BY <1>1, <2>1, SingleStepsKeepJudgeInv, GivingUpKeepsJudgeInv, ReportingKeepsJudgeInv,
             JudgeRunKeepsJudgeInv, EndBuildKeepsJudgeInv, EndRunKeepsJudgeInv DEF EvaluateStep
<1> QED BY <1>1, MainKeepsJudgeInv DEF Next

LEMMA InitHoldsJudgeInv == Init => JudgeInv
<1> SUFFICES ASSUME Init PROVE JudgeInv
  OBVIOUS
<1>1. /\ input \in Inputs /\ at = 1 /\ step = "idle" /\ tries = 0 /\ troubled = FALSE
      /\ result = {} /\ verdict = {} /\ final = {} /\ seen = {}
  BY DEF Init
<1>2. at \in 1 .. Len(AllStages)
  BY <1>1, FourteenStages
<1>3. Stage = [do |-> "fetch", on |-> "tooling"]
  BY <1>1 DEF Stage, AllStages
<1>4. Stage.do = "fetch" /\ Stage.on = "tooling"
  BY <1>3
<1>5. \A st : OutcomesOf(st) = {}
  BY <1>1 DEF OutcomesOf
<1>6. StageApplies
  BY <1>1, <1>2, <1>4 DEF StageApplies, Applies, ReportSteps
<1>7. StagesInOrder
  <2>1. \A k \in 1 .. Len(AllStages) : ~(k < at)
    BY <1>1, FourteenStages
  <2> QED BY <1>5, <2>1 DEF StagesInOrder
<1>8. StageAtHand
  BY <1>4, <1>5 DEF StageAtHand
<1> QED BY <1>1, <1>6, <1>7, <1>8 DEF JudgeInv, SeenIsPossible, ResultIsEarned

\* The worker keeps its judgement, whatever the servers do with its artifacts.
THEOREM JudgeInductive == ArtifactsSpec => []JudgeInv
<1>1. ArtifactsInit => JudgeInv
  BY InitHoldsJudgeInv DEF ArtifactsInit
<1>2. JudgeInv /\ [ArtifactsNext]_<<vars, artifactVars>> => JudgeInv'
  BY NextKeepsJudgeInv DEF ArtifactsNext, HandleArtifact
<1> QED BY <1>1, <1>2, PTL DEF ArtifactsSpec

(***************************************************************************)
(* A verdict is what it says.                                              *)
(***************************************************************************)

\* What can have happened where the tool of a stage has an outcome.
LEMMA SeenIsTold ==
    ASSUME SeenIsPossible, NEW h \in seen
    PROVE  /\ h.stage \in Stages
           /\ h.stage.do \in {"check", "build", "pov", "apply", "tests"}
           /\ h.stage.do = "check" => /\ h.outcome = "ok" => h.event = "fits"
                                      /\ h.outcome = "bad" => h.event = "unfit"
           /\ h.stage.do = "build" => BuildTold(h)
           /\ h.stage.do = "tests" => TestsTold(h)
           /\ h.stage.do = "apply" => ApplyTold(h)
           /\ h.stage.do = "pov" /\ h.stage.on = "head" =>
                /\ h.outcome = "ok" => h.event \in {"crash", "killed"}
                /\ h.outcome = "bad" => h.event \in {"no crash", "late"}
           /\ h.stage.do = "pov" /\ h.stage.on # "head" =>
                /\ h.outcome = "ok" => h.event \in {"no crash", "late"}
                /\ h.outcome = "bad" <=> h.event \in {"crash", "killed"}
<1>1. /\ h \in [stage : Stages, event : Events, outcome : Outcomes]
      /\ Applies(input, h.stage) /\ h.stage.do # "fetch"
      /\ Result(h.event, h.outcome) \in PossibleIn(h.stage)
  BY DEF SeenIsPossible
<1>2. h.stage \in Stages /\ h.stage.do \in {"check", "build", "pov", "apply", "tests"}
  BY <1>1, StagesHave
<1> DEFINE r == Result(h.event, h.outcome)
<1>3. r.event = h.event /\ r.outcome = h.outcome /\ r \in PossibleIn(h.stage)
  BY <1>1, ResultFields
<1> HIDE DEF r
<1>4. h.stage.do = "check" => /\ h.outcome = "ok" => h.event = "fits"
                              /\ h.outcome = "bad" => h.event = "unfit"
  BY <1>3, CheckTells, ToolsOfStages
<1>5. ASSUME h.stage.do = "build" PROVE BuildTold(h)
  <2>1. BuildTold(r)
    BY <1>3, <1>5, BuildTells, ToolsOfStages
  <2> QED BY <1>3, <2>1 DEF BuildTold
<1>6. ASSUME h.stage.do = "tests" PROVE TestsTold(h)
  <2>1. TestsTold(r)
    BY <1>3, <1>6, TestsTell, ToolsOfStages
  <2> QED BY <1>3, <2>1 DEF TestsTold
<1>7. ASSUME h.stage.do = "apply" PROVE ApplyTold(h)
  <2>1. ApplyTold(r)
    BY <1>3, <1>7, ApplyTells, ToolsOfStages
  <2> QED BY <1>3, <2>1 DEF ApplyTold
<1>8. h.stage.do = "pov" /\ h.stage.on = "head" =>
            /\ h.outcome = "ok" => h.event \in {"crash", "killed"}
            /\ h.outcome = "bad" => h.event \in {"no crash", "late"}
  <2>1. h.stage.do = "pov" /\ h.stage.on = "head" => r \in PovResults[TRUE]
    <3>1. h.stage.on = "head" => (h.stage.on = "head") = TRUE
      OBVIOUS
    <3> QED BY <1>3, <3>1, ToolsOfStages
  <2> QED BY <1>3, <2>1, PovTells
<1>9. h.stage.do = "pov" /\ h.stage.on # "head" =>
            /\ h.outcome = "ok" => h.event \in {"no crash", "late"}
            /\ h.outcome = "bad" <=> h.event \in {"crash", "killed"}
  <2>1. h.stage.do = "pov" /\ h.stage.on # "head" => r \in PovResults[FALSE]
    <3>1. h.stage.on # "head" => (h.stage.on = "head") = FALSE
      OBVIOUS
    <3> QED BY <1>3, <3>1, ToolsOfStages
  <2> QED BY <1>3, <2>1, PovTells
<1> QED BY <1>2, <1>4, <1>5, <1>6, <1>7, <1>8, <1>9

\* A submission fails only through a fault of its own, or what cannot be told from one.
THEOREM FailuresAreFaults == ArtifactsSpec => []FailedHasAFault
<1>1. JudgeInv => FailedHasAFault
  <2> SUFFICES ASSUME JudgeInv, NEW v \in final, v.status = "failed"
               PROVE  \E h \in seen :
                        /\ h.outcome = "bad"
                        /\ h.event # "prevented"
                        /\ h.event \in LooksLikeAFault => h.stage.on = "patch" \/ h.stage.do = "pov"
                        /\ h.stage.do = "build" =>
                            h.stage.on = "patch" /\ OutcomesOf(h.stage) = {"bad"}
    BY DEF FailedHasAFault
  <2>1. PICK h \in seen :
            /\ h.outcome = "bad"
            /\ h.stage.do = "build" => h.stage.on = "patch" /\ OutcomesOf(h.stage) = {"bad"}
    BY DEF JudgeInv, ResultIsEarned, Blamed
  <2>2. h.stage.do \in {"check", "build", "pov", "apply", "tests"}
        /\ (h.stage.do \in {"apply", "tests"} => h.stage.on = "patch")
    BY SeenIsTold, StagesHave DEF JudgeInv
  <2>3. /\ h.event # "prevented"
        /\ h.event \in LooksLikeAFault => h.stage.on = "patch" \/ h.stage.do = "pov"
    <3>1. CASE h.stage.do = "check"
      <4>1. h.event = "unfit"
        BY <2>1, <3>1, SeenIsTold DEF JudgeInv
      <4> QED BY <4>1 DEF LooksLikeAFault
    <3>2. CASE h.stage.do = "build"
      <4>1. h.event \in {"faulty", "mishap"} /\ h.stage.on = "patch"
        BY <2>1, <3>2, SeenIsTold DEF JudgeInv, BuildTold
      <4> QED BY <4>1
    <3>3. CASE h.stage.do = "pov"
      <4>1. h.event \in {"no crash", "late", "crash", "killed"}
        BY <2>1, <3>3, SeenIsTold DEF JudgeInv
      <4> QED BY <3>3, <4>1
    <3>4. CASE h.stage.do = "apply"
      <4>1. h.event \in {"unfit", "mishap"}
        BY <2>1, <3>4, SeenIsTold DEF JudgeInv, ApplyTold
      <4> QED BY <2>2, <3>4, <4>1
    <3>5. CASE h.stage.do = "tests"
      <4>1. h.event \in {"failed", "mishap"}
        BY <2>1, <3>5, SeenIsTold DEF JudgeInv, TestsTold
      <4> QED BY <2>2, <3>5, <4>1
    <3> QED BY <2>2, <3>1, <3>2, <3>3, <3>4, <3>5
  <2> QED BY <2>1, <2>3
<1> QED BY <1>1, JudgeInductive, PTL

\* A stage that has succeeded has found out what it is there for.
LEMMA SuccessIsAchieved ==
    ASSUME SeenIsPossible, NEW st \in Stages, st.do # "fetch", Succeeded(st)
    PROVE  Achieved(st)
<1>1. PICK h \in seen : h.stage = st /\ h.outcome = "ok"
  BY DEF Succeeded, OutcomesOf
<1>2. \A g \in seen : g.stage = st => g.outcome # "bad"
  BY DEF Succeeded, OutcomesOf
<1>3. h.event \in EventsOf(st)
  BY <1>1 DEF EventsOf
<1>4. ASSUME st.do # "pov" \/ st.on = "head", NEW g \in seen, g.stage = st
      PROVE  g.outcome = "ok"
  BY <1>4 DEF Succeeded, OutcomesOf
<1>5. st.do \in {"check", "build", "pov", "apply", "tests"}
  BY StagesHave
<1>6. ASSUME NEW event, \A g \in seen : g.stage = st => g.event = event
      PROVE  EventsOf(st) = {event}
  BY <1>1, <1>6 DEF EventsOf
<1>7. CASE st.do \in {"check", "apply"}
  <2>1. EventsOf(st) = {"fits"}
    BY <1>4, <1>6, <1>7, SeenIsTold DEF ApplyTold
  <2> QED BY <1>7, <2>1 DEF Achieved
<1>8. CASE st.do = "build"
  <2>1. h.event = "built"
    BY <1>1, <1>8, SeenIsTold DEF BuildTold
  <2> QED BY <1>3, <1>8, <2>1 DEF Achieved
<1>9. CASE st.do = "tests"
  <2>1. EventsOf(st) = {"passed"}
    BY <1>4, <1>6, <1>9, SeenIsTold DEF TestsTold
  <2> QED BY <1>9, <2>1 DEF Achieved
<1>10. CASE st.do = "pov" /\ st.on = "head"
  <2>1. \A g \in seen : g.stage = st => g.event \in {"crash", "killed"}
    BY <1>4, <1>10, SeenIsTold
  <2>2. EventsOf(st) # {} /\ EventsOf(st) \subseteq {"crash", "killed"}
    BY <1>3, <2>1 DEF EventsOf
  <2> QED BY <1>10, <2>2 DEF Achieved
<1>11. CASE st.do = "pov" /\ st.on # "head"
  <2>1. \A g \in seen : g.stage = st => g.event # "crash"
    BY <1>2, <1>11, SeenIsTold
  <2>2. h.event # "prevented"
    BY <1>1, <1>11, SeenIsTold
  <2>3. "crash" \notin EventsOf(st) /\ EventsOf(st) # {"prevented"}
    BY <1>3, <2>1, <2>2 DEF EventsOf
  <2> QED BY <1>11, <2>3 DEF Achieved
<1> QED BY <1>5, <1>7, <1>8, <1>9, <1>10, <1>11

\* A passed submission is what it claims, whatever the tools had to tell it from.
THEOREM PassesAreTrue == ArtifactsSpec => []PassedIsTrue
<1>1. JudgeInv => PassedIsTrue
  <2> DEFINE v == [status |-> "passed", testsFailed |-> FALSE]
  <2> SUFFICES ASSUME JudgeInv, v \in final, NEW st \in Stages, Applies(input, st)
               PROVE  Achieved(st)
    BY DEF PassedIsTrue
  <2>1. v.status = "passed"
    OBVIOUS
  <2> HIDE DEF v
  <2>2. v \in result
    BY <2>1 DEF JudgeInv, ResultIsEarned
  <2>3. CASE st.do = "fetch"
    BY <2>3 DEF Achieved
  <2>4. CASE st.do # "fetch"
    <3>1. PICK k \in 1 .. Len(AllStages) : st = AllStages[k]
      BY StagesHave
    <3>2. Succeeded(st)
      BY <2>1, <2>2, <2>4, <3>1 DEF JudgeInv, ResultIsEarned
    <3> QED BY <2>4, <3>2, SuccessIsAchieved DEF JudgeInv
  <2> QED BY <2>3, <2>4
<1> QED BY <1>1, JudgeInductive, PTL

(***************************************************************************)
(* Types, and the worker that the pipeline assumes.                        *)
(***************************************************************************)

Blobs == [what : {"stdout", "stderr", "fuzz.out"}, of : Stages]

\* The loops of a stage, ...
StageTypes ==
    /\ tries \in 0 .. MaxBuilds /\ last \in Outcomes /\ troubled \in BOOLEAN
    /\ \A r, other \in result : r = other

\* ... what is uploaded and reported, ...
ReportTypes ==
    /\ results \subseteq Stages
    /\ artifacts \subseteq [stage : Stages, of : Stages]
    /\ fuzzOut \subseteq Stages
    /\ UploadsTypeOK(Blobs)

\* ... and Evaluate, that decides once, before it sends what it decided.
MainTypes ==
    /\ expired \in BOOLEAN
    /\ main \in {"starting", "waiting", "sending", "exit 0", "exit errored"}
    /\ verdict \subseteq Verdicts /\ final \subseteq verdict
    /\ \A v, other \in verdict : v = other
    /\ main \in {"starting", "waiting"} => verdict = {}
    /\ main = "sending" => verdict # {}
    /\ main \in {"starting", "waiting", "sending"} => final = {}

TypesInv == StageTypes /\ ReportTypes /\ MainTypes

LEMMA StagesKeepStageTypes ==
    ASSUME JudgeInv, TypesInv, EvaluateStep PROVE StageTypes'
<1> USE DEF TypesInv, JudgeInv, reportVars, uploadVars, stageVars
<1>0. 0 \in 0 .. MaxBuilds /\ "ok" \in Outcomes /\ FALSE \in BOOLEAN
  BY DEF MaxBuilds, Outcomes
<1>1. CASE NextStage
  <2>1. tries' = 0 /\ last' = last /\ troubled' = FALSE
    BY <1>1 DEF NextStage
  <2>2. \A r, other \in result' : r = other
    BY <1>1 DEF NextStage
  <2> QED BY <1>0, <2>1, <2>2 DEF StageTypes
<1>2. CASE \E status, testsFailed : Return(status, testsFailed)
  <2>1. tries' = 0 /\ last' = "ok" /\ troubled' = FALSE
    BY <1>2 DEF Return
  <2>2. \A r, other \in result' : r = other
    BY <1>2 DEF Return
  <2> QED BY <1>0, <2>1, <2>2 DEF StageTypes
<1>3. CASE UNCHANGED <<tries, last, troubled, result>>
  BY <1>3 DEF StageTypes
<1>4. CASE EndBuild
  <2>1. PICK o \in Outcomes :
            \/ NextStage
            \/ /\ tries + 1 < MaxBuilds
               /\ tries' = tries + 1
               /\ troubled' = (troubled \/ o = "error")
               /\ UNCHANGED <<last, result>>
            \/ BuildReturns(troubled \/ o = "error")
    BY <1>4 DEF EndBuild
  <2>2. CASE BuildReturns(troubled \/ o = "error")
    BY <1>2, <2>2 DEF BuildReturns
  <2>3. CASE /\ tries + 1 < MaxBuilds
             /\ tries' = tries + 1
             /\ troubled' = (troubled \/ o = "error")
             /\ UNCHANGED <<last, result>>
    <3>1. tries' \in 0 .. MaxBuilds
      BY <2>3 DEF StageTypes, MaxBuilds
    <3> QED BY <2>3, <3>1 DEF StageTypes
  <2> QED BY <1>1, <2>1, <2>2, <2>3
<1>5. CASE EndRun
  <2>1. last' \in Outcomes /\ tries' = tries + 1 /\ UNCHANGED <<troubled, result>>
    BY <1>5 DEF EndRun
  <2>2. tries \in 0 .. MaxRuns - 1
    <3>1. result = {} /\ Stage.do = "pov" /\ step \notin ReportSteps
      BY <1>5 DEF EndRun, Evaluating, ReportSteps
    <3> QED BY <3>1 DEF StageAtHand
  <2>3. tries' \in 0 .. MaxBuilds
    BY <2>1, <2>2 DEF MaxRuns, MaxBuilds
  <2> QED BY <2>1, <2>3 DEF StageTypes
<1>6. CASE BeginCommand \/ UploadBegins \/ UploadAttemptFails \/ UploadEnds \/ QueueResult
           \/ QueueArtifact
  <2>1. UNCHANGED <<tries, last, troubled, result>>
    BY <1>6 DEF BeginCommand, UploadBegins, UploadAttemptFails, UploadEnds, QueueResult,
                QueueArtifact
  <2> QED BY <1>3, <2>1
<1>7. CASE Fetch \/ Check \/ CommandRefused \/ BuildGivesUp \/ RunBreaks \/ UploadGivenUp
           \/ QueueFails \/ JudgeRun \/ EndApply \/ EndTests
  <2>1. NextStage \/ \E status, testsFailed : Return(status, testsFailed)
    BY <1>7 DEF Fetch, Check, CommandRefused, BuildGivesUp, BuildReturns, RunBreaks, UploadGivenUp,
                QueueFails, JudgeRun, EndApply, EndTests
  <2> QED BY <1>1, <1>2, <2>1
<1> QED BY <1>4, <1>5, <1>6, <1>7 DEF EvaluateStep

\* What is uploaded is the output of the run at hand, or the one fuzz.out.
LEMMA BlobIsTyped ==
    ASSUME StageApplies, ReportTypes, Uploading PROVE Blob \in Blobs
<1>1. step \in {"stdout", "stderr", "fuzz.out"} /\ result = {}
  BY DEF Uploading, Evaluating
<1>2. Stage \in Stages
  BY StageInStages DEF StageApplies, Stage
<1>3. step = "fuzz.out" => WriterOf(fuzzOut) \in Stages
  <2>1. step = "fuzz.out" => fuzzOut # {}
    BY <1>1 DEF StageApplies
  <2>2. fuzzOut # {} => WriterOf(fuzzOut) \in fuzzOut
    BY DEF WriterOf
  <2> QED BY <2>1, <2>2 DEF ReportTypes
<1> QED BY <1>1, <1>2, <1>3 DEF Blob, Blobs

\* A container keeps its type with every attempt of an upload.
LEMMA PutIsTyped ==
    ASSUME NEW contents, NEW blobs \in SUBSET [name : contents, content : contents \cup {Empty}],
           NEW name \in contents, NEW content \in contents \cup {Empty}
    PROVE  Put(blobs, name, content) \subseteq [name : contents, content : contents \cup {Empty}]
  BY DEF Put

LEMMA UploadsKeepTypes ==
    ASSUME NEW contents, NEW content \in contents, UploadsTypeOK(contents),
           \/ BeginUpload(content) \/ AttemptFails(content)
           \/ FindUploaded(content) \/ FinishUpload(content) \/ AbandonUpload
    PROVE  UploadsTypeOK(contents)'
<1> USE DEF UploadsTypeOK
<1>1. \A u \in upload : u \in [name : contents, reader : Positions] /\ u.name \in contents
  OBVIOUS
<1>2. ASSUME NEW c \in contents
      PROVE  Rest(c, "start") \in contents \cup {Empty}
  BY <1>2 DEF Rest
<1>3. CASE BeginUpload(content)
  <2>1. [name |-> content, reader |-> "start"] \in [name : contents, reader : Positions]
    BY DEF Positions
  <2> QED BY <1>3, <2>1 DEF BeginUpload
<1>4. CASE AttemptFails(content)
  <2>1. PICK u \in upload :
            /\ store' \in {store, Put(store, u.name, Rest(content, "start"))}
            /\ upload' = {[u EXCEPT !.reader = "end"]}
    BY <1>4 DEF AttemptFails, Rewind
  <2>2. [u EXCEPT !.reader = "end"] \in [name : contents, reader : Positions]
    BY <1>1 DEF Positions
  <2>3. store' \subseteq [name : contents, content : contents \cup {Empty}]
    BY <1>1, <1>2, <2>1, PutIsTyped
  <2> QED BY <2>1, <2>2, <2>3
<1>5. CASE FindUploaded(content)
  <2>1. store' = store \/ store' = Put(store, content, content)
    BY <1>5 DEF FindUploaded
  <2>2. upload' = upload
    BY <1>5 DEF FindUploaded
  <2> QED BY <2>1, <2>2, PutIsTyped
<1>6. CASE FinishUpload(content)
  <2>1. PICK u \in upload :
            store' = Put(store, u.name, Rest(content, "start")) /\ upload' = {}
    BY <1>6 DEF FinishUpload, Rewind
  <2> QED BY <1>1, <1>2, <2>1, PutIsTyped
<1>7. CASE AbandonUpload
  BY <1>7 DEF AbandonUpload
<1> QED BY <1>3, <1>4, <1>5, <1>6, <1>7

LEMMA StagesKeepReportTypes ==
    ASSUME JudgeInv, TypesInv, EvaluateStep PROVE ReportTypes'
<1> USE DEF TypesInv, JudgeInv, reportVars, uploadVars, stageVars
<1>1. Stage \in Stages
  BY StageInStages DEF StageApplies, Stage
<1>2. CASE UNCHANGED reportVars
  BY <1>2 DEF ReportTypes, UploadsTypeOK
<1>3. CASE EndRun
  <2>1. fuzzOut' \subseteq Stages
    BY <1>1, <1>3 DEF EndRun, RunWrites, ReportTypes
  <2>2. UNCHANGED <<results, artifacts, store, upload>>
    BY <1>3 DEF EndRun
  <2> QED BY <2>1, <2>2 DEF ReportTypes, UploadsTypeOK
<1>4. CASE UploadBegins \/ UploadAttemptFails \/ UploadEnds \/ UploadGivenUp
  <2>1. /\ Uploading /\ UNCHANGED <<results, artifacts, fuzzOut>>
        /\ \/ BeginUpload(Blob) \/ AttemptFails(Blob)
           \/ FindUploaded(Blob) \/ FinishUpload(Blob) \/ AbandonUpload
    BY <1>4 DEF UploadBegins, UploadAttemptFails, UploadEnds, UploadGivenUp
  <2>2. UploadsTypeOK(Blobs)'
    <3>1. Blob \in Blobs /\ UploadsTypeOK(Blobs)
      BY <2>1, BlobIsTyped DEF ReportTypes
    <3>2. PICK content : content = Blob
      OBVIOUS
    <3>3. content \in Blobs /\ (\/ BeginUpload(content) \/ AttemptFails(content)
           \/ FindUploaded(content) \/ FinishUpload(content) \/ AbandonUpload)
      BY <2>1, <3>1, <3>2
    <3> QED BY <3>1, <3>3, UploadsKeepTypes
  <2> QED BY <2>1, <2>2 DEF ReportTypes
<1>5. CASE QueueResult \/ QueueArtifact \/ QueueFails
  <2>1. UNCHANGED <<fuzzOut, store, upload>>
    BY <1>5 DEF QueueResult, QueueArtifact, QueueFails
  <2>2. results' \subseteq Stages
    BY <1>1, <1>5 DEF QueueResult, QueueArtifact, QueueFails, ReportTypes
  <2>3. [stage : {Stage}, of : fuzzOut] \subseteq [stage : Stages, of : Stages]
    BY <1>1 DEF ReportTypes
  <2>4. artifacts' \subseteq artifacts \cup [stage : {Stage}, of : fuzzOut]
    BY <1>5 DEF QueueResult, QueueArtifact, QueueFails
  <2> QED BY <2>1, <2>2, <2>3, <2>4 DEF ReportTypes, UploadsTypeOK
<1>6. CASE Fetch \/ Check \/ BeginCommand \/ CommandRefused \/ EndBuild \/ BuildGivesUp
           \/ RunBreaks \/ JudgeRun \/ EndApply \/ EndTests
  BY <1>2, <1>6 DEF Fetch, Check, BeginCommand, CommandRefused, EndBuild, BuildGivesUp,
                    RunBreaks, JudgeRun, EndApply, EndTests
<1> QED BY <1>3, <1>4, <1>5, <1>6 DEF EvaluateStep

LEMMA MainKeepsMainTypes ==
    ASSUME TypesInv, VerdictFollowsResult, [Next]_vars PROVE MainTypes'
<1> USE DEF TypesInv, MainTypes
<1>1. CASE UNCHANGED <<expired, main, verdict, final>>
  BY <1>1
<1>2. CASE EvaluateStep
  BY <1>1, <1>2 DEF EvaluateStep
<1>3. CASE DeadlineExpires
  BY <1>3 DEF DeadlineExpires
<1>4. CASE MainStep
  <2>1. expired' = expired
    BY <1>4 DEF MainStep
  <2>2. CASE Start \/ SetupFails
    BY <2>1, <2>2 DEF Start, SetupFails
  <2>3. CASE TimeOut
    <3>1. [status |-> "inconclusive", testsFailed |-> FALSE] \in Verdicts
      BY DEF Verdicts
    <3> QED BY <2>1, <2>3, <3>1 DEF TimeOut
  <2>4. CASE ReceiveResult
    <3>1. /\ main = "waiting" /\ result # {} /\ main' = "sending" /\ final' = final
          /\ verdict' = {IF expired THEN [r EXCEPT !.status = "inconclusive"] ELSE r : r \in result}
      BY <2>4 DEF ReceiveResult
    <3>2. ASSUME NEW r \in result PROVE r \in Verdicts /\ [r EXCEPT !.status = "inconclusive"] \in Verdicts
      BY DEF VerdictFollowsResult, Results, Verdicts
    <3>3. verdict' \subseteq Verdicts
      BY <3>1, <3>2
    <3>4. \A v, other \in verdict' : v = other
      BY <3>1 DEF StageTypes
    <3>5. verdict' # {}
      BY <3>1
    <3> QED BY <2>1, <3>1, <3>3, <3>4, <3>5
  <2>5. CASE SendFinal \/ SendFinalFails
    BY <2>1, <2>5 DEF SendFinal, SendFinalFails
  <2> QED BY <1>4, <2>2, <2>3, <2>4, <2>5 DEF MainStep
<1>5. CASE UNCHANGED vars
  BY <1>1, <1>5 DEF vars
<1> QED BY <1>2, <1>3, <1>4, <1>5 DEF Next

\* The three hold together with the invariants they rest on.
LEMMA TypesInductive == ArtifactsSpec => []TypesInv
<1>1. ArtifactsInit => TypesInv
  <2> SUFFICES ASSUME Init PROVE TypesInv
    BY DEF ArtifactsInit
  <2>1. tries = 0 /\ last = "ok" /\ troubled = FALSE /\ result = {}
    BY DEF Init
  <2>2. StageTypes
    <3>1. 0 \in 0 .. MaxBuilds /\ "ok" \in Outcomes /\ FALSE \in BOOLEAN
      BY DEF MaxBuilds, Outcomes
    <3> QED BY <2>1, <3>1 DEF StageTypes
  <2>3. results = {} /\ artifacts = {} /\ fuzzOut = {} /\ store = {} /\ upload = {}
    BY DEF Init, UploadsInit
  <2>4. ReportTypes
    BY <2>3 DEF ReportTypes, UploadsTypeOK
  <2>5. MainTypes
    BY DEF Init, MainTypes
  <2> QED BY <2>2, <2>4, <2>5 DEF TypesInv
<1>2. TypesInv /\ JudgeInv /\ IInv /\ [ArtifactsNext]_<<vars, artifactVars>> => TypesInv'
  <2> SUFFICES ASSUME TypesInv, JudgeInv, IInv, [Next]_vars PROVE TypesInv'
    BY DEF ArtifactsNext, HandleArtifact
  <2>1. MainTypes'
    BY MainKeepsMainTypes DEF IInv
  <2>2. StageTypes' /\ ReportTypes'
    <3>1. CASE EvaluateStep
      BY <3>1, StagesKeepStageTypes, StagesKeepReportTypes
    <3>2. CASE MainStep \/ DeadlineExpires \/ UNCHANGED vars
      <4>1. UNCHANGED <<tries, last, troubled, result, results, artifacts, fuzzOut, store, upload>>
        BY <3>2 DEF MainStep, DeadlineExpires, vars, stageVars, reportVars, uploadVars
      <4> QED BY <4>1 DEF TypesInv, StageTypes, ReportTypes, UploadsTypeOK
    <3> QED BY <3>1, <3>2 DEF Next
  <2> QED BY <2>1, <2>2 DEF TypesInv
<1> QED BY <1>1, <1>2, JudgeInductive, Inductive, PTL DEF ArtifactsSpec

\* The worker's state has its type; no loop runs a command once more than its limit allows.
THEOREM WorkerTypes == ArtifactsSpec => []TypeOK
<1>1. TypesInv /\ JudgeInv /\ IInv => TypeOK
  <2> SUFFICES ASSUME TypesInv, JudgeInv, IInv PROVE TypeOK
    OBVIOUS
  <2>1. /\ input \in Inputs /\ at \in 1 .. Len(AllStages)
        /\ step \in {"idle", "running"} \cup ReportSteps
    BY DEF JudgeInv, StageApplies
  <2>2. seen \subseteq [stage : Stages, event : Events, outcome : Outcomes]
    BY DEF JudgeInv, SeenIsPossible
  <2>3. result \subseteq Results /\ \A st, other \in fuzzOut : st = other
    BY DEF IInv, VerdictFollowsResult, FuzzOutOfLastRun
  <2>4. final \subseteq Verdicts
    BY DEF TypesInv, MainTypes
  <2> QED BY <2>1, <2>2, <2>3, <2>4
          DEF TypeOK, TypesInv, StageTypes, ReportTypes, MainTypes, Blobs
<1> QED BY <1>1, TypesInductive, JudgeInductive, Inductive, PTL

\* The verdict of the worker is a message of the queue: one of its own job, that tells of
\* failed tests for a patch only.
LEMMA VerdictIsAMessage ==
    ASSUME TypesInv, JudgeInv, IInv, NEW v \in verdict
    PROVE  Body(v) \in Jobs!FinalBodiesOf(Kind)
<1>1. /\ v \in Verdicts
      /\ v.testsFailed => FailedTests /\ v.status \in {"failed", "inconclusive"}
  BY DEF TypesInv, MainTypes, IInv, VerdictFollowsResult
<1>2. FailedTests => input.patch
  <2> SUFFICES ASSUME NEW h \in seen, h.stage.do = "tests" PROVE input.patch
    BY DEF FailedTests
  <2>1. h.stage \in Stages /\ Applies(input, h.stage)
    BY DEF JudgeInv, SeenIsPossible
  <2>2. h.stage.on = "patch"
    BY <2>1, StagesHave
  <2> QED BY <2>1, <2>2 DEF Applies
<1> DEFINE b == Body(v)
<1>3. b.sub = Kind /\ b.status = v.status /\ b.testsFailed = v.testsFailed
  BY DEF Body
<1>4. v.status \in {"passed", "failed", "errored", "inconclusive"} /\ v.testsFailed \in BOOLEAN
  BY <1>1 DEF Verdicts
<1>5. Kind \in {"pov", "patch"} /\ (input.patch => Kind = "patch")
  BY DEF Kind
<1>6. b \in Jobs!FinalBodies
  BY <1>4, <1>5 DEF Body, Jobs!FinalBodies, Jobs!Submissions, Jobs!Verdicts
<1> HIDE DEF b
<1>7. b.testsFailed => Kind \in {"patch"} /\ b.status \in {"failed", "inconclusive"}
  BY <1>1, <1>2, <1>3, <1>5
<1>8. b \in Jobs!FinalBodiesOf(Kind)
  BY <1>3, <1>6, <1>7 DEF Jobs!FinalBodiesOf
<1> QED BY <1>8 DEF b

\* A worker that has ended, as the job sees it.
LEMMA WorkerEnds ==
    ASSUME UNCHANGED input, main \in {"starting", "sending"}, NEW w, WorkerState' = w
    PROVE  Jobs!WorkerBecomes(Kind, w)
<1>1. Kind' = Kind
  BY DEF Kind
<1>2. WorkerState = "evaluating"
  BY DEF WorkerState
<1> QED BY <1>1, <1>2 DEF Jobs!WorkerBecomes

\* Its message has come to an empty queue, with the verdict it arrived at.
LEMMA MessageArrives ==
    ASSUME UNCHANGED input, NEW v, final = {}, final' = {v}, Body(v) \in Jobs!FinalBodiesOf(Kind)
    PROVE  /\ \E b \in Jobs!FinalBodiesOf(Kind) :
                Jobs!Enqueue({"id"}, b) /\ Jobs!ArriveAt(Kind, b.status)
           /\ \E i \in {"id"}, b \in Jobs!FinalBodiesOf(Kind) :
                Jobs!Enqueue({i}, b) /\ Jobs!ArriveAt(Kind, b.status)
<1> DEFINE b == Body(v)
<1>1. Kind' = Kind /\ \A u : Body(u)' = Body(u)
  BY DEF Kind, Body
<1>2. b \in Jobs!FinalBodiesOf(Kind) /\ b.status = v.status
  BY DEF Body
<1>3. {[id |-> "id", body |-> Body(u), lease |-> {}] : u \in final}' =
        {[id |-> "id", body |-> Body(u), lease |-> {}] : u \in final}
            \cup {[id |-> i, body |-> b, lease |-> {}] : i \in {"id"}}
  BY <1>1
<1>4. {[id |-> "id", body |-> Body(u), lease |-> {}] : u \in final} = {}
  OBVIOUS
<1>5. [s \in {"pov", "patch"} |-> IF s = Kind THEN {u.status : u \in final} ELSE {}]' =
        [[s \in {"pov", "patch"} |-> IF s = Kind THEN {u.status : u \in final} ELSE {}]
            EXCEPT ![Kind] = @ \cup {b.status}]
  BY <1>1, <1>2
<1> HIDE DEF b
<1> QED BY <1>2, <1>3, <1>4, <1>5 DEF Jobs!Enqueue, Jobs!ArriveAt

\* The worker is the one that EvalJobs assumes.
THEOREM WorkerIsAssumed == ArtifactsSpec => WorkerOfThePipeline
<1> DEFINE Ends == \/ Jobs!SendFinalMessage(Kind, {"id"})
                   \/ Jobs!WorkerErrs(Kind)
                   \/ Jobs!FinalMessageUnacknowledged(Kind)
<1>1. TypesInv /\ JudgeInv /\ IInv /\ [ArtifactsNext]_<<vars, artifactVars>>
        => [Ends]_<<WorkerState, final>>
  <2> SUFFICES ASSUME TypesInv, JudgeInv, IInv, [Next]_vars,
                      ~UNCHANGED <<WorkerState, final>>
               PROVE  Ends
    BY DEF ArtifactsNext, HandleArtifact
  <2>1. SetupFails \/ SendFinal \/ SendFinalFails
    <3>1. UNCHANGED <<main, final>> => UNCHANGED <<WorkerState, final>>
      BY DEF WorkerState
    <3>2. CASE EvaluateStep \/ DeadlineExpires \/ UNCHANGED vars
      BY <3>1, <3>2 DEF EvaluateStep, DeadlineExpires, vars
    <3>3. CASE Start \/ TimeOut \/ ReceiveResult
      BY <3>3 DEF Start, TimeOut, ReceiveResult, WorkerState
    <3> QED BY <3>2, <3>3 DEF Next, MainStep
  <2>2. UNCHANGED input
    BY DEF Next, EvaluateStep, MainStep, DeadlineExpires, vars
  <2>3. main \in {"starting", "sending"}
    BY <2>1 DEF SetupFails, SendFinal, SendFinalFails
  <2>4. final = {}
    BY <2>3 DEF TypesInv, MainTypes
  <2>5. Kind' = Kind /\ Kind \in {"pov", "patch"}
    BY <2>2 DEF Kind
  <2>6. WorkerState = "evaluating"
    BY <2>3 DEF WorkerState
  <2>7. UNCHANGED [s \in {"pov", "patch"} |-> IF s = Kind THEN "running" ELSE "none"]
    BY <2>5
  <2>8. [s \in {"pov", "patch"} |-> IF s = Kind THEN WorkerState ELSE "none"][Kind] = "evaluating"
    BY <2>5, <2>6
  <2>9. CASE final' = {} /\ WorkerState' = "failing"
    <3>1. Jobs!WorkerBecomes(Kind, "failing")
      BY <2>2, <2>3, <2>9, WorkerEnds
    <3>2. Jobs!WorkerErrs(Kind)
      BY <2>4, <2>5, <2>7, <2>8, <2>9, <3>1 DEF Jobs!WorkerErrs
    <3> QED BY <3>2
  <2>10. CASE final' = verdict /\ final' # {} /\ WorkerState' \in {"exiting", "failing"}
    <3>1. PICK v \in verdict : final' = {v}
      BY <2>10 DEF TypesInv, MainTypes
    <3>2. Body(v) \in Jobs!FinalBodiesOf(Kind)
      BY VerdictIsAMessage
    <3>3. /\ \E b \in Jobs!FinalBodiesOf(Kind) :
                Jobs!Enqueue({"id"}, b) /\ Jobs!ArriveAt(Kind, b.status)
          /\ \E i \in {"id"}, b \in Jobs!FinalBodiesOf(Kind) :
                Jobs!Enqueue({i}, b) /\ Jobs!ArriveAt(Kind, b.status)
      BY <2>2, <2>4, <3>1, <3>2, MessageArrives
    <3>4. CASE WorkerState' = "exiting"
      <4>1. Jobs!WorkerBecomes(Kind, "exiting")
        BY <2>2, <2>3, <3>4, WorkerEnds
      <4> QED BY <2>7, <2>8, <3>3, <4>1 DEF Jobs!SendFinalMessage
    <3>5. CASE WorkerState' = "failing"
      <4>1. Jobs!WorkerBecomes(Kind, "failing")
        BY <2>2, <2>3, <3>5, WorkerEnds
      <4> QED BY <2>7, <2>8, <3>3, <4>1 DEF Jobs!FinalMessageUnacknowledged
    <3> QED BY <2>10, <3>4, <3>5
  <2>11. /\ WorkerState' \in {"exiting", "failing"}
         /\ \/ final' = {} /\ WorkerState' = "failing"
            \/ final' = verdict /\ final' # {}
    <3>1. CASE SetupFails
      BY <2>4, <3>1 DEF SetupFails, WorkerState
    <3>2. CASE SendFinal
      <4>1. verdict # {}
        BY <3>2 DEF SendFinal, TypesInv, MainTypes
      <4> QED BY <3>2, <4>1 DEF SendFinal, WorkerState
    <3>3. CASE SendFinalFails
      BY <3>3 DEF SendFinalFails, WorkerState
    <3> QED BY <2>1, <3>1, <3>2, <3>3
  <2> QED BY <2>9, <2>10, <2>11
<1> QED BY <1>1, TypesInductive, JudgeInductive, Inductive, PTL
        DEF ArtifactsSpec, WorkerOfThePipeline
=============================================================================
