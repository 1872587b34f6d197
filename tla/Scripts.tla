------------------------------- MODULE Scripts -------------------------------
(***************************************************************************)
(* The tools of the evaluation worker, by what they make of an event:      *)
(* helper.py runs docker and passes its exit code on, the scripts judge it *)
(* as 0, 201 ("error") or 202 ("fail"), and the engine takes these for     *)
(* "ok", "error" and "bad".  What happened is an "event", which only the   *)
(* properties look at; the program sees exit codes and output, of which    *)
(* only the patterns it is searched for are kept ("marks").                *)
(***************************************************************************)
EXTENDS Naturals, Sequences

DockerErrors == {125, 126, 127}
Killed == 137
Terminated == 143
TimedOut == 124          \* docker_run, when the timeout of its subprocess expires
Unlisted == 2            \* a code that no rule and no script names, as of a docker client
                         \* that was killed
Alarm == 142
Signals == (130 .. 143) \ {Alarm}

\* How a command of helper.py ends, if not with the exit code of docker: a missing
\* project, fuzz target or image; an exception it does not catch.
Absent == 300
Raises == 301

HelperExit(options, ending) ==
    CASE ending = Raises -> 1
      [] ending = Absent -> IF "--err_result 201" \in options THEN 201 ELSE 1
      [] OTHER -> IF ending = 0 \/ "--propagate_exit_codes" \in options THEN ending ELSE 1

\* The exit codes of the scripts.
Outcomes == {"ok", "bad", "error"}

Outcome(exit) == CASE exit = 0 -> "ok" [] exit = 202 -> "bad" [] OTHER -> "error"

-----------------------------------------------------------------------------
(* run_pov.sh: reproduce and judge. *)

\* The project or the fuzz target is missing, docker or helper.py broke.
RunTroubles == DockerErrors \cup {1, 128, Alarm, Absent, Raises}

\* helper.py reproduce.  "no crash": the target exited, a sanitizer may have reported and
\* let it go on, or it hung, or it exited with a code libFuzzer does not know; "crash": it
\* crashed, or hung after the report of a sanitizer; "prevented": it did not get to run;
\* "late": one of these two, but what tells it was written last to stderr, and the tee that
\* copies stderr, which nothing waits for, has not written it when the copy is judged, or
\* the docker client that passed it on was killed; "killed": the container or helper.py was
\* killed from outside, as by the OOM killer, which ends like a target a signal killed.
Reproductions == UNION {
    [event : {"no crash"},  ending : {0, Unlisted},             marks : SUBSET {"sanitizer"}],
    [event : {"no crash"},  ending : {TimedOut},                marks : {{}}],
    [event : {"crash"},     ending : {1, 77, TimedOut},         marks : {{"sanitizer"}}],
    [event : {"crash"},     ending : {70, 71, 77} \cup Signals, marks : SUBSET {"sanitizer"}],
    [event : {"prevented"}, ending : RunTroubles,               marks : {{}}],
    [event : {"prevented"}, ending : {Unlisted},                marks : {{"daemon"}, {"sanitizer"}}],
    [event : {"late"},      ending : {1, TimedOut, Unlisted},   marks : {{}}],
    [event : {"killed"},    ending : {Killed, Terminated},      marks : SUBSET {"sanitizer"}] }

\* ossfuzz_config.yaml: the significance of an exit code.
EngineCodes ==
    [c \in {0, 1, 70, 71, 77, TimedOut} |->
        IF c = 0 THEN 0 ELSE IF c \in {1, TimedOut} THEN 211 ELSE 212]

RequireSanitizer == {1, TimedOut}

MiscCodes ==
    [c \in {0, 1, 128, Alarm, 201} \cup DockerErrors \cup Signals |->
        IF c = 0 THEN 0 ELSE IF c \in Signals THEN 212 ELSE 214]

None == 299     \* no significance yet

DetermineMisc(exit, marks) ==
    IF exit \in DOMAIN MiscCodes THEN MiscCodes[exit]
    ELSE IF "daemon" \in marks THEN 214 ELSE None

\* Mutant: a rule that needs a sanitizer in the output matches without one.
InterpretAnyOutput(exit, marks) ==
    IF exit \in DOMAIN EngineCodes THEN EngineCodes[exit] ELSE DetermineMisc(exit, marks)

InterpretReturnCode(exit, marks) ==
    IF exit \in DOMAIN EngineCodes /\ (exit \in RequireSanitizer => "sanitizer" \in marks)
    THEN EngineCodes[exit]
    ELSE DetermineMisc(exit, marks)

\* 0 for no crash, 211 and 212 for one, 213 and 214 for an error.
RunAnalysis(exit, marks) ==
    LET sig == InterpretReturnCode(exit, marks) IN
    IF sig # None THEN sig ELSE IF "sanitizer" \in marks THEN 213 ELSE 0

\* The command line RunPov makes, and what getopts and the checks after it let pass.
PovCommand(crashExpected) ==
    {"-a", "-p", "-o", "-f", "-e", "-s", "-b", "-n", "-t"}
        \cup {x \in {"-x"} : ~crashExpected}

PovOptionsFit(options) ==
    /\ {"-p", "-o", "-b", "-f", "-e", "-s"} \subseteq options
    /\ options \subseteq {"-p", "-o", "-a", "-b", "-f", "-e", "-s", "-t", "-x", "-n"}

\* What the interpreter says of a run, from the exit code of helper.py reproduce.
Significance(r) ==
    RunAnalysis(HelperExit({"--propagate_exit_codes", "--err_result 201"}, r.ending), r.marks)

RunPovScript(options, r) ==
    LET sig == Significance(r)
    IN CASE ~PovOptionsFit(options) \/ sig \in {213, 214} -> 201
         [] PovOptionsFit(options) /\ sig = 0 -> IF "-x" \in options THEN 0 ELSE 202
         [] OTHER -> IF "-x" \in options THEN 202 ELSE 0

RunPovOutcome(r, crashExpected) == Outcome(RunPovScript(PovCommand(crashExpected), r))

-----------------------------------------------------------------------------
(* build_cr.sh: build_image, build_fuzzers, check_build. *)

ImageTroubles == DockerErrors \cup {1, Killed, Terminated, Unlisted, Absent, Raises}
FuzzersTroubles == DockerErrors \cup {Killed, Absent}
CheckTroubles == DockerErrors \cup {Killed, Absent}

\* How the second or the third ends when the container ran and what it ran failed, and
\* when something around that failed and neither the code nor the output says so.
Faults == {1, Unlisted}
Mishaps == {1, Unlisted, Terminated, Raises}

\* How the three commands of helper.py end, up to the first that fails.  "faulty": the
\* code does not compile or the fuzz targets do not start; "mishap": the copy of the source
\* in the container failed, or a download with a message that Build does not search for,
\* helper.py broke, or a process in the container or the docker client was killed;
\* "prevented": docker, the image or a download (by its mark) is missing, the container was
\* killed, or any of this ended with a code or a mark that says so.
Builds == UNION {
    [event : {"built"},     endings : {<<0, 0, 0>>},                       marks : {{}}],
    [event : {"faulty"},    endings : {<<0, c>> : c \in Faults},           marks : {{}}],
    [event : {"faulty"},    endings : {<<0, 0, c>> : c \in Faults},        marks : {{}}],
    [event : {"mishap"},    endings : {<<0, c>> : c \in Mishaps},          marks : {{}}],
    [event : {"mishap"},    endings : {<<0, 0, c>> : c \in Mishaps},       marks : {{}}],
    [event : {"prevented"}, endings : {<<c>> : c \in ImageTroubles},       marks : {{}}],
    [event : {"prevented"}, endings : {<<0, c>> : c \in FuzzersTroubles},  marks : {{}}],
    [event : {"prevented"}, endings : {<<0, 0, c>> : c \in CheckTroubles}, marks : {{}}],
    [event : {"prevented"}, endings : {<<0, c>> : c \in Mishaps},          marks : {{"apt"}, {"maven"}}] }

\* Mutant: the exit codes of helper.py are not asked for.
BuildCommandPlain == {"-a", "-p", "-r", "-o"}

\* The command line of Build; -s is left out when there is no sanitizer.
BuildCommand == {"-e", "-a", "-p", "-r", "-o"}

BuildOptionsFit(options) ==
    /\ {"-p", "-r", "-o"} \subseteq options
    /\ options \subseteq {"-p", "-r", "-o", "-s", "-a", "-d", "-l", "-e"}

\* What the script sees of a command of helper.py, and that it ends at this one.
BuildExit(options, ending) ==
    HelperExit(IF "-e" \in options THEN {"--propagate_exit_codes", "--err_result 201"} ELSE {},
               ending)

EndsAt(options, endings, k) ==
    /\ BuildExit(options, endings[k]) # 0
    /\ \A j \in 1 .. k - 1 : BuildExit(options, endings[j]) = 0

BuildScript(options, endings) ==
    IF ~BuildOptionsFit(options) THEN 201
    ELSE IF \A k \in DOMAIN endings : BuildExit(options, endings[k]) = 0 THEN 0
    ELSE IF \E k \in DOMAIN endings :
                /\ EndsAt(options, endings, k)
                /\ k = 1 \/ BuildExit(options, endings[k]) \in DockerErrors \cup {Killed, 201}
    THEN 201 ELSE 202

\* Build takes a failed download out of the failures.
BuildOutcome(b) ==
    LET exit == BuildScript(BuildCommand, b.endings) IN
    IF exit = 202 /\ b.marks # {} THEN "error" ELSE Outcome(exit)

-----------------------------------------------------------------------------
(* run_tests.sh. *)

\* The exit codes of docker run.  "mishap": the source or the test script could not be
\* copied in the container, or a process in it or the docker client was killed.
TestRuns == UNION {
    [event : {"passed"},    exit : {0},                        executable : {TRUE}],
    [event : {"failed"},    exit : Faults,                     executable : {TRUE}],
    [event : {"mishap"},    exit : Mishaps \ {Raises},         executable : {TRUE}],
    [event : {"prevented"}, exit : DockerErrors \cup {Killed}, executable : {TRUE}],
    [event : {"prevented"}, exit : {0},                        executable : {FALSE}] }

TestsCommand(successExpected) == {"-p", "-r"} \cup {x \in {"-x"} : ~successExpected}

\* 1 for an option it does not know.
TestsScript(options, t) ==
    CASE ~(options \subseteq {"-p", "-r", "-i", "-t", "-d", "-x"}) -> 1
      [] ~({"-p", "-r"} \subseteq options) \/ {"-i", "-d"} \subseteq options
            \/ ~t.executable \/ t.exit \in DockerErrors \cup {Killed} -> 201
      [] OTHER -> IF (t.exit = 0) = ("-x" \notin options) THEN 0 ELSE 202

TestsOutcome(t) == Outcome(TestsScript(TestsCommand(TRUE), t))

-----------------------------------------------------------------------------
(* Check and ApplyPatch, which run no script of their own. *)

\* What Check looks at: is it there, or is it allowed?
Checks == [tooling : BOOLEAN, architecture : BOOLEAN, engine : BOOLEAN, project : BOOLEAN,
           sanitizer : BOOLEAN, challenge : BOOLEAN, harness : BOOLEAN]

CheckOutcome(c) ==
    CASE ~c.tooling -> "error"
      [] c.tooling /\ ~(c.architecture /\ c.engine) -> "bad"
      [] c.tooling /\ c.architecture /\ c.engine /\ ~c.project -> "error"
      [] OTHER -> IF ~c.sanitizer THEN "bad" ELSE IF ~c.challenge THEN "error"
                  ELSE IF ~c.harness THEN "bad" ELSE "ok"

CheckEvent(c) ==
    IF ~(c.architecture /\ c.engine /\ c.sanitizer /\ c.harness) THEN "unfit"
    ELSE IF c.tooling /\ c.project /\ c.challenge THEN "fits" ELSE "prevented"

\* A file of a patch: of an allowed language or another, not there, not readable.
Files == {"allowed", "forbidden", "absent", "unreadable"}

\* opens: the patch could be read; before: the files it changes or deletes; after: the
\* files it leaves; applies: it fits the code; killed: git was, or the disk was full.
Patches ==
    {p \in [opens : BOOLEAN, parses : BOOLEAN, applies : BOOLEAN, killed : BOOLEAN,
            before : SUBSET Files, after : SUBSET Files] :
        p.applies => p.before \cup p.after # {}}

\* The loop over checkFile: it returns at the first file that is absent or cannot be
\* read, and only after the last one for a forbidden one.
CheckFiles(files) ==
    LET stops == {o \in {"bad", "error"} :
                    (IF o = "bad" THEN "absent" ELSE "unreadable") \in files}
    IN IF stops # {} THEN stops ELSE {IF "forbidden" \in files THEN "bad" ELSE "ok"}

\* A patch that cannot be opened is treated like one that does not parse.
BeforeGit(p) == IF p.opens /\ p.parses THEN CheckFiles(p.before) ELSE {"bad"}

\* git exits with 0 when it has applied the patch; any other code fails it.
AfterGit(p) ==
    LET checked == CheckFiles(p.after) IN
    IF checked = {"ok"} THEN {IF p.applies /\ ~p.killed THEN "ok" ELSE "bad"} ELSE checked

\* A git that was killed may have left a file out.
PatchEvent(p) ==
    LET sound == p.opens /\ p.parses /\ p.applies
        files == p.before \cup p.after
    IN CASE ~p.opens -> "mishap"
         [] sound /\ ~p.killed /\ files \subseteq {"allowed"} -> "fits"
         [] sound /\ files \in {{"unreadable"}, {"unreadable", "allowed"}} -> "prevented"
         [] sound /\ p.killed /\ p.before \subseteq {"allowed"} /\ "forbidden" \notin p.after
                /\ (p.after \subseteq {"allowed"} \/ "absent" \in p.after) -> "mishap"
         [] OTHER -> "unfit"

-----------------------------------------------------------------------------
(* What the engine may return for what happened. *)

Result(event, outcome) == [event |-> event, outcome |-> outcome]

CheckResults == {Result(CheckEvent(c), CheckOutcome(c)) : c \in Checks}

BuildResults == {Result(b.event, BuildOutcome(b)) : b \in Builds}

\* By whether the target should crash.
PovResults ==
    [crashExpected \in BOOLEAN |->
        {Result(r.event, RunPovOutcome(r, crashExpected)) : r \in Reproductions}]

TestsResults == {Result(t.event, TestsOutcome(t)) : t \in TestRuns}

ApplyOutcomes(p) == IF BeforeGit(p) = {"ok"} THEN AfterGit(p) ELSE BeforeGit(p)

ApplyResults == UNION {{Result(PatchEvent(p), o) : o \in ApplyOutcomes(p)} : p \in Patches}

AllResults ==
    UNION {CheckResults, BuildResults, PovResults[TRUE], PovResults[FALSE], TestsResults, ApplyResults}

Events == {r.event : r \in AllResults}

\* The engine cannot tell these from a fault of the submission.  A mishap: an exception of
\* helper.py from a compiler error, a copy or a download that failed from a failed build or
\* test, a patch file that is lost from one that does not parse, a process that was killed
\* from a failed build, test or git.  A run that was killed from one that crashed, and a
\* crash or a trouble that comes late from a run that did not crash.
LooksLikeAFault == {"mishap", "killed", "late"}
=============================================================================
