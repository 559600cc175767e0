---------------------------- MODULE VoiceThreads ----------------------------
(***************************************************************************)
(* The threads of the voice recognition program: vrcg records two seconds, *)
(* looks for the nearest of the stored templates and mails the verdict;    *)
(* display shows it; practice, a command of the shell, records the         *)
(* templates themselves. vrcg and practice share the recorder, its buffer  *)
(* V_Data and the mailbox that says it is full, under V_Data_mutex.        *)
(*                                                                         *)
(* The lottery is the same program with two words, Start and Stop, and a   *)
(* thread of the display's priority, rng, that waits for random numbers    *)
(* without ever giving up the core; Start switches the generator on and    *)
(* starts the thread, once or again, and Stop switches the generator off.  *)
(*                                                                         *)
(* One core runs the ready thread of the highest priority. A recording     *)
(* lasts two seconds, and by then every thread that was ready has run      *)
(* until it waits: the only longer computation, practice's Hal_Delay_Ms,   *)
(* is not made during a recording. What is drawn is left out.              *)
(***************************************************************************)
EXTENDS RtMutex

CONSTANTS
  Programs,   \* "voice" and "lottery"
  WORDS,      \* word_num: 8, and 2 in the lottery
  PERWORD,    \* ftvmd_per_word: 2, and 5 in the lottery
  RETRIES,    \* the number of failures practice gives up at: 5
  MBSIZE      \* size of the mailboxes: 4

ASSUME VoiceAssumption ==
  /\ {"vrcg", "display", "practice", "rng"} \subseteq Threads /\ NoThread \notin Threads
  /\ MBSIZE \in Nat \ {0}

\* The word of a verdict is a byte.
ASSUME TemplateAssumption ==
  WORDS \in 1..256 /\ PERWORD \in Nat \ {0} /\ RETRIES \in Nat \ {0}

Slots == 0..(WORDS * PERWORD - 1)
Word(slot) == slot \div PERWORD

\* The recording, for those who look at it: no voice in it, too little for
\* a frame of features, not like any template, or like one of them.
Voices == {"mute", "short", "far", "near"}

VARIABLES
  program,
  pc, prio, V_Data_mutex,
  dma,          \* what is at work on V_Data: nothing, channel 4 or channel 5
  i2s,          \* the codec's samples arrive
  V_Data,       \* whose recording, how far processed, and what can be heard
  voice_rec_mb, display_mb,
  rcg_result,
  match_dis, min_comm,   \* locals of vrcg that survive a round
  i, retry_cnt, \* locals of practice
  saved,        \* the slots whose template carries SAVE_FLAG
  judged,       \* history: vrcg has given a verdict before
  status,       \* of the lottery: 1 after Start, 0 after Stop
  rng_on, drdy, \* the generator is enabled, a number waits in it
  late          \* history: the names shown since Stop, up to LATE

recorder == <<dma, i2s, V_Data, voice_rec_mb>>
verdict  == <<rcg_result, match_dis, min_comm, judged>>
training == <<i, retry_cnt, saved>>
lottery  == <<program, status, rng_on, drdy, late>>
vars == <<pc, prio, V_Data_mutex, recorder, verdict, display_mb, training, lottery>>

LATE == 3

Recorders == {"vrcg", "practice"}

Base == [t \in Threads |-> CASE t = "vrcg" -> 4 [] t \in {"display", "rng"} -> 10 [] OTHER -> 11]

\* match_dis is not initialised, whatever was there may equal MATCH_ERR.
Init ==
  /\ pc = [t \in Threads |-> CASE t = "vrcg" -> "take" [] t = "display" -> "recv"
                               [] OTHER -> "idle"]
  /\ prio = Base /\ V_Data_mutex = Free
  /\ dma = "off" /\ i2s = FALSE
  /\ V_Data = [by |-> NoThread, form |-> "none", voice |-> "mute"]
  /\ voice_rec_mb = 0 /\ display_mb = 0
  /\ rcg_result = [result |-> "RCG_EOK", dir |-> 0]
  /\ match_dis \in {"MATCH_ERR", "other"} /\ min_comm = 0 /\ judged = FALSE
  /\ i = 0 /\ retry_cnt = 0 /\ saved \in SUBSET Slots
  /\ program \in Programs
  /\ status = 0 /\ rng_on = (program = "lottery") /\ drdy = FALSE /\ late = 0

(***************************************************************************)
(* Scheduling.                                                             *)
(***************************************************************************)
Mail(t) == IF t = "display" THEN display_mb ELSE voice_rec_mb

Ready(t) ==
  /\ pc[t] \notin {"idle", "suspended", "delay", "noise"}
  /\ pc[t] = "recv" => Mail(t) > 0

Running(t) == Ready(t) /\ \A u \in Threads : Ready(u) => prio[t] <= prio[u]

\* rng never waits in a way the scheduler knows of: a thread of a lower
\* priority does not run any more.
Starved(t) == pc["rng"] # "idle" /\ prio[t] > prio["rng"]

At(t, here) == Running(t) /\ pc[t] = here
Goto(t, there) == pc' = [pc EXCEPT ![t] = there]

\* rt_mb_send, whose result nobody looks at: a full mailbox drops the mail.
Posted(mb) == IF mb = MBSIZE THEN mb ELSE mb + 1

(***************************************************************************)
(* The mutex and the recorder, as vrcg and practice use them.              *)
(***************************************************************************)
\* Mutant: the value of the mutex is not looked at.
TakeAnyway(t) ==
  /\ At(t, "take")
  /\ V_Data_mutex' = Taken([V_Data_mutex EXCEPT !.value = 1], t, prio)
  /\ Goto(t, "record")
  /\ UNCHANGED <<prio, recorder, verdict, display_mb, training, lottery>>

Take(t) ==
  /\ At(t, "take")
  /\ \/ /\ Available(V_Data_mutex)
        /\ V_Data_mutex' = Taken(V_Data_mutex, t, prio)
        /\ Goto(t, "record") /\ UNCHANGED prio
     \/ /\ ~Available(V_Data_mutex)
        /\ prio' = Boosted(V_Data_mutex, t, prio)
        /\ V_Data_mutex' = Suspended(V_Data_mutex, t, prio)
        /\ Goto(t, "suspended")
  /\ UNCHANGED <<recorder, verdict, display_mb, training, lottery>>

Release(t, there) ==
  LET restored == Restored(V_Data_mutex, prio)
      released == Released(V_Data_mutex, restored)
  IN  /\ At(t, "release")
      /\ prio' = restored
      /\ V_Data_mutex' = released
      /\ pc' = [u \in Threads |->
                  IF u = t THEN there ELSE IF u = released.owner THEN "record" ELSE pc[u]]
      /\ UNCHANGED <<recorder, verdict, display_mb, training, lottery>>

\* voice_record: the codec is switched on, the DMA after start_delay, and the
\* caller is told to speak after Noise_len_t.
Record(t) ==
  /\ At(t, "record")
  /\ i2s' = TRUE
  /\ Goto(t, "delay")
  /\ UNCHANGED <<prio, V_Data_mutex, dma, V_Data, voice_rec_mb, verdict, display_mb, training, lottery>>

Arm(t) ==
  /\ At(t, "arm")
  /\ dma' = "channel4"
  /\ V_Data' = [V_Data EXCEPT !.by = t, !.form = "part"]
  /\ Goto(t, "noise")
  /\ UNCHANGED <<prio, V_Data_mutex, i2s, voice_rec_mb, verdict, display_mb, training, lottery>>

\* The timer of a thread that called rt_thread_mdelay.
Wake(t) ==
  /\ pc[t] \in {"delay", "noise"}
  /\ Goto(t, IF pc[t] = "delay" THEN "arm" ELSE "recv")
  /\ UNCHANGED <<prio, V_Data_mutex, recorder, verdict, display_mb, training, lottery>>

\* Two seconds of both channels have arrived.
DMA1_Channel4_IRQHandler ==
  /\ dma = "channel4" /\ i2s
  /\ \A t \in Threads : Ready(t) => t = "rng" \/ Starved(t)
  /\ i2s' = FALSE
  /\ dma' = "channel5"
  /\ \E voice \in Voices : V_Data' = [V_Data EXCEPT !.form = "stereo", !.voice = voice]
  /\ UNCHANGED <<pc, prio, V_Data_mutex, voice_rec_mb, verdict, display_mb, training, lottery>>

\* One channel of them has been moved together; the samples become unsigned.
DMA1_Channel5_IRQHandler ==
  /\ dma = "channel5"
  /\ dma' = "off"
  /\ V_Data' = [V_Data EXCEPT !.form = "mono"]
  /\ voice_rec_mb' = Posted(voice_rec_mb)
  /\ UNCHANGED <<pc, prio, V_Data_mutex, i2s, verdict, display_mb, training, lottery>>

\* Mutant: rt_mb_recv is told not to wait and its result is ignored.
ReceiveAtOnce(t, there) ==
  /\ pc[t] = "recv" /\ \A u \in Threads : Ready(u) => prio[t] <= prio[u]
  /\ voice_rec_mb' = IF voice_rec_mb = 0 THEN 0 ELSE voice_rec_mb - 1
  /\ Goto(t, there)
  /\ UNCHANGED <<prio, V_Data_mutex, dma, i2s, V_Data, verdict, display_mb, training, lottery>>

Receive(t, there) ==
  /\ At(t, "recv")
  /\ voice_rec_mb' = voice_rec_mb - 1
  /\ Goto(t, there)
  /\ UNCHANGED <<prio, V_Data_mutex, dma, i2s, V_Data, verdict, display_mb, training, lottery>>

(***************************************************************************)
(* vrcg                                                                    *)
(***************************************************************************)
\* Close to a template below Valid_Thl.
Recognised == V_Data.voice = "near" /\ saved # {}

\* The word of the least distance. When no distance is finite the word is that
\* of the round before, divided once more.
Nearest ==
  {Word(s) : s \in saved} \union (IF Recognised THEN {} ELSE {min_comm \div PERWORD})

GiveVerdict(err, left, word) ==
  /\ min_comm' = word
  /\ match_dis' = IF err THEN left ELSE match_dis
  /\ rcg_result' = IF err THEN [result |-> "RCG_ERR", dir |-> 255]
                          ELSE [result |-> "RCG_EOK", dir |-> word]
  /\ judged' = TRUE
  /\ Goto("vrcg", "send")
  /\ UNCHANGED <<prio, V_Data_mutex, recorder, display_mb, training, lottery>>

\* Mutant: match_dis is not set back.
JudgeOn ==
  /\ At("vrcg", "judge")
  /\ \E word \in Nearest :
       GiveVerdict(match_dis = "MATCH_ERR" \/ ~Recognised, "MATCH_ERR", word)

\* match_dis is never given a distance: it is MATCH_ERR, or what it was.
Judge ==
  /\ At("vrcg", "judge")
  /\ \E word \in Nearest :
       GiveVerdict(match_dis = "MATCH_ERR" \/ ~Recognised, "other", word)

Send ==
  /\ At("vrcg", "send")
  /\ display_mb' = Posted(display_mb)
  /\ Goto("vrcg", "release")
  /\ UNCHANGED <<prio, V_Data_mutex, recorder, verdict, training, lottery>>

(***************************************************************************)
(* display: the mail is a pointer to the one rcg_result.                   *)
(***************************************************************************)
DisplayReceive ==
  /\ At("display", "recv")
  /\ display_mb' = display_mb - 1
  /\ Goto("display", "show")
  /\ UNCHANGED <<prio, V_Data_mutex, recorder, verdict, training, lottery>>

ReadResult ==
  /\ At("display", "show")
  /\ Goto("display", IF rcg_result.result = "RCG_EOK" THEN "move" ELSE "recv")
  /\ UNCHANGED <<prio, V_Data_mutex, recorder, verdict, display_mb, training, lottery>>

\* dir is read, and the block is moved or a command is sent.
ReadDir ==
  /\ program = "voice"
  /\ At("display", "move")
  /\ Goto("display", "recv")
  /\ UNCHANGED <<prio, V_Data_mutex, recorder, verdict, display_mb, training, lottery>>

\* In the lottery the first word is Start and the second Stop.
ReadCommand ==
  /\ program = "lottery"
  /\ At("display", "move")
  /\ status' = IF rcg_result.dir = 0 THEN 1 ELSE 0
  /\ Goto("display", IF rcg_result.dir = 0 THEN "enable" ELSE "disable")
  /\ UNCHANGED <<prio, V_Data_mutex, recorder, verdict, display_mb, training,
                 program, rng_on, drdy, late>>

\* RNG_Cmd(ENABLE) and rt_thread_startup, which puts a thread that runs already
\* at the end of the ready list and changes nothing else.
Start ==
  /\ At("display", "enable")
  /\ rng_on' = TRUE
  /\ pc' = [pc EXCEPT !["display"] = "recv", !["rng"] = IF @ = "idle" THEN "draw" ELSE @]
  /\ UNCHANGED <<prio, V_Data_mutex, recorder, verdict, display_mb, training,
                 program, status, drdy, late>>

\* Mutant: the generator is left on.
StopLeftOn ==
  /\ At("display", "disable")
  /\ late' = 0
  /\ Goto("display", "recv")
  /\ UNCHANGED <<prio, V_Data_mutex, recorder, verdict, display_mb, training,
                 program, status, rng_on, drdy>>

\* A number that is ready may stay in the generator.
Stop ==
  /\ At("display", "disable")
  /\ rng_on' = FALSE
  /\ drdy' \in {drdy, FALSE}
  /\ late' = 0
  /\ Goto("display", "recv")
  /\ UNCHANGED <<prio, V_Data_mutex, recorder, verdict, display_mb, training, program, status>>

(***************************************************************************)
(* rng: the loop, and the generator it polls.                              *)
(***************************************************************************)
Generate ==
  /\ rng_on /\ ~drdy
  /\ drdy' = TRUE
  /\ UNCHANGED <<pc, prio, V_Data_mutex, recorder, verdict, display_mb, training,
                 program, status, rng_on, late>>

\* Until DRDY is set the loop changes nothing; reading the number clears it.
Draw ==
  /\ At("rng", "draw") /\ drdy
  /\ drdy' = FALSE
  /\ Goto("rng", "show")
  /\ UNCHANGED <<prio, V_Data_mutex, recorder, verdict, display_mb, training,
                 program, status, rng_on, late>>

\* The name, and a tenth of a second of Hal_Delay_Ms.
ShowName ==
  /\ At("rng", "show")
  /\ late' = IF status = 0 /\ pc["display"] # "disable" /\ late < LATE THEN late + 1 ELSE late
  /\ Goto("rng", "draw")
  /\ UNCHANGED <<prio, V_Data_mutex, recorder, verdict, display_mb, training,
                 program, status, rng_on, drdy>>

(***************************************************************************)
(* practice                                                                *)
(***************************************************************************)
\* The shell, which runs the command, has practice's priority.
Practice ==
  /\ pc["practice"] = "idle" /\ \A t \in Threads : ~Ready(t)
  /\ i' = 0 /\ retry_cnt' = 0
  /\ Goto("practice", "take")
  /\ UNCHANGED <<prio, V_Data_mutex, recorder, verdict, display_mb, saved, lottery>>

\* save_mdl succeeds only on a recording that holds a word. save_ftv_mdl may
\* fail as well, and then the slot has lost what it held, or not.
SaveDone ==
  /\ At("practice", "save")
  /\ V_Data.voice \in {"far", "near"}
  /\ saved' = saved \union {i}
  /\ Goto("practice", "rest")
  /\ UNCHANGED <<prio, V_Data_mutex, recorder, verdict, display_mb, i, retry_cnt, lottery>>

\* Mutant: the failures are not counted.
SaveRetried ==
  /\ At("practice", "save")
  /\ saved' \in IF V_Data.voice \in {"far", "near"} THEN {saved, saved \ {i}} ELSE {saved}
  /\ Goto("practice", "record")
  /\ UNCHANGED <<prio, V_Data_mutex, recorder, verdict, display_mb, i, retry_cnt, lottery>>

\* Mutant: one failure too many.
SaveFailedLate ==
  /\ At("practice", "save")
  /\ saved' \in IF V_Data.voice \in {"far", "near"} THEN {saved, saved \ {i}} ELSE {saved}
  /\ retry_cnt' = retry_cnt + 1
  /\ Goto("practice", IF retry_cnt' <= RETRIES THEN "record" ELSE "release")
  /\ UNCHANGED <<prio, V_Data_mutex, recorder, verdict, display_mb, i, lottery>>

SaveFailed ==
  /\ At("practice", "save")
  /\ saved' \in IF V_Data.voice \in {"far", "near"} THEN {saved, saved \ {i}} ELSE {saved}
  /\ retry_cnt' = retry_cnt + 1
  /\ Goto("practice", IF retry_cnt' < RETRIES THEN "record" ELSE "release")
  /\ UNCHANGED <<prio, V_Data_mutex, recorder, verdict, display_mb, i, lottery>>

\* Two seconds of Hal_Delay_Ms, and the next slot.
Rest ==
  /\ At("practice", "rest")
  /\ i' = i + 1
  /\ Goto("practice", IF i' \in Slots THEN "record" ELSE "release")
  /\ UNCHANGED <<prio, V_Data_mutex, recorder, verdict, display_mb, retry_cnt, saved, lottery>>

-----------------------------------------------------------------------------
Interrupts == DMA1_Channel4_IRQHandler \/ DMA1_Channel5_IRQHandler \/ \E t \in Recorders : Wake(t)

Recorder(t) == Take(t) \/ Record(t) \/ Arm(t)

voice_recongnition_entry ==
  Recorder("vrcg") \/ Receive("vrcg", "judge") \/ Judge \/ Send \/ Release("vrcg", "take")

lcd_display == DisplayReceive \/ ReadResult \/ ReadDir \/ ReadCommand \/ Start \/ Stop

rng == Draw \/ ShowName

practice ==
  \/ Recorder("practice") \/ Receive("practice", "save") \/ SaveDone \/ SaveFailed \/ Rest
  \/ Release("practice", "idle")

Next ==
  \/ Interrupts \/ Generate
  \/ voice_recongnition_entry \/ lcd_display \/ practice \/ Practice \/ rng

\* The core runs whoever is ready, and timers and DMA go on by themselves.
Fairness ==
  /\ WF_vars(DMA1_Channel4_IRQHandler) /\ WF_vars(DMA1_Channel5_IRQHandler)
  /\ \A t \in Recorders : WF_vars(Wake(t))
  /\ WF_vars(voice_recongnition_entry) /\ WF_vars(lcd_display) /\ WF_vars(practice)

Spec == Init /\ [][Next]_vars /\ Fairness

-----------------------------------------------------------------------------
Places ==
  {"idle", "take", "suspended", "record", "delay", "arm", "noise", "recv", "judge", "send",
   "release", "show", "move", "save", "rest", "enable", "disable", "draw"}

Forms == {"none", "part", "stereo", "mono"}

\* The types; the failures of a training never pass the limit.
TypeOK ==
  /\ pc \in [Threads -> Places]
  /\ prio \in [Threads -> {4, 10, 11}]
  /\ V_Data_mutex \in Mutexes
  /\ dma \in {"off", "channel4", "channel5"} /\ i2s \in BOOLEAN
  /\ V_Data \in [by : Threads \union {NoThread}, form : Forms,
                 voice : Voices]
  /\ voice_rec_mb \in 0..MBSIZE /\ display_mb \in 0..MBSIZE
  /\ rcg_result \in [result : {"RCG_EOK", "RCG_ERR"}, dir : 0..255]
  /\ match_dis \in {"MATCH_ERR", "other"} /\ min_comm \in 0..(WORDS - 1)
  /\ program \in Programs /\ status \in {0, 1} /\ rng_on \in BOOLEAN /\ drdy \in BOOLEAN
  /\ late \in 0..LATE
  /\ i \in 0..(WORDS * PERWORD) /\ retry_cnt \in 0..RETRIES /\ saved \subseteq Slots

\* "Training and normal recording cannot take place at the same time" (main.c:317):
\* whoever works on V_Data finds its own recording, complete, with nobody
\* writing to it and no notice left over that would make the next one look done.
BufferOwned ==
  /\ \A t \in Recorders : pc[t] \in {"judge", "save"} =>
       dma = "off" /\ voice_rec_mb = 0 /\ V_Data.by = t /\ V_Data.form = "mono"
  /\ voice_rec_mb > 0 =>
       /\ voice_rec_mb = 1 /\ dma = "off"
       /\ V_Data.by = V_Data_mutex.owner /\ V_Data.form = "mono"
       /\ pc[V_Data.by] \in {"noise", "recv"}

\* A thread runs at a priority that is not its own only while it owns the mutex
\* and a thread of that priority waits for it (ipc.c:978-985, 1119-1125).
PriorityLent ==
  \A t \in Threads : prio[t] # Base[t] =>
    /\ V_Data_mutex.owner = t
    /\ \E n \in DOMAIN V_Data_mutex.waiting : prio[V_Data_mutex.waiting[n]] = prio[t]

\* The mail to the display is only a pointer: the result it points to (main.c:184)
\* must not be written again before the display has read all of it (218, 224).
ResultKept ==
  [][rcg_result' # rcg_result => display_mb = 0 /\ pc["display"] = "recv"]_vars

Judging == pc["vrcg"] = "judge" /\ pc'["vrcg"] = "send"

\* From the second verdict on, a verdict depends on this round's recording and the
\* templates alone, though match_dis is never initialised (main.c:127, 172); and a
\* word is recognised only if one of its templates is stored, though min_comm
\* survives a round in which no distance is finite (main.c:165-169).
VerdictIsOwn ==
  [][Judging =>
       /\ judged => (rcg_result'.result = "RCG_EOK" <=> Recognised)
       /\ rcg_result'.result = "RCG_EOK" => \E s \in saved : Word(s) = rcg_result'.dir]_vars

\* A training that is asked for ends, although vrcg takes the mutex again as soon
\* as it has released it, every recording may be bad, and rng keeps the core from
\* the shell: the training then lives on the priority vrcg lends it. Only one that
\* has not reached the mutex when the lottery is started waits for ever.
PracticeReturns ==
  (pc["practice"] # "idle") ~>
    \/ pc["practice"] = "idle"
    \/ pc["practice"] = "take" /\ Starved("practice")

\* Recognition goes on for ever, however often a training cuts in.
RecognitionGoesOn == []<>(pc["vrcg"] = "send")

\* Stop only switches the generator off and the thread goes on: after it (main.c:275)
\* the name in hand and a number already drawn are shown, and no third.
StopsSoon == late <= 2
=============================================================================
