------------------------------ MODULE Messages ------------------------------
(***************************************************************************)
(* Options and diagnostic messages (options.c): options read from the      *)
(* environment on their first use, messages that are shown or not by the   *)
(* options and by a limit, and the delayed output buffer, which keeps      *)
(* messages until the program registers an output function.                *)
(*                                                                         *)
(* Threads run calls that nest: reading a bad option warns, and the output *)
(* function of the program may cause messages of its own.  Each thread has *)
(* a stack of frames; a call pushes one, a return pops it.  A message is a *)
(* number, its text `len` characters that are all that number, 0 for the   *)
(* library's own.                                                          *)
(***************************************************************************)
EXTENDS Integers, FiniteSets, SequencesExt

CONSTANTS
  Talkers,       \* the threads
  Main,          \* the one that loads the library and registers the output function
  MAX_DELAY,     \* PA_MAX_DELAY_OUTPUT
  Lens,          \* lengths of messages; a prefix has one character
  MaxErrors,     \* the option max_errors, and the limit on warnings
  Environments,  \* what the environment may say of the options
  MaxMessages,   \* bound: messages
  Says,          \* bound: the kinds of message each thread causes
  MaxSets        \* bound: options set and output functions registered by the program

ASSUME MessagesAssumption ==
  /\ Main \in Talkers
  /\ {MAX_DELAY, MaxMessages} \cup Lens \subseteq Nat \ {0} /\ {MaxErrors, MaxSets} \subseteq Nat
  /\ Says \in [Talkers -> SUBSET {"message", "error", "warning", "verbose"}]

\* Of the table of options, the two that messages read
Options == {"verbose", "show_errors"}

VARIABLES
  preloading,  \* os_preloading
  loaded,      \* _pa_options_init is done
  env,         \* the environment
  opt,         \* value and init of each option
  sets,        \* how often the program has done so
  counts,      \* error_count and warning_count
  shown,       \* how many errors and warnings passed that limit
  out_len, out_buf, out_default,
  frames,      \* the calls of each thread, the innermost last
  recurse,     \* in a message of its own
  said,        \* the number of the last message
  pieces       \* what has been copied to the buffer: <<start, length, message>>

optionVars == <<preloading, loaded, env, opt, sets>>
bufferVars == <<out_len, out_buf, pieces>>
messageVars == <<optionVars, counts, shown, bufferVars, out_default, frames, recurse, said>>

UNINIT == "UNINIT"
DEFAULTED == "DEFAULTED"
INITIALIZED == "INITIALIZED"
NUL == -2
NEWLINE == -1

MessagesInit ==
  /\ preloading = TRUE /\ loaded = FALSE
  /\ env \in Environments
  /\ opt = [o \in Options |-> [value |-> 0, init |-> UNINIT]]
  /\ sets = 0
  /\ counts = [k \in {"error", "warning"} |-> 0] /\ shown = counts
  /\ out_len = 0 /\ out_buf = [i \in 0 .. MAX_DELAY |-> NUL] /\ pieces = {}
  /\ out_default = "none"
  /\ frames = [t \in Talkers |-> << >>]
  /\ recurse = [t \in Talkers |-> FALSE]
  /\ said = 0
-----------------------------------------------------------------------------
(* Frames.  A frame is [pc, msg, ...]; Goto replaces the innermost one.     *)

Top(t) == Last(frames[t])
At(t, pc) == frames[t] # << >> /\ Top(t).pc = pc
Goto(t, frame) == frames' = [frames EXCEPT ![t] = Append(Front(@), frame)]
Return(t) == frames' = [frames EXCEPT ![t] = Front(@)]
Step(t, pc) == Goto(t, [Top(t) EXCEPT !.pc = pc])

\* The frame of a message: its kind, its text, the option its gate is at, the
\* output function and the parts (prefix and text) still to be put.
Message(kind, len, msg) ==
  [pc |-> IF kind = "message" THEN "print" ELSE "gate", kind |-> kind, len |-> len, msg |-> msg,
   option |-> "verbose", out |-> "none", parts |-> << >>, start |-> 0]

\* The program, or its output function, causes a message.  In the callback of
\* a message, recurse is set and all that is left of it is its count.
MayTalk(t) == frames[t] = << >> \/ At(t, "flushed") \/ (At(t, "put") /\ Top(t).out = "user")

Begin(t, kind, len) ==
  /\ said < MaxMessages /\ MayTalk(t)
  /\ said' = said + 1
  /\ frames' = [frames EXCEPT ![t] = Append(@, Message(kind, len, said + 1))]
  /\ UNCHANGED <<optionVars, counts, shown, bufferVars, out_default, recurse>>
-----------------------------------------------------------------------------
(* Options.                                                                 *)

\* pa_option_init, for a frame that reads option o and goes on at `next`.  The
\* environment may say nothing, on, off, or something else, which is warned of;
\* then verbose is on for as long as the warning takes, if it was off.
OptionInit(t, o, next) ==
  LET bogus == env[o] = "bogus"
      brief == bogus /\ o = "verbose" /\ opt[o].value = 0
      init == CASE env[o] \in {"on", "off"} -> INITIALIZED
                [] bogus -> DEFAULTED
                [] OTHER -> IF preloading THEN UNINIT ELSE DEFAULTED
      value == IF env[o] = "on" \/ brief THEN 1 ELSE IF env[o] = "off" THEN 0 ELSE opt[o].value
      caller == [Top(t) EXCEPT !.pc = IF brief THEN "restore" ELSE next]
  IN /\ opt' = [opt EXCEPT ![o] = [value |-> value, init |-> init]]
     /\ frames' = [frames EXCEPT ![t] = Append(Front(@), caller)
                                        \o (IF bogus THEN <<Message("warning", 1, 0)>> ELSE << >>)]
     /\ UNCHANGED <<preloading, loaded, env, sets>>

\* pa_option_get: the frame that asks for its option.
OptionGet(t) ==
  /\ At(t, "gate")
  /\ IF opt[Top(t).option].init = UNINIT THEN OptionInit(t, Top(t).option, "value")
     ELSE Step(t, "value") /\ UNCHANGED optionVars
  /\ UNCHANGED <<counts, shown, bufferVars, out_default, recurse, said>>

OptionRestore(t) ==
  /\ At(t, "restore")
  /\ opt' = [opt EXCEPT !["verbose"].value = 0]
  /\ Step(t, "value")
  /\ UNCHANGED <<preloading, loaded, env, sets, counts, shown, bufferVars, out_default, recurse, said>>

\* pa_option_set and pa_option_set_default
OptionSet(o, value) ==
  /\ frames[Main] = << >> /\ sets < MaxSets
  /\ sets' = sets + 1
  /\ opt' = [opt EXCEPT ![o] = [value |-> value, init |-> INITIALIZED]]
  /\ UNCHANGED <<preloading, loaded, env, counts, shown, bufferVars, out_default, frames, recurse, said>>

OptionSetDefault(o, value) ==
  /\ frames[Main] = << >> /\ sets < MaxSets
  /\ sets' = sets + 1
  /\ opt[o].init # INITIALIZED
  /\ opt' = [opt EXCEPT ![o].value = value]
  /\ UNCHANGED <<preloading, loaded, env, counts, shown, bufferVars, out_default, frames, recurse, said>>
-----------------------------------------------------------------------------
(* Which messages are shown.                                                *)

\* _pa_verbose_message, pa_show_error_message and _pa_warning_message: the value
\* of the option the frame has asked for.
Gate(t) ==
  LET f == Top(t)
      on == opt[f.option].value # 0
  IN /\ At(t, "value") /\ f.kind # "load"
     /\ CASE f.option = "verbose" /\ on -> Step(t, "print")
          [] f.option = "verbose" /\ ~on /\ f.kind # "verbose" ->
               Goto(t, [f EXCEPT !.pc = "gate", !.option = "show_errors"])
          [] f.option = "show_errors" /\ on -> Step(t, "count")
          [] OTHER -> Return(t)
     /\ UNCHANGED <<optionVars, counts, shown, bufferVars, out_default, recurse, said>>

\* The count before this message is compared with the limit.
Count(t) ==
  LET f == Top(t)
      passes == counts[f.kind] <= MaxErrors
  IN /\ At(t, "count")
     /\ counts' = [counts EXCEPT ![f.kind] = @ + 1]
     /\ shown' = IF passes THEN [shown EXCEPT ![f.kind] = @ + 1] ELSE shown
     /\ IF passes THEN Step(t, "print") ELSE Return(t)
     /\ UNCHANGED <<optionVars, bufferVars, out_default, recurse, said>>

\* pa_vfprintf and _pa_fputs: a thread in a message of its own says no more.
Emit(t) ==
  /\ At(t, "print")
  /\ IF recurse[t] THEN Return(t) /\ UNCHANGED recurse
     ELSE /\ recurse' = [recurse EXCEPT ![t] = TRUE]
          /\ Goto(t, [Top(t) EXCEPT !.pc = "put", !.out = out_default, !.parts = <<1, Top(t).len>>])
  /\ UNCHANGED <<optionVars, counts, shown, bufferVars, out_default, said>>

\* Both parts have been put.
Emitted(t) ==
  /\ At(t, "put") /\ Top(t).parts = << >>
  /\ recurse' = [recurse EXCEPT ![t] = FALSE]
  /\ Return(t)
  /\ UNCHANGED <<optionVars, counts, shown, bufferVars, out_default, said>>

NextPart(t) == Goto(t, [Top(t) EXCEPT !.pc = "put", !.parts = Tail(@)])

\* pa_out_stderr, or the output function of the program, with one part.
PutElsewhere(t) ==
  /\ At(t, "put") /\ Top(t).parts # << >> /\ Top(t).out \in {"stderr", "user"}
  /\ NextPart(t)
  /\ UNCHANGED <<optionVars, counts, shown, bufferVars, out_default, recurse, said>>
-----------------------------------------------------------------------------
(* The delayed output buffer.                                               *)

\* pa_out_buf and pa_out_buf_stderr: nothing more is kept when it is full ...
BufCheck(t) ==
  /\ At(t, "put") /\ Top(t).parts # << >> /\ Top(t).out \in {"none", "buf_stderr"}
  /\ IF out_len >= MAX_DELAY THEN NextPart(t) ELSE Step(t, "claim")
  /\ UNCHANGED <<optionVars, counts, shown, bufferVars, out_default, recurse, said>>

\* Mutant of BufClaim: the length is stored after it was loaded, as two steps.
BufClaimStored(t) ==
  /\ At(t, "claim")
  /\ \/ /\ Top(t).start = 0
        /\ Goto(t, [Top(t) EXCEPT !.start = out_len + 1])
        /\ UNCHANGED out_len
     \/ /\ Top(t).start > 0
        /\ out_len' = Top(t).start - 1 + Head(Top(t).parts)
        /\ IF Top(t).start - 1 >= MAX_DELAY THEN NextPart(t)
           ELSE Goto(t, [Top(t) EXCEPT !.pc = "copy", !.start = @ - 1])
  /\ UNCHANGED <<optionVars, counts, shown, out_buf, pieces, out_default, recurse, said>>

\* ... and otherwise an atomic addition claims the room for the text ...
BufClaim(t) ==
  /\ At(t, "claim")
  /\ out_len' = out_len + Head(Top(t).parts)
  /\ IF out_len >= MAX_DELAY THEN NextPart(t)
     ELSE Goto(t, [Top(t) EXCEPT !.pc = "copy", !.start = out_len])
  /\ UNCHANGED <<optionVars, counts, shown, out_buf, pieces, out_default, recurse, said>>

\* ... of which as much is copied as there is room for.
Room(start, n) == IF start + n >= MAX_DELAY THEN MAX_DELAY - start - 1 ELSE n
Cells(start, n) == start .. start + n - 1

BufCopy(t) ==
  LET f == Top(t)
      n == Room(f.start, Head(f.parts))
  IN /\ At(t, "copy")
     /\ out_buf' = [i \in 0 .. MAX_DELAY |-> IF i \in Cells(f.start, n) THEN f.msg ELSE out_buf[i]]
     /\ pieces' = pieces \cup {<<f.start, n, f.msg>>}
     /\ Goto(t, [f EXCEPT !.pc = "put", !.parts = Tail(@), !.start = 0])
     /\ UNCHANGED <<optionVars, counts, shown, out_len, out_default, recurse, said>>

\* pa_out_buf_flush: claims a character, or all that is left, and ends the text
\* there; the output function is then called with the buffer.
Flush(t) ==
  LET count == IF out_len > MAX_DELAY THEN MAX_DELAY ELSE out_len
  IN /\ At(t, "flush")
     /\ out_len' = out_len + (IF Top(t).kind = "register" THEN MAX_DELAY ELSE 1)
     /\ out_buf' = [out_buf EXCEPT ![count] = NUL]
     /\ Goto(t, [Top(t) EXCEPT !.pc = "flushed", !.start = count])
     /\ UNCHANGED <<optionVars, counts, shown, pieces, out_default, recurse, said>>

\* The output function returns; a buffer that stays in use goes on in a new line.
Flushed(t) ==
  LET f == Top(t)
  IN /\ At(t, "flushed")
     /\ IF f.kind = "register"
          THEN Return(t) /\ UNCHANGED <<out_buf, out_default>>
          ELSE /\ out_buf' = [out_buf EXCEPT ![f.start] = NEWLINE]
               /\ out_default' = "buf_stderr"
               /\ Goto(t, [f EXCEPT !.pc = "gate", !.start = 0])
     /\ UNCHANGED <<optionVars, counts, shown, out_len, pieces, recurse, said>>

\* pa_register_output
Register(user) ==
  /\ frames[Main] = << >> /\ loaded /\ sets < MaxSets
  /\ sets' = sets + 1
  /\ out_default' = IF user THEN "user" ELSE "stderr"
  /\ IF user THEN frames' = [frames EXCEPT ![Main] = <<[Message("register", 0, 0) EXCEPT !.pc = "flush"]>>]
     ELSE UNCHANGED frames
  /\ UNCHANGED <<preloading, loaded, env, opt, counts, shown, bufferVars, recurse, said>>

\* Loading: preloading ends, and _pa_options_init adds stderr to the output and
\* reads every option in the order of the table; a verbose program then prints them (pa_options_print).
LoadOptions ==
  /\ preloading /\ frames[Main] = << >>
  /\ preloading' = FALSE
  /\ frames' = [frames EXCEPT ![Main] = <<[Message("load", 0, 0) EXCEPT !.pc = "flush", !.option = "show_errors"]>>]
  /\ UNCHANGED <<loaded, env, opt, sets, counts, shown, bufferVars, out_default, recurse, said>>

LoadOption(t) ==
  LET f == Top(t)
  IN /\ At(t, "value") /\ f.kind = "load"
     /\ IF f.option = "show_errors" THEN Goto(t, [f EXCEPT !.pc = "gate", !.option = "verbose"])
        ELSE IF opt["verbose"].value # 0 THEN Goto(t, Message("message", 1, 0))
        ELSE Return(t)
     /\ loaded' = (f.option = "verbose")
     /\ UNCHANGED <<preloading, env, opt, sets, counts, shown, bufferVars, out_default, recurse, said>>

\* The program has done all it does here.
Quiet ==
  /\ said = MaxMessages /\ sets = MaxSets /\ loaded
  /\ \A t \in Talkers : frames[t] = << >>
  /\ UNCHANGED messageVars

MessagesNext ==
  \/ \E t \in Talkers :
       \/ \E kind \in Says[t], len \in Lens : Begin(t, kind, len)
       \/ OptionGet(t) \/ OptionRestore(t)
       \/ Gate(t) \/ Count(t) \/ Emit(t) \/ Emitted(t) \/ PutElsewhere(t)
       \/ BufCheck(t) \/ BufClaim(t) \/ BufCopy(t) \/ Flush(t) \/ Flushed(t) \/ LoadOption(t)
  \/ LoadOptions \/ Quiet
  \/ \E o \in Options, value \in 0 .. 1 : OptionSet(o, value) \/ OptionSetDefault(o, value)
  \/ \E user \in BOOLEAN : Register(user)

MessagesSpec == MessagesInit /\ [][MessagesNext]_messageVars
-----------------------------------------------------------------------------
(* Properties.                                                              *)

\* Messages survive each other: every piece of text that a thread copied to the
\* delayed buffer is still there, whatever other threads claim, copy, flush or
\* end meanwhile, and the last character of the buffer is never text.
BufferKept ==
  /\ \A p \in pieces : \A i \in Cells(p[1], p[2]) : i < MAX_DELAY /\ out_buf[i] = p[3]
  /\ \A p, q \in pieces : p # q => Cells(p[1], p[2]) \cap Cells(q[1], q[2]) = {}
  /\ out_buf[MAX_DELAY] \in {NUL, NEWLINE}

\* A thread is in at most one message that prints (nested ones are dropped), and
\* knows so.
OneMessagePrints ==
  \A t \in Talkers :
    LET printing == {i \in 1 .. Len(frames[t]) : frames[t][i].pc \in {"put", "claim", "copy"}}
    IN Cardinality(printing) = IF recurse[t] THEN 1 ELSE 0

\* The messages of all threads are sound: the delayed buffer keeps what was
\* written to it, a message of the output function itself does not come back to
\* it, no more than one error (and one warning) above the limit is shown unless
\* the program is verbose, and once the library is loaded the environment is not
\* looked at again.
MessagesSound ==
  /\ BufferKept
  /\ OneMessagePrints
  /\ \A k \in DOMAIN shown : shown[k] <= MaxErrors + 1
  /\ loaded => \A o \in Options : opt[o].init # UNINIT
=============================================================================
