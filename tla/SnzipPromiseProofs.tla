-------------------------- MODULE SnzipPromiseProofs --------------------------
(***************************************************************************)
(* What the driver promises the user, on top of the inductive invariant of *)
(* SnzipMainProofs: no partial output stays behind, status 0 means that    *)
(* every argument was converted, attributes follow, the driver implements  *)
(* the abstract promise of FileReplacement, and standard output is the     *)
(* concatenation of what the arguments give.                               *)
(*                                                                         *)
(* Four of them need more than IInv: which file a step may change, what is *)
(* settled of the arguments behind, whose attributes the output has, and   *)
(* how far standard output is.  Each of these is inductive, given IInv.    *)
(***************************************************************************)
EXTENDS SnzipMainProofs

-----------------------------------------------------------------------------
(* What one step can do to outputs.                                        *)

(* What the invariant says of the step in hand, layer by layer.            *)
LEMMA Layers ==
  ASSUME IInv, [Next]_vars
  PROVE  /\ Typed /\ Untouched /\ Written /\ Ready
         /\ Typed' /\ Untouched' /\ Ready'
         /\ cmd \in Commands /\ UNCHANGED <<cmd, orig, Un, Args, ToFile>>
         /\ ignored => ignored'
<1>1. Typed /\ Untouched /\ Written /\ Ready /\ NothingLost
  BY IInvLayers
<1>2. Typed' /\ Untouched' /\ Ready'
  BY <1>1, TypedStep, UntouchedStep, ReadyStep
<1>3. cmd \in Commands /\ UNCHANGED <<cmd, orig>> /\ (ignored => ignored')
  BY <1>1, InHandSteps DEF Typed, TypeOK
<1> QED
  BY <1>1, <1>2, <1>3 DEF Un, Args, ToFile

(* Names of arguments and of their outputs, when these do not collide.     *)
LEMMA SafeNames ==
  ASSUME cmd \in Commands, cmd \in SafeCommands, NEW k \in Args
  PROVE  /\ cmd.args[k] \in Names \ {Stdin, Stdout}
         /\ \A f \in Formats :
              /\ OutName(cmd, cmd.args[k], f) \in Names \ {Stdin, Stdout}
              /\ OutName(cmd, cmd.args[k], f) \in Outputs(cmd, cmd.args[k])
         /\ \A j \in Args :
              /\ cmd.args[k] \notin Outputs(cmd, cmd.args[j])
              /\ cmd.args[j] \notin Outputs(cmd, cmd.args[k])
              /\ j # k =>
                   /\ cmd.args[j] # cmd.args[k]
                   /\ \A o \in Outputs(cmd, cmd.args[k]) :
                        o \notin Outputs(cmd, cmd.args[j])
<1>1. /\ cmd.args[k] \in Names \ {Stdin, Stdout}
      /\ \A f \in Formats :
           /\ OutName(cmd, cmd.args[k], f) \in Names \ {Stdin, Stdout}
           /\ OutName(cmd, cmd.args[k], f) \in Outputs(cmd, cmd.args[k])
  BY CommandFacts DEF Args, Outputs
<1>2. NoCollisions(cmd) /\ k \in DOMAIN cmd.args
  BY DEF SafeCommands, Args
<1> QED
  BY <1>1, <1>2 DEF NoCollisions, Args

(* A step that removes an argument, or works on another one, leaves all    *)
(* outputs of argument k as they are, and with them what they hold.        *)
LEMMA OutputsStay ==
  ASSUME IInv, cmd \in SafeCommands, [Next]_vars, NEW k \in Args,
         UnlinkInput \/ ~(InWork /\ optind = k)
  PROVE  \A f \in Formats :
           /\ fs'[OutName(cmd, cmd.args[k], f)] = fs[OutName(cmd, cmd.args[k], f)]
           /\ Holds(OutName(cmd, cmd.args[k], f), cmd.args[k], f)'
                <=> Holds(OutName(cmd, cmd.args[k], f), cmd.args[k], f)
<1>1. /\ Typed /\ cmd \in Commands /\ UNCHANGED <<cmd, orig, Un>>
      /\ fs \in [Names -> Files \cup {Absent}]
  BY Layers DEF Typed, TypeOK
<1> DEFINE n == cmd.args[k]
<1>2. \A f \in Formats : fs'[OutName(cmd, n, f)] = fs[OutName(cmd, n, f)]
  <2>1. CASE UnlinkInput
    <3>1. /\ UNCHANGED fs \/ fs' = [fs EXCEPT ![cmd.args[optind]] = Absent]
          /\ optind \in Args
      BY <1>1, <2>1 DEF UnlinkInput, Typed, InHand, Busy, In
    <3> QED
      BY <1>1, <3>1, SafeNames
  <2>2. CASE ~UnlinkInput
    <3>1. OutputsOnly
      BY <1>1, <2>2, FileSteps
    <3>2. ~(InWork /\ optind = k)
      BY <2>2
    <3> QED
      BY <1>1, <3>1, <3>2, SafeNames DEF OutputsOnly, InWork
  <2> QED
    BY <2>1, <2>2
<1> QED
  BY <1>1, <1>2 DEF Holds

(* So an argument stays converted, or unconverted.                         *)
LEMMA ReplacedStays ==
  ASSUME IInv, cmd \in SafeCommands, [Next]_vars, NEW k \in Args,
         UnlinkInput \/ ~(InWork /\ optind = k)
  PROVE  Replaced(cmd.args[k])' <=> Replaced(cmd.args[k])
<1>1. UNCHANGED cmd
  BY Layers
<1> QED
  BY <1>1, OutputsStay DEF Replaced

(* While an argument is in work or has its output open, it is as it was.   *)
LEMMA InWorkIsKept ==
  ASSUME IInv, cmd \in SafeCommands, InWork
  PROVE  fs[cmd.args[optind]] = orig[cmd.args[optind]]
BY IInvLayers DEF InWork, ToFile, Untouched

(* When the input is unlinked, its conversion is there.                    *)
LEMMA UnlinkedIsReplaced ==
  ASSUME IInv, cmd \in SafeCommands, ToFile, ~ignored, pc = "unlink"
  PROVE  /\ optind \in Args /\ In = cmd.args[optind] /\ fmt \in Formats
         /\ Holds(OutName(cmd, In, fmt), In, fmt)
         /\ Replaced(cmd.args[optind])
<1>1. /\ Typed /\ Ready /\ ~Filter(cmd)
  BY IInvLayers DEF ToFile
<1>2. optind \in Args /\ In = cmd.args[optind] /\ fmt \in Formats
  BY <1>1 DEF Typed, InHand, Busy, In
<1>3. Holds(OutName(cmd, In, fmt), In, fmt)
  BY <1>1 DEF Ready
<1> QED
  BY <1>2, <1>3 DEF Replaced

-----------------------------------------------------------------------------
(* The promise of FileReplacement.                                         *)

(* The refinement mapping: which names are kept, and which converted.      *)
Kept == [n \in Names |-> n \in ArgNames => fs[n] = orig[n]]
Conv == [n \in Names |-> n \in ArgNames /\ Replaced(n)]

(* Two truth-valued functions that differ at most at n.                    *)
LEMMA OneFlips ==
  ASSUME NEW S, NEW c \in [S -> BOOLEAN], NEW d \in [S -> BOOLEAN],
         NEW n \in S, \A m \in S \ {n} : d[m] = c[m]
  PROVE  d = c \/ d = [c EXCEPT ![n] = ~c[n]]
<1>1. CASE d[n] = c[n]
  <2>1. \A m \in S : d[m] = c[m]
    BY <1>1
  <2> QED
    BY <2>1
<1>2. CASE d[n] # c[n]
  <2>1. d[n] = ~c[n]
    <3>1. d[n] \in BOOLEAN /\ c[n] \in BOOLEAN
      OBVIOUS
    <3> QED
      BY <3>1, <1>2
  <2>2. \A m \in S : d[m] = [c EXCEPT ![n] = ~c[n]][m]
    BY <2>1
  <2> QED
    BY <2>2
<1> QED
  BY <1>1, <1>2

(* The functions of the mapping are truth-valued, and say what they say.   *)
LEMMA MappingFacts ==
  /\ Kept \in [Names -> BOOLEAN] /\ Conv \in [Names -> BOOLEAN]
  /\ \A n \in Names : /\ Kept[n] = (n \in ArgNames => fs[n] = orig[n])
                      /\ Conv[n] = (n \in ArgNames /\ Replaced(n))
BY DEF Kept, Conv

(* The same after the step.                                                *)
LEMMA MappingFactsNext ==
  ASSUME UNCHANGED <<cmd, orig>>
  PROVE  /\ Kept' \in [Names -> BOOLEAN] /\ Conv' \in [Names -> BOOLEAN]
         /\ \A n \in Names : Kept'[n] = (n \in ArgNames' => fs'[n] = orig'[n])
BY DEF Kept, Conv

(* Files and outputs of no argument in work stay, so do the two functions. *)
LEMMA MappingStays ==
  ASSUME IInv, cmd \in SafeCommands, [Next]_vars, NEW n \in Names
  PROVE  /\ ~UnlinkInput => Kept'[n] = Kept[n]
         /\ (UnlinkInput \/ ~(InWork /\ n = cmd.args[optind])) =>
              Conv'[n] = Conv[n]
<1>1. UNCHANGED <<cmd, orig, ArgNames>> /\ Typed
  BY Layers DEF ArgNames
<1>2. CASE n \notin ArgNames
  <2>1. Kept[n] = TRUE /\ Kept'[n] = TRUE /\ Conv[n] = FALSE /\ Conv'[n] = FALSE
    BY <1>1, <1>2 DEF Kept, Conv
  <2> QED
    BY <2>1
<1>3. CASE n \in ArgNames
  <2>1. PICK k \in Args : n = cmd.args[k]
    BY <1>3 DEF ArgNames
  <2>2. ~UnlinkInput => fs'[n] = fs[n]
    BY <1>1, <2>1, ArgumentSteps DEF ArgsSame
  <2>3. ~UnlinkInput => Kept'[n] = Kept[n]
    BY <1>1, <2>2 DEF Kept
  <2>4. ASSUME UnlinkInput \/ ~(InWork /\ n = cmd.args[optind])
        PROVE  Conv'[n] = Conv[n]
    <3>1. UnlinkInput \/ ~(InWork /\ optind = k)
      BY <2>1, <2>4
    <3>2. Replaced(n)' <=> Replaced(n)
      BY <1>1, <2>1, <3>1, ReplacedStays
    <3> QED
      BY <1>1, <3>2 DEF Conv
  <2> QED
    BY <2>3, <2>4
<1> QED
  BY <1>2, <1>3

(* A step that works on an output may complete it or, when it is made      *)
(* again, empty it: Rewrite, while the argument is there as it was.        *)
LEMMA RewriteStep ==
  ASSUME IInv, cmd \in SafeCommands, [Next]_vars, ~UnlinkInput
  PROVE  [Promise!Next]_<<Kept, Conv>>
<1>1. UNCHANGED <<cmd, orig>>
  BY Layers
<1>2. /\ Kept \in [Names -> BOOLEAN] /\ Conv \in [Names -> BOOLEAN]
      /\ Kept' \in [Names -> BOOLEAN] /\ Conv' \in [Names -> BOOLEAN]
  BY <1>1, MappingFacts, MappingFactsNext
<1>3. Kept' = Kept
  <2>1. \A n \in Names : Kept'[n] = Kept[n]
    BY MappingStays
  <2> QED
    BY <1>2, <2>1
<1>4. CASE ~InWork
  <2>1. \A n \in Names : Conv'[n] = Conv[n]
    BY <1>4, MappingStays
  <2>2. Conv' = Conv
    BY <1>2, <2>1
  <2> QED
    BY <1>3, <2>2
<1>5. CASE InWork
  <2>0. PICK m \in Names : m = cmd.args[optind]
    BY <1>5, Layers, SafeNames DEF InWork
  <2>1. m \in Names /\ m \in ArgNames /\ fs[m] = orig[m]
    BY <1>5, <2>0, InWorkIsKept DEF InWork, ArgNames
  <2>2. Kept[m]
    BY <2>1, MappingFacts
  <2>3. \A n \in Names \ {m} : Conv'[n] = Conv[n]
    BY <2>0, MappingStays
  <2>4. Conv' = Conv \/ Conv' = [Conv EXCEPT ![m] = ~Conv[m]]
    BY <1>2, <2>1, <2>3, OneFlips
  <2>5. Conv' = [Conv EXCEPT ![m] = ~Conv[m]] => Promise!Rewrite(m)
    BY <1>3, <2>2 DEF Promise!Rewrite, Kept, Conv
  <2>6. Promise!Rewrite(m) => Promise!Next
    BY <2>1 DEF Promise!Next
  <2> QED
    BY <1>3, <2>4, <2>5, <2>6
<1> QED
  BY <1>4, <1>5

(* The removal of the input: Remove, when its conversion is complete.      *)
LEMMA RemoveStep ==
  ASSUME IInv, cmd \in SafeCommands, [Next]_vars, UnlinkInput, ~ignored
  PROVE  [Promise!Next]_<<Kept, Conv>>
<1>1. /\ UNCHANGED <<cmd, orig, ArgNames>> /\ Typed /\ Untouched
      /\ fs \in [Names -> Files \cup {Absent}] /\ cmd \in Commands
  BY Layers DEF ArgNames, Typed, TypeOK
<1>2. /\ Kept \in [Names -> BOOLEAN] /\ Conv \in [Names -> BOOLEAN]
      /\ Kept' \in [Names -> BOOLEAN] /\ Conv' \in [Names -> BOOLEAN]
  BY <1>1, MappingFacts, MappingFactsNext
<1>3. Conv' = Conv
  <2>1. \A n \in Names : Conv'[n] = Conv[n]
    BY MappingStays
  <2> QED
    BY <1>2, <2>1
<1>4. CASE UNCHANGED fs
  <2>1. \A n \in Names : Kept'[n] = Kept[n]
    BY <1>1, <1>4 DEF Kept
  <2>2. Kept' = Kept
    BY <1>2, <2>1
  <2> QED
    BY <1>3, <2>2
<1>5. CASE ~UNCHANGED fs
  <2>0. PICK m \in Names : m = cmd.args[optind]
    BY <1>1, SafeNames DEF UnlinkInput, Typed, InHand, Busy
  <2>1. /\ pc = "unlink" /\ ~OptKeep(cmd) /\ ToFile /\ optind \in Args
        /\ fs' = [fs EXCEPT ![m] = Absent] /\ fs[m] # Absent
        /\ fs[m] = orig[m]
    BY <1>1, <1>5, <2>0
    DEF UnlinkInput, Typed, InHand, Busy, In, ToFile, OptStdout, OptKeep, Untouched
  <2>2. m \in Names /\ m \in ArgNames /\ Replaced(m)
    BY <2>0, <2>1, UnlinkedIsReplaced DEF ArgNames
  <2>3. Kept[m] /\ Conv[m] /\ ~Kept'[m]
    <3>1. fs'[m] = Absent /\ orig'[m] = orig[m] /\ m \in ArgNames'
      BY <1>1, <2>1, <2>2
    <3> QED
      BY <1>1, <2>1, <2>2, <3>1, MappingFacts, MappingFactsNext
  <2>4. \A n \in Names \ {m} : Kept'[n] = Kept[n]
    BY <1>1, <2>1 DEF Kept
  <2>5. Kept' = [Kept EXCEPT ![m] = FALSE]
    <3>1. Kept' = Kept \/ Kept' = [Kept EXCEPT ![m] = ~Kept[m]]
      BY <1>2, <2>2, <2>4, OneFlips
    <3>2. Kept[m] = TRUE
      BY <1>2, <2>2, <2>3
    <3> QED
      BY <2>3, <3>1, <3>2
  <2>6. Promise!Remove(m)
    BY <1>3, <2>3, <2>5 DEF Promise!Remove, Kept, Conv
  <2>7. Promise!Next
    BY <2>2, <2>6 DEF Promise!Next
  <2> QED
    BY <2>7
<1> QED
  BY <1>4, <1>5

(* The driver implements FileReplacement in every run whose arguments and  *)
(* outputs do not collide and in which no failure goes by that the code    *)
(* does not look at: it may be killed, fail and be started again anywhere, *)
(* an original goes only when all of its conversion is there, and the      *)
(* conversion is never spoilt again (snzip.c:413-456).                     *)
Careful == cmd \in SafeCommands /\ ~ignored
THEOREM Refinement == Spec /\ []Careful => ImplementsFileReplacement
<1>1. Init => Promise!Init
  <2>1. ASSUME Init
        PROVE  Kept = [n \in Names |-> TRUE] /\ Conv \in [Names -> BOOLEAN]
    BY <2>1, MappingFacts DEF Init, Kept
  <2> QED
    BY <2>1 DEF Promise!Init, Kept, Conv
<1>2. IInv /\ Careful /\ [Next]_vars => [Promise!Next]_<<Kept, Conv>>
  BY RewriteStep, RemoveStep DEF Careful
<1>3. ImplementsFileReplacement <=> (Promise!Init /\ [][Promise!Next]_<<Kept, Conv>>)
  BY DEF ImplementsFileReplacement, Promise!Spec, Kept, Conv
<1> QED
  BY <1>1, <1>2, <1>3, Invariant, PTL DEF Spec

(* Where nothing fails but what the code looks at, no failure is ignored:  *)
(* the hypothesis of Refinement is about the code, not about luck.         *)
Unlooked == {"read", "spill", "fflush"}
LEMMA NoneIgnored ==
  ASSUME Faults \cap Unlooked = {}
  PROVE  Spec => [](~ferr /\ ~ignored)
<1>1. Init => ~ferr /\ ~ignored
  BY DEF Init
<1>2. ASSUME ~ferr, ~ignored, IInv, [Next]_vars
      PROVE  ~ferr' /\ ~ignored'
  <2>1. "read" \notin Faults /\ "spill" \notin Faults /\ "fflush" \notin Faults
    BY DEF Unlooked
  <2>2. ASSUME NEW n \in 0 .. Len(buf), Flush(n)
        PROVE  ~ferr' /\ n = Len(buf)
    <3>1. Len(buf) \in Nat
      BY DEF IInv, TypeOK
    <3>2. n = Len(buf)
      BY <2>1, <2>2 DEF Flush
    <3>3. ~(n < Len(buf))
      BY <3>1, <3>2
    <3>4. ferr' = (ferr \/ n < Len(buf))
      BY <2>2 DEF Flush
    <3> QED
      BY <1>2, <3>2, <3>3, <3>4
  <2>3. CASE Codec
    BY <1>2, <2>1, <2>2, <2>3 DEF Codec, StartCodec, WriteDirect,
       DirectWriteFails, WriteBuffered, SpillAndWrite, SpillFails, ReadFails,
       OutOfMemory, CodecReturns, history, stream
  <2>4. CASE CloseFiles \/ Exit
    <3>1. ~ferr'
      BY <1>2, <2>2, <2>4 DEF CloseFiles, Exit
    <3>2. ASSUME NEW n \in 0 .. Len(buf), Flush(n)
          PROVE  ~(n < Len(buf))
      BY <2>2, <3>2 DEF IInv, TypeOK
    <3> QED
      BY <1>2, <2>4, <3>1, <3>2 DEF CloseFiles, Exit
  <2>5. CASE FlushOutput \/ Rerun \/ CreateOutput
    BY <1>2, <2>2, <2>5
    DEF FlushOutput, Rerun, CreateOutput, history, stream
  <2>6. CASE \/ Start \/ TakeArg \/ NoMoreArgs \/ OpenInput \/ DetectFormat
             \/ CodecFailed \/ CopyAttributes \/ UnlinkInput \/ Kill
             \/ UNCHANGED vars
    BY <1>2, <2>6 DEF Start, TakeArg, NoMoreArgs, OpenInput, DetectFormat,
       CodecFailed, CopyAttributes, UnlinkInput, Kill, vars, history, stream
  <2>7. CASE KeepStdoutOpen
    BY <1>2, <2>7 DEF KeepStdoutOpen, stream
  <2> QED
    BY <1>2, <2>3, <2>4, <2>5, <2>6, <2>7 DEF Next, Step, Idle
<1> QED
  BY <1>1, <1>2, Invariant, PTL DEF Spec

(* With such failures and commands the driver implements FileReplacement,  *)
(* with no other condition (snzip.c:413-456).                              *)
THEOREM ReportedFailuresAreSafe ==
  ASSUME Faults \cap Unlooked = {}, Commands \subseteq SafeCommands
  PROVE  Spec => ImplementsFileReplacement
<1>1. IInv /\ ~ignored => Careful
  BY DEF IInv, TypeOK, Careful
<1> QED
  BY <1>1, NoneIgnored, Invariant, Refinement, PTL

-----------------------------------------------------------------------------
(* No partial output stays behind.                                         *)

(* A step of the driver writes to the file it has open, or empties the one *)
(* it opens; else an output changes only as standard output does, when the *)
(* user starts anew.                                                       *)
LEMMA OutputSteps ==
  ASSUME IInv, cmd \in SafeCommands, [Next]_vars, NEW k \in Args,
         NEW f \in Formats,
         fs'[OutName(cmd, cmd.args[k], f)] # fs[OutName(cmd, cmd.args[k], f)]
  PROVE  /\ ~Rerun
         /\ OutName(cmd, cmd.args[k], f) \in {out, out'}
<1> DEFINE o == OutName(cmd, cmd.args[k], f)
<1>1. /\ Typed /\ cmd \in Commands /\ o \in Names \ {Stdin, Stdout}
      /\ fs \in [Names -> Files \cup {Absent}]
  BY Layers, SafeNames DEF Typed, TypeOK
<1>2. ~UnlinkInput
  BY OutputsStay
<1>3. ~Rerun
  BY <1>1 DEF Rerun
<1> HIDE DEF o
<1>4. ASSUME pc \in Writing \/ out # NoFile,
             \A m \in Names \ {out} : fs'[m] = fs[m]
      PROVE  o = out
  BY <1>1, <1>4 DEF o
<1>5. ASSUME pc \in Writing \/ out # NoFile, NEW n \in 0 .. Len(buf), Flush(n)
      PROVE  o = out
  <2>1. out \in Names /\ fs[out] # Absent
    BY <1>1, <1>5, OutputFacts, NamesAssumption
  <2> QED
    BY <1>1, <1>4, <1>5, <2>1, FlushAlters DEF Typed, Alters
<1>6. CASE CreateOutput
  <2>1. fs' = [fs EXCEPT ![out'] = EmptyFile]
    BY <1>6 DEF CreateOutput, o
  <2> QED
    BY <1>1, <1>3, <2>1 DEF o
<1>7. CASE Codec
  <2>1. pc \in Writing
    BY <1>7 DEF Codec, StartCodec, WriteDirect, DirectWriteFails,
       WriteBuffered, SpillAndWrite, SpillFails, ReadFails, OutOfMemory,
       CodecReturns, Writing
  <2>2. Alters(out)
    BY <1>1, <1>7, TypedCodec
  <2> QED
    BY <1>3, <1>4, <2>1, <2>2 DEF Alters, o
<1>8. CASE CodecFailed \/ CopyAttributes
  <2>1. pc \in Writing
        /\ \A m \in Names \ {out} : fs'[m] = fs[m]
    BY <1>1, <1>8 DEF CodecFailed, CopyAttributes, Writing
  <2> QED
    BY <1>3, <1>4, <2>1 DEF o
<1>9. CASE FlushOutput \/ CloseFiles \/ Exit
  <2>1. pc \in Writing \/ out # NoFile
    BY <1>9 DEF FlushOutput, CloseFiles, Exit, Writing
  <2>2. \E n \in 0 .. Len(buf) : Flush(n)
    BY <1>9 DEF FlushOutput, CloseFiles, Exit
  <2> QED
    BY <1>3, <1>5, <2>1, <2>2 DEF o
<1>10. CASE \/ Start \/ TakeArg \/ NoMoreArgs \/ OpenInput \/ DetectFormat
            \/ KeepStdoutOpen \/ Kill \/ UNCHANGED vars
  BY <1>10 DEF Start, TakeArg, NoMoreArgs, OpenInput, DetectFormat,
     KeepStdoutOpen, Kill, vars
<1> QED
  BY <1>2, <1>3, <1>6, <1>7, <1>8, <1>9, <1>10 DEF Next, Step, Idle

(* When the open file is another one after the step, the old one was       *)
(* standard output or none, was unlinked, or was closed after all of the   *)
(* conversion was in it.                                                   *)
LEMMA OutSteps ==
  ASSUME IInv, [Next]_vars, out' # out, ~Rerun
  PROVE  \/ out \in {NoFile, Stdout}
         \/ CodecFailed /\ fs' = [fs EXCEPT ![out] = Absent]
         \/ CloseFiles /\ pc' = "unlink" /\ UNCHANGED <<optind, fmt>>
<1>1. Typed
  BY Layers
<1>2. CASE CreateOutput
  BY <1>1, <1>2 DEF CreateOutput, Typed, OutputInHand
<1>3. ~Codec
  BY TypedCodec, <1>1
<1>4. CASE CodecFailed
  BY <1>4 DEF CodecFailed
<1>5. CASE CloseFiles
  BY <1>5 DEF CloseFiles
<1>6. CASE \/ Start \/ TakeArg \/ NoMoreArgs \/ OpenInput \/ DetectFormat
           \/ FlushOutput \/ CopyAttributes \/ KeepStdoutOpen \/ UnlinkInput
           \/ Exit \/ Kill \/ UNCHANGED vars
  BY <1>6 DEF Start, TakeArg, NoMoreArgs, OpenInput, DetectFormat,
     FlushOutput, CopyAttributes, KeepStdoutOpen, UnlinkInput, Exit, Kill,
     vars, stream
<1> QED
  BY <1>2, <1>3, <1>4, <1>5, <1>6 DEF Next, Step, Idle

(* What was before the run is noted when it starts.                        *)
LEMMA BeforeStays ==
  ASSUME IInv, [Next]_vars, ~Rerun
  PROVE  before' = before
<1>1. Codec => before' = before
  BY Layers, TypedCodec
<1> QED
  BY <1>1 DEF Next, Step, Idle, vars, history, Start, TakeArg, NoMoreArgs,
     OpenInput, DetectFormat, CreateOutput, CodecFailed, FlushOutput,
     CopyAttributes, CloseFiles, KeepStdoutOpen, UnlinkInput, Exit, Kill

(* File o, an output of argument n, is the one the process has open, what  *)
(* was there before, removed, or complete.                                 *)
Accounted(o, n) ==
  \/ o = out
  \/ fs[o] \in {before[o], Absent}
  \/ \E g \in Formats : Holds(o, n, g)

LEMMA AccountedStep ==
  ASSUME IInv, cmd \in SafeCommands, ~ignored', [Next]_vars, NEW k \in Args,
         NEW f \in Formats, NEW n, n = cmd.args[k],
         NEW o, o = OutName(cmd, n, f), Accounted(o, n)
  PROVE  Accounted(o, n)'
<1>1. /\ Typed /\ Ready' /\ UNCHANGED <<cmd, orig, Un, ToFile>>
      /\ cmd \in Commands /\ fs \in [Names -> Files \cup {Absent}]
  BY Layers DEF Typed, TypeOK
<1>2. o \in Names \ {Stdin, Stdout} /\ o \in Outputs(cmd, n) /\ o # NoFile
  BY <1>1, SafeNames, NamesAssumption
<1>3. CASE Rerun
  <2>1. before' = fs'
    BY <1>3 DEF Rerun
  <2> QED
    BY <2>1 DEF Accounted
<1>4. CASE ~Rerun /\ o = out /\ out' # out
  <2>1. CASE CodecFailed /\ fs' = [fs EXCEPT ![out] = Absent]
    <3>1. fs'[o] = Absent
      BY <1>1, <1>2, <1>4, <2>1
    <3> QED
      BY <3>1 DEF Accounted
  <2>2. CASE CloseFiles /\ pc' = "unlink" /\ UNCHANGED <<optind, fmt>>
    <3>1. /\ ToFile /\ optind \in Args /\ fmt \in Formats
          /\ o \in Outputs(cmd, cmd.args[optind]) /\ ~Filter(cmd)
          /\ In = cmd.args[optind] /\ o = OutName(cmd, In, fmt)
      BY <1>1, <1>2, <1>4, <2>2
      DEF CloseFiles, Typed, InHand, OutputInHand, Busy, Writing, In, ToFile
    <3>2. k = optind
      BY <1>1, <1>2, <3>1, SafeNames
    <3>3. In' = In
      BY <1>1, <2>2 DEF In
    <3>4. Holds(OutName(cmd, In, fmt), In, fmt)'
      BY <1>1, <2>2, <3>1 DEF Ready
    <3>5. Holds(o, n, fmt)'
      BY <1>1, <2>2, <3>1, <3>2, <3>3, <3>4 DEF Holds
    <3>6. \E g \in Formats : Holds(o, n, g)'
      <4>1. PICK g \in Formats : g = fmt
        BY <3>1
      <4>2. Holds(o, n, g)'
        BY <2>2, <3>5, <4>1 DEF Holds
      <4> QED
        BY <4>2
    <3> QED
      BY <3>6 DEF Accounted
  <2> QED
    BY <1>2, <1>4, <2>1, <2>2, OutSteps
<1>5. CASE o = out'
  BY <1>5 DEF Accounted
<1>6. CASE ~Rerun /\ o # out /\ o # out'
  <2>1. fs'[o] = fs[o]
    BY <1>6, OutputSteps
  <2>2. before' = before
    BY <1>6, BeforeStays
  <2>3. ASSUME NEW g \in Formats, Holds(o, n, g)
        PROVE  Holds(o, n, g)'
    BY <1>1, <2>1, <2>3 DEF Holds
  <2> QED
    BY <1>6, <2>1, <2>2, <2>3 DEF Accounted
<1> QED
  BY <1>3, <1>4, <1>5, <1>6

(* An output that main() leaves open at its end is one it was taken from   *)
(* by exit(), or could not unlink.                                         *)
LeftIsAbandoned ==
  pc \in {"exiting", "exit"} /\ out \notin {NoFile, Stdout} => abandoned

LEMMA LeftStep ==
  ASSUME IInv, LeftIsAbandoned, [Next]_vars
  PROVE  LeftIsAbandoned'
<1> USE DEF Leave, stream, history
<1>1. out \notin {NoFile, Stdout} =>
        pc \notin {"start", "next", "open", "detect", "create", "unlink"}
  BY Layers DEF Typed, OutputInHand
<1>2. CASE Start \/ TakeArg \/ NoMoreArgs \/ OpenInput \/ DetectFormat
  BY <1>1, <1>2 DEF Start, TakeArg, NoMoreArgs, OpenInput, DetectFormat,
     LeftIsAbandoned
<1>3. CASE CreateOutput
  BY <1>1, <1>3 DEF CreateOutput, LeftIsAbandoned
<1>4. CASE Codec
  BY <1>4 DEF Codec, StartCodec, WriteDirect, DirectWriteFails,
     WriteBuffered, SpillAndWrite, SpillFails, ReadFails, OutOfMemory,
     CodecReturns, LeftIsAbandoned
<1>5. CASE CodecFailed
  BY <1>5 DEF CodecFailed, LeftIsAbandoned
<1>6. CASE \/ FlushOutput \/ CopyAttributes \/ CloseFiles \/ KeepStdoutOpen
           \/ UnlinkInput \/ Kill \/ Rerun
  BY <1>6 DEF FlushOutput, CopyAttributes, CloseFiles, KeepStdoutOpen,
     UnlinkInput, Kill, Rerun, LeftIsAbandoned
<1>7. CASE Exit \/ UNCHANGED vars
  BY <1>7 DEF Exit, vars, LeftIsAbandoned
<1> QED
  BY <1>2, <1>3, <1>4, <1>5, <1>6, <1>7 DEF Next, Step, Idle

(* An output that is neither what was there before the run nor complete is *)
(* the one the process is at work on, or was when it was killed; none is   *)
(* left when main() returns, but by exit() inside a codec and by an        *)
(* unlink() that fails (snzip.c:426-437).                                  *)
AllAccounted ==
  cmd \in SafeCommands /\ ~ignored =>
    \A k \in Args : \A f \in Formats :
      Accounted(OutName(cmd, cmd.args[k], f), cmd.args[k])
THEOREM NothingPartial == Spec => []NoPartialOutput
<1>1. Init => AllAccounted /\ LeftIsAbandoned
  BY DEF Init, AllAccounted, Accounted, LeftIsAbandoned
<1>2. ASSUME IInv, AllAccounted, [Next]_vars
      PROVE  AllAccounted'
  <2>1. UNCHANGED <<cmd, Args>> /\ (ignored => ignored')
    BY <1>2, Layers
  <2>2. ASSUME cmd \in SafeCommands, ~ignored', NEW k \in Args,
               NEW f \in Formats
        PROVE  Accounted(OutName(cmd, cmd.args[k], f), cmd.args[k])'
    <3>1. PICK n : n = cmd.args[k]
      OBVIOUS
    <3>2. PICK o : o = OutName(cmd, n, f)
      OBVIOUS
    <3>3. Accounted(o, n)
      BY <1>2, <2>1, <2>2, <3>1, <3>2 DEF AllAccounted
    <3>4. Accounted(o, n)'
      BY <1>2, <2>2, <3>1, <3>2, <3>3, AccountedStep
    <3>5. o = OutName(cmd, cmd.args[k], f)' /\ n = cmd.args[k]'
      BY <2>1, <3>1, <3>2
    <3> QED
      BY <3>4, <3>5 DEF Accounted, Holds
  <2> QED
    BY <2>1, <2>2 DEF AllAccounted
<1>3. IInv /\ LeftIsAbandoned /\ [Next]_vars => LeftIsAbandoned'
  BY LeftStep
<1>4. ASSUME IInv, AllAccounted, LeftIsAbandoned
      PROVE  NoPartialOutput
  <2>1. cmd \in Commands
    BY <1>4 DEF IInv, TypeOK
  <2>2. ASSUME cmd \in SafeCommands, NEW k \in Args, NEW f \in Formats
        PROVE  OutName(cmd, cmd.args[k], f) \notin {NoFile, Stdout}
    BY <2>1, <2>2, SafeNames, NamesAssumption
  <2> QED
    BY <1>4, <2>2
    DEF AllAccounted, NoPartialOutput, Accounted, LeftIsAbandoned
<1> QED
  BY <1>1, <1>2, <1>3, <1>4, Invariant, PTL DEF Spec

-----------------------------------------------------------------------------
(* Status 0 means that everything was done.                                *)

Settled(n) == Skipped(cmd, n) \/ Replaced(n)

(* The arguments behind the one in work are settled; while an output is    *)
(* left open the status is 1.                                              *)
SettledSoFar ==
  /\ pc = "start" => optind = 0
  /\ pc \in {"exiting", "exit"} /\ out \notin {NoFile, Stdout} => status = 1
  /\ cmd \in SafeCommands /\ ~ignored /\ ToFile =>
       /\ pc \in Busy \cup {"open"} =>
            \A k \in Args : k < optind => Settled(cmd.args[k])
       /\ pc = "next" => \A k \in Args : k <= optind => Settled(cmd.args[k])
       /\ pc \in {"exiting", "exit"} /\ status = 0 /\ "h" \notin cmd.flags =>
            \A k \in Args : Settled(cmd.args[k])

(* Arguments that are settled stay settled.                                *)
LEMMA SettledStays ==
  ASSUME IInv, cmd \in SafeCommands, [Next]_vars, NEW k \in Args,
         UnlinkInput \/ ~(InWork /\ optind = k), Settled(cmd.args[k])
  PROVE  Settled(cmd.args[k])'
BY Layers, ReplacedStays DEF Settled

(* How main() goes from one argument to the next, and to its exit.         *)
LEMMA ProgressSteps ==
  ASSUME IInv, SettledSoFar, [Next]_vars
  PROVE  /\ pc' = "start" => optind' = 0
         /\ pc' \in {"exiting", "exit"} /\ out' \notin {NoFile, Stdout} =>
              status' = 1
         /\ ToFile /\ pc' \in Busy \cup {"open"} =>
              \/ pc \in Busy \cup {"open"} /\ optind' = optind
              \/ TakeArg /\ optind' = optind + 1
         /\ pc' = "next" =>
              \/ pc = "next" /\ optind' = optind
              \/ TakeArg /\ Skipped(cmd, cmd.args[optind']) /\ optind' = optind + 1
              \/ UnlinkInput /\ optind' = optind
              \/ optind' = 0
         /\ ToFile /\ pc' \in {"exiting", "exit"} /\ status' = 0 /\ "h" \notin cmd.flags =>
              \/ pc \in {"exiting", "exit"} /\ status = 0
              \/ pc = "next" /\ optind = Len(cmd.args)
<1> USE DEF Leave, Busy, stream, history
<1>1. /\ Typed /\ (Filter(cmd) => ~ToFile)
      /\ pc \notin {"exiting", "exit", "killed", "loops"} =>
           (out \notin {NoFile, Stdout} => pc \in Writing)
  BY Layers DEF ToFile, Typed, TypeOK, OutputInHand, PCs, Writing
<1>2. CASE Start
  BY <1>1, <1>2 DEF Start, Typed, OutputInHand, SettledSoFar
<1>3. CASE TakeArg
  BY <1>1, <1>3 DEF TakeArg, Typed, TypeOK
<1>4. CASE NoMoreArgs \/ OpenInput \/ DetectFormat
  BY <1>1, <1>4 DEF NoMoreArgs, OpenInput, DetectFormat, Writing
<1>5. CASE CreateOutput
  BY <1>1, <1>5 DEF CreateOutput, Writing
<1>6. CASE Codec
  BY <1>1, <1>6 DEF Codec, StartCodec, WriteDirect, DirectWriteFails,
     WriteBuffered, SpillAndWrite, SpillFails, ReadFails, OutOfMemory,
     CodecReturns
<1>7. CASE CodecFailed \/ FlushOutput \/ CopyAttributes \/ CloseFiles
  BY <1>1, <1>7 DEF CodecFailed, FlushOutput, CopyAttributes, CloseFiles
<1>8. CASE KeepStdoutOpen \/ UnlinkInput
  BY <1>1, <1>8 DEF KeepStdoutOpen, UnlinkInput
<1>9. CASE Exit \/ Kill \/ Rerun
  BY <1>1, <1>9 DEF Exit, Kill, Rerun, SettledSoFar
<1>10. CASE UNCHANGED vars
  BY <1>1, <1>10 DEF vars, SettledSoFar
<1> QED
  BY <1>2, <1>3, <1>4, <1>5, <1>6, <1>7, <1>8, <1>9, <1>10
  DEF Next, Step, Idle

(* What is settled stays so, and the argument main() leaves is settled.    *)
LEMMA SettledStep ==
  ASSUME IInv, SettledSoFar, [Next]_vars
  PROVE  SettledSoFar'
<1>1. /\ Typed /\ UNCHANGED <<cmd, orig, Un, Args, ToFile>>
      /\ (ignored => ignored') /\ cmd \in Commands /\ optind \in Nat
      /\ Args = 1 .. Len(cmd.args) /\ Len(cmd.args) \in Nat
      /\ pc = "next" => out \in {NoFile, Stdout}
  BY Layers, CommandFacts DEF Args, Typed, TypeOK, OutputInHand
<1> SUFFICES ASSUME cmd \in SafeCommands, ~ignored, ToFile
             PROVE  /\ pc' \in Busy \cup {"open"} =>
                         \A k \in Args : k < optind' => Settled(cmd.args[k])'
                    /\ pc' = "next" =>
                         \A k \in Args : k <= optind' => Settled(cmd.args[k])'
                    /\ /\ pc' \in {"exiting", "exit"} /\ status' = 0
                       /\ "h" \notin cmd.flags
                       => \A k \in Args : Settled(cmd.args[k])'
  BY <1>1, ProgressSteps DEF SettledSoFar
<1>2. ASSUME NEW k \in Args, Skipped(cmd, cmd.args[k])
      PROVE  Settled(cmd.args[k])'
  BY <1>1, <1>2 DEF Settled
<1>3. ASSUME pc \in Busy \cup {"open"}, NEW k \in Args, k < optind
      PROVE  Settled(cmd.args[k])'
  BY <1>1, <1>3, SettledStays DEF SettledSoFar
<1>4. ASSUME pc = "next", NEW k \in Args, k <= optind
      PROVE  Settled(cmd.args[k])'
  <2>1. ~InWork
    BY <1>1, <1>4 DEF InWork, Busy
  <2> QED
    BY <1>4, <2>1, SettledStays DEF SettledSoFar
<1>5. ASSUME UnlinkInput
      PROVE  /\ pc = "unlink" /\ optind \in Args
             /\ \A k \in Args : k <= optind => Settled(cmd.args[k])'
  <2>1. pc = "unlink"
    BY <1>5 DEF UnlinkInput
  <2>2. optind \in Args /\ Settled(cmd.args[optind])
    BY <2>1, UnlinkedIsReplaced DEF Settled
  <2>3. \A k \in Args : k <= optind => Settled(cmd.args[k])
    BY <1>1, <2>1, <2>2 DEF SettledSoFar, Busy
  <2> QED
    BY <1>5, <2>1, <2>2, <2>3, SettledStays
<1>6. CASE pc' \in Busy \cup {"open"}
  <2>1. ASSUME NEW k \in Args, k < optind'
        PROVE  Settled(cmd.args[k])'
    <3>1. CASE TakeArg /\ optind' = optind + 1
      <4>1. pc = "next" /\ k <= optind
        BY <1>1, <2>1, <3>1 DEF TakeArg
      <4> QED
        BY <1>4, <4>1
    <3> QED
      BY <1>3, <1>6, <2>1, <3>1, ProgressSteps
  <2>2. pc' # "next" /\ pc' \notin {"exiting", "exit"}
    BY <1>6 DEF Busy
  <2> QED
    BY <2>1, <2>2
<1>7. CASE pc' = "next"
  <2>1. ASSUME NEW k \in Args, k <= optind'
        PROVE  Settled(cmd.args[k])'
    <3>1. CASE TakeArg /\ Skipped(cmd, cmd.args[optind']) /\ optind' = optind + 1
      <4>1. pc = "next" /\ (k <= optind \/ k = optind')
        BY <1>1, <2>1, <3>1 DEF TakeArg
      <4> QED
        BY <1>2, <1>4, <3>1, <4>1
    <3>2. optind' # 0
      BY <1>1, <2>1
    <3> QED
      BY <1>4, <1>5, <1>7, <2>1, <3>1, <3>2, ProgressSteps
  <2>2. pc' \notin Busy \cup {"open"} /\ pc' \notin {"exiting", "exit"}
    BY <1>7 DEF Busy
  <2> QED
    BY <2>1, <2>2
<1>8. CASE /\ pc' \in {"exiting", "exit"} /\ status' = 0
           /\ "h" \notin cmd.flags
  <2>1. ASSUME NEW k \in Args
        PROVE  Settled(cmd.args[k])'
    <3>1. CASE pc = "next" /\ optind = Len(cmd.args)
      BY <1>1, <1>4, <3>1
    <3>2. CASE pc \in {"exiting", "exit"} /\ status = 0
      <4>1. Settled(cmd.args[k])
        BY <1>8, <3>2 DEF SettledSoFar
      <4>2. ~InWork
        BY <3>2 DEF SettledSoFar, InWork, Busy
      <4> QED
        BY <4>1, <4>2, SettledStays
    <3> QED
      BY <1>8, <3>1, <3>2, ProgressSteps
  <2>2. pc' \notin Busy \cup {"open", "next"}
    BY <1>8 DEF Busy
  <2> QED
    BY <2>1, <2>2
<1> QED
  BY <1>6, <1>7, <1>8

(* Exit status 0 after a run over files: each argument was passed over for *)
(* its suffix or is converted completely, what a .snz file has behind its  *)
(* end mark aside (snzip.c:424-440, 457).                                  *)
THEOREM StatusIsTrue == Spec => []StatusZeroMeansDone
<1>1. Init => SettledSoFar
  BY DEF Init, SettledSoFar, Busy
<1>2. IInv /\ SettledSoFar => StatusZeroMeansDone
  <2>1. ASSUME IInv, SettledSoFar, cmd \in SafeCommands, ~OptStdout(cmd),
               ~ignored, pc = "exit", status = 0, "h" \notin cmd.flags,
               NEW k \in Args
        PROVE  Settled(cmd.args[k])
    <3>1. ~Filter(cmd)
      BY <2>1, CommandFacts DEF IInv, TypeOK, Args
    <3> QED
      BY <2>1, <3>1 DEF SettledSoFar, ToFile
  <2> QED
    BY <2>1 DEF StatusZeroMeansDone, Settled
<1> QED
  BY <1>1, <1>2, SettledStep, Invariant, PTL DEF Spec

-----------------------------------------------------------------------------
(* Attributes follow.                                                      *)

(* When attributes are copied nothing is left in the buffer that would     *)
(* change them again, and they stay until the input is unlinked.           *)
AttributesInHand ==
  /\ pc \in {"attrs", "close"} => buf = <<>>
  /\ cmd \in SafeCommands /\ ToFile /\ "attrs" \notin Faults =>
       /\ pc = "close" => fs[out].attrs = fs[In].attrs
       /\ pc = "unlink" => fs[OutName(cmd, In, fmt)].attrs = orig[In].attrs

(* Emptying an empty buffer changes nothing.                               *)
LEMMA EmptyFlush ==
  ASSUME Typed, pc = "close", buf = <<>>, NEW n \in 0 .. Len(buf), Flush(n)
  PROVE  fs'[out].attrs = fs[out].attrs
<1>1. out \in Names /\ fs[out] \in Files /\ pc \in Writing
      /\ fs \in [Names -> Files \cup {Absent}]
  BY OutputFacts DEF Writing, Typed, TypeOK
<1>2. n = 0 /\ SubSeq(buf, 1, 0) = <<>>
  OBVIOUS
<1>3. fs' = AppendTo(out, <<>>)
  BY <1>2 DEF Flush
<1> QED
  BY <1>1, <1>3 DEF AppendTo

LEMMA AttributesInHandStep ==
  ASSUME IInv, AttributesInHand, [Next]_vars
  PROVE  AttributesInHand'
<1>1. /\ Typed /\ Untouched /\ UNCHANGED <<cmd, orig, Un, ToFile>>
      /\ cmd \in Commands /\ fs \in [Names -> Files \cup {Absent}]
      /\ pc \in Writing =>
           /\ out \in Names /\ fs[out] \in Files /\ In # out
           /\ In \in Names /\ fs[In] \in Files
  BY Layers, OutputFacts, InputFacts DEF Typed, TypeOK, Writing, Busy
<1>2. CASE FlushOutput
  <2>1. pc' = "attrs" /\ buf' = <<>>
    BY <1>2 DEF FlushOutput, Flush
  <2> QED
    BY <2>1 DEF AttributesInHand
<1>3. CASE CopyAttributes
  <2>1. /\ pc = "attrs" /\ pc' = "close" /\ buf' = buf /\ out' = out
        /\ UNCHANGED In
        /\ "attrs" \notin Faults =>
             fs' = [fs EXCEPT ![out].attrs = fs[In].attrs]
    BY <1>1, <1>3 DEF CopyAttributes, In, stream
  <2>2. "attrs" \notin Faults => fs'[out].attrs = fs'[In].attrs
    BY <1>1, <2>1 DEF Writing, Files
  <2> QED
    BY <2>1, <2>2 DEF AttributesInHand
<1>4. CASE CloseFiles
  <2>1. /\ pc = "close" /\ pc' = "unlink" /\ UNCHANGED <<optind, fmt, In>>
        /\ \E n \in 0 .. Len(buf) : Flush(n)
    BY <1>1, <1>4 DEF CloseFiles, In
  <2>2. fs'[out].attrs = fs[out].attrs
    BY <1>1, <2>1, EmptyFlush DEF AttributesInHand
  <2>3. ASSUME cmd \in SafeCommands, ToFile, "attrs" \notin Faults
        PROVE  fs'[OutName(cmd, In, fmt)].attrs = orig[In].attrs
    <3>1. out = OutName(cmd, In, fmt) /\ fs[In] = orig[In]
      BY <1>1, <2>1, <2>3
      DEF Typed, OutputInHand, Writing, Untouched, Busy, In, ToFile
    <3> QED
      BY <2>1, <2>2, <2>3, <3>1 DEF AttributesInHand
  <2> QED
    BY <1>1, <2>1, <2>3 DEF AttributesInHand
<1>5. CASE KeepStdoutOpen
  <2>1. /\ pc = "converted" /\ out = Stdout
        /\ pc' \notin {"attrs", "close"}
    BY <1>5 DEF KeepStdoutOpen, Leave
  <2>2. ~ToFile
    <3>1. ToFile => /\ out = OutName(cmd, In, fmt) /\ optind \in Args
                    /\ fmt \in Formats /\ In = cmd.args[optind]
      BY <1>1, <2>1
      DEF Typed, InHand, OutputInHand, Writing, Busy, In, ToFile
    <3> QED
      BY <1>1, <2>1, <3>1, CommandFacts DEF Args
  <2> QED
    BY <1>1, <2>1, <2>2 DEF AttributesInHand
<1>6. CASE UNCHANGED vars
  BY <1>6 DEF vars, stream, history, AttributesInHand, In, ToFile
<1>7. CASE \/ Start \/ TakeArg \/ NoMoreArgs \/ OpenInput \/ DetectFormat
           \/ CreateOutput \/ Codec \/ CodecFailed \/ UnlinkInput \/ Exit
           \/ Kill \/ Rerun
  <2>1. Codec => pc' \notin {"attrs", "close", "unlink"}
    BY DEF Codec, StartCodec, WriteDirect, DirectWriteFails, WriteBuffered,
       SpillAndWrite, SpillFails, ReadFails, OutOfMemory, CodecReturns, Leave
  <2>2. pc' \notin {"attrs", "close", "unlink"}
    BY <1>7, <2>1 DEF Start, TakeArg, NoMoreArgs, OpenInput, DetectFormat,
       CreateOutput, CodecFailed, UnlinkInput, Exit, Kill, Rerun, Leave
  <2> QED
    BY <2>2 DEF AttributesInHand
<1> QED
  BY <1>2, <1>3, <1>4, <1>5, <1>6, <1>7 DEF Next, Step, Idle

(* A removed argument has left its attributes to its replacement.          *)
LEMMA AttributesStep ==
  ASSUME IInv, AttributesInHand, AttributesFollow, [Next]_vars
  PROVE  AttributesFollow'
<1>1. /\ UNCHANGED <<cmd, orig, Un, Args, ToFile>> /\ (ignored => ignored')
      /\ Typed /\ Untouched /\ cmd \in Commands
      /\ fs \in [Names -> Files \cup {Absent}]
  BY Layers DEF Typed, TypeOK
<1>2. ASSUME cmd \in SafeCommands, ~ignored', "attrs" \notin Faults,
             NEW k \in Args
      PROVE  LET n == cmd.args[k] IN
             fs'[n] = orig[n] \/ \E f \in Formats :
               /\ Holds(OutName(cmd, n, f), n, f)'
               /\ fs'[OutName(cmd, n, f)].attrs = orig[n].attrs
  <2> DEFINE n == cmd.args[k]
  <2>1. ASSUME UnlinkInput \/ ~(InWork /\ optind = k),
               \E f \in Formats : /\ Holds(OutName(cmd, n, f), n, f)
                                  /\ fs[OutName(cmd, n, f)].attrs = orig[n].attrs
        PROVE  \E f \in Formats :
                 /\ Holds(OutName(cmd, n, f), n, f)'
                 /\ fs'[OutName(cmd, n, f)].attrs = orig[n].attrs
    BY <1>2, <2>1, OutputsStay
  <2>2. fs[n] = orig[n] \/ \E f \in Formats :
          /\ Holds(OutName(cmd, n, f), n, f)
          /\ fs[OutName(cmd, n, f)].attrs = orig[n].attrs
    BY <1>1, <1>2 DEF AttributesFollow
  <2>3. CASE ~UnlinkInput
    <3>1. fs'[n] = fs[n]
      BY <1>1, <1>2, <2>3, ArgumentSteps DEF ArgsSame
    <3>2. InWork /\ optind = k => fs[n] = orig[n]
      BY <1>2, InWorkIsKept
    <3> QED
      BY <2>1, <2>2, <3>1, <3>2
  <2>4. CASE UnlinkInput /\ optind # k
    <3>1. fs'[n] = fs[n]
      <4>1. /\ UNCHANGED fs \/ fs' = [fs EXCEPT ![cmd.args[optind]] = Absent]
            /\ optind \in Args
        BY <1>1, <2>4 DEF UnlinkInput, Typed, InHand, Busy, In
      <4> QED
        BY <1>1, <1>2, <2>4, <4>1, SafeNames
    <3> QED
      BY <2>1, <2>2, <2>4, <3>1
  <2>5. CASE UnlinkInput /\ optind = k
    <3>1. CASE UNCHANGED fs
      BY <1>1, <2>1, <2>2, <2>5, <3>1
    <3>2. CASE ~UNCHANGED fs
      <4>1. pc = "unlink" /\ ToFile
        BY <1>1, <2>5, <3>2
        DEF UnlinkInput, Typed, InHand, ToFile, OptStdout, OptKeep
      <4>2. /\ In = n /\ fmt \in Formats
            /\ Holds(OutName(cmd, n, fmt), n, fmt)
        BY <1>1, <1>2, <2>5, <4>1, UnlinkedIsReplaced
      <4>3. fs[OutName(cmd, n, fmt)].attrs = orig[n].attrs
        BY <1>2, <4>1, <4>2 DEF AttributesInHand
      <4> QED
        BY <2>1, <2>5, <4>2, <4>3
    <3> QED
      BY <3>1, <3>2
  <2> QED
    BY <2>3, <2>4, <2>5
<1> QED
  BY <1>1, <1>2 DEF AttributesFollow

(* A removed input has left its time, mode and owner to its replacement    *)
(* (snzip.c:443-444): what the buffer held was written before.             *)
THEOREM AttributesAreKept == Spec => []AttributesFollow
<1>1. Init => AttributesInHand /\ AttributesFollow
  BY DEF Init, AttributesInHand, AttributesFollow
<1> QED
  BY <1>1, AttributesInHandStep, AttributesStep, Invariant, PTL DEF Spec

-----------------------------------------------------------------------------
(* Standard output is the concatenation of what the arguments give.        *)

(* The pieces of input k, and where among them piece p comes from.         *)
Pieced(k) == IF orig[Inputs[k]] = Absent THEN <<>> ELSE orig[Inputs[k]].data
IsText(k, j) == Pieced(k)[j].of \in Payloads
Comes(p, k, j) ==
  /\ k \in DOMAIN Inputs /\ j \in DOMAIN Pieced(k) /\ IsText(k, j)
  /\ p.of = Pieced(k)[j].of /\ p.i = Pieced(k)[j].i

(* The hypothesis: pieces of text tell where they come from, so that no    *)
(* argument is there twice, and standard output is empty at first.         *)
ToldApart ==
  /\ orig[Stdout].data = <<>>
  /\ \A k, l \in DOMAIN Inputs :
       \A j \in DOMAIN Pieced(k), m \in DOMAIN Pieced(l) :
         IsText(k, j) /\ IsText(l, m) =>
           /\ Pieced(k)[j].of = Pieced(l)[m].of => k = l
           /\ k = l /\ j < m => Pieced(k)[j].i < Pieced(l)[m].i

(* The pieces of text in ts come from the inputs, in their order, from     *)
(* those before input k and from the first n pieces of k.                  *)
Known(ts) ==
  \A x \in DOMAIN ts : ts[x].of \in Payloads =>
    \E k \in DOMAIN Inputs : \E j \in DOMAIN Pieced(k) : Comes(ts[x], k, j)
Ordered(ts) ==
  \A x, y \in DOMAIN ts : \A k, l \in DOMAIN Inputs :
    \A j \in DOMAIN Pieced(k), m \in DOMAIN Pieced(l) :
      x < y /\ Comes(ts[x], k, j) /\ Comes(ts[y], l, m)
      => k < l \/ (k = l /\ j < m)
NoneBehind(ts, k, n) ==
  \A x \in DOMAIN ts : \A l \in DOMAIN Inputs : \A j \in DOMAIN Pieced(l) :
    Comes(ts[x], l, j) => l < k \/ (l = k /\ j <= n)

(* None of these is missing, but for what a .snz file has behind its end   *)
(* mark.                                                                   *)
GoesOn(k) == Un /\ orig[Inputs[k]] # Absent /\ Behind(Pieced(k))
There(ts, k, n) ==
  \A j \in DOMAIN Pieced(k) : j <= n /\ IsText(k, j) =>
    \E x \in DOMAIN ts : Comes(ts[x], k, j)
Whole(ts, k) ==
  orig[Inputs[k]] # Absent /\ There(ts, k, Len(Pieced(k)))
NoneMissing(ts, k, n) ==
  \A l \in DOMAIN Inputs :
    /\ l < k => Skipped(cmd, Inputs[l]) \/ Whole(ts, l) \/ GoesOn(l)
    /\ l = k => There(ts, l, n)

(* Where block n of a file is; 0 when there is none.                       *)
Place(f, d, n) ==
  IF n \in 1 .. Cardinality(BlocksAt(f, d)) THEN BlockIndex(f, d, n) ELSE 0

(* How far main() is: the input in hand, and up to which of its pieces the *)
(* codec has come when it has put out n.                                   *)
Working == {"next", "open", "detect", "create", "begin", "convert",
            "converted", "unlink"}
Current == IF Filter(cmd) THEN 1 ELSE optind
Taking(n) == IF Un THEN Place(fmt, Input, n) ELSE n - Lead(fmt)
Taken == Taking(pos)
Front == IF pc \in {"converted", "unlink", "next"} THEN Current + 1 ELSE Current
Depth == IF pc = "convert" THEN Taken ELSE 0

(* What is on standard output and on its way there.                        *)
Concatenated ==
  /\ Known(ToStdout) /\ Ordered(ToStdout)
  /\ pc = "start" => ToStdout = <<>> /\ optind = 0 /\ ferr = FALSE
  /\ pc = "begin" => pos = 0
  /\ pc \in Working => NoneBehind(ToStdout, Front, Depth)
  /\ pc \in Working /\ ~ignored /\ ~ferr => NoneMissing(ToStdout, Front, Depth)
  /\ pc \in Working \ {"convert", "converted"} /\ ~ignored => ferr = FALSE
  /\ pc \in {"exiting", "exit"} /\ status = 0 /\ "h" \notin cmd.flags /\ ~ignored
       => NoneMissing(ToStdout, Len(Inputs) + 1, 0)

(* Nothing is in the stdio buffer when a codec writes past it: the others  *)
(* flush it first, and raw is never used with another format.              *)
FormatGiven == ~(Un /\ cmd.t = NoFormat)
GivenFormat == IF cmd.t = NoFormat THEN DefaultFormat ELSE cmd.t
BufferInHand ==
  /\ out # Stdout \/ pc = "exit" => buf = <<>>
  /\ pc = "convert" /\ Direct(fmt, Un) => buf = <<>>
  /\ FormatGiven /\ pc \in Working => fmt = GivenFormat
  /\ FormatGiven /\ GivenFormat = "raw" => buf = <<>>
  /\ ~FormatGiven /\ pc \in {"create", "begin"} => fmt # "raw"

StdoutInHand ==
  IF ToFile THEN out # Stdout /\ fs[Stdout].data = <<>>
  ELSE /\ \A n \in Names \ {Stdout} : fs[n] = orig[n]
       /\ BufferInHand /\ (ToldApart => Concatenated)

-----------------------------------------------------------------------------
(* The inputs are names of files, and what is in them are pieces.          *)
LEMMA InputsType ==
  ASSUME IInv
  PROVE  /\ Len(Inputs) \in Nat /\ DOMAIN Inputs = 1 .. Len(Inputs)
         /\ \A k \in DOMAIN Inputs :
              /\ Inputs[k] \in Names \ {Stdout}
              /\ Len(Pieced(k)) \in Nat /\ DOMAIN Pieced(k) = 1 .. Len(Pieced(k))
              /\ \A j \in DOMAIN Pieced(k) :
                   Pieced(k)[j].i \in Nat
<1>1. cmd \in Commands /\ orig \in [Names -> Files \cup {Absent}]
  BY IInvLayers DEF IInv, TypeOK
<1>2. /\ Len(Inputs) \in Nat /\ DOMAIN Inputs = 1 .. Len(Inputs)
      /\ \A k \in DOMAIN Inputs : Inputs[k] \in Names \ {Stdout}
  <2>1. CASE Filter(cmd)
    BY <2>1, StandardNames DEF Inputs
  <2>2. CASE ~Filter(cmd)
    BY <1>1, <2>2, CommandFacts DEF Inputs
  <2> QED
    BY <2>1, <2>2
<1>3. ASSUME NEW k \in DOMAIN Inputs
      PROVE  Pieced(k) \in Seq(Pieces)
  <2>1. orig[Inputs[k]] \in Files \cup {Absent}
    BY <1>1, <1>2
  <2> QED
    BY <2>1, EmptySeq DEF Pieced, Files
<1>4. ASSUME NEW s \in Seq(Pieces)
      PROVE  /\ Len(s) \in Nat /\ DOMAIN s = 1 .. Len(s)
             /\ \A j \in DOMAIN s : s[j].i \in Nat
  <2>1. \A j \in DOMAIN s : s[j] \in Pieces
    BY ElementOfSeq, LenProperties
  <2> QED
    BY <2>1, LenProperties DEF Pieces
<1> QED
  BY <1>2, <1>3, <1>4

(* A piece of text comes from one place.                                   *)
LEMMA OneOrigin ==
  ASSUME IInv, ToldApart, NEW p, NEW k, NEW l, NEW j, NEW m,
         Comes(p, k, j), Comes(p, l, m)
  PROVE  k = l /\ j = m
<1>1. /\ k \in DOMAIN Inputs /\ l \in DOMAIN Inputs
      /\ j \in DOMAIN Pieced(k) /\ m \in DOMAIN Pieced(l)
      /\ IsText(k, j) /\ IsText(l, m)
      /\ Pieced(k)[j].of = Pieced(l)[m].of /\ Pieced(k)[j].i = Pieced(l)[m].i
  BY DEF Comes
<1>2. k = l /\ (j < m => Pieced(k)[j].i < Pieced(l)[m].i)
  BY <1>1 DEF ToldApart
<1>3. m < j => Pieced(l)[m].i < Pieced(k)[j].i
  BY <1>1 DEF ToldApart
<1>4. j \in Nat /\ m \in Nat /\ Pieced(k)[j].i \in Nat
  BY <1>1, InputsType
<1> QED
  BY <1>1, <1>2, <1>3, <1>4

(* A sequence that ends earlier.                                           *)
Shorter(us, ts) ==
  /\ Len(us) <= Len(ts) /\ Len(us) \in Nat /\ Len(ts) \in Nat
  /\ DOMAIN us = 1 .. Len(us) /\ DOMAIN ts = 1 .. Len(ts)
  /\ \A x \in 1 .. Len(us) : us[x] = ts[x]
LEMMA ShorterKeeps ==
  ASSUME NEW us, NEW ts, Shorter(us, ts)
  PROVE  /\ Known(ts) => Known(us)
         /\ Ordered(ts) => Ordered(us)
         /\ \A k, n : NoneBehind(ts, k, n) => NoneBehind(us, k, n)
<1>1. \A x \in DOMAIN us : x \in DOMAIN ts /\ us[x] = ts[x]
  BY DEF Shorter
<1>2. Known(ts) => Known(us)
  BY <1>1 DEF Known
<1>3. Ordered(ts) => Ordered(us)
  BY <1>1 DEF Ordered
<1>4. \A k, n : NoneBehind(ts, k, n) => NoneBehind(us, k, n)
  BY <1>1 DEF NoneBehind
<1> QED
  BY <1>2, <1>3, <1>4

(* The front moves on.                                                     *)
LEMMA FrontMoves ==
  ASSUME IInv, NEW ts, NEW k \in Nat, NEW n \in Int
  PROVE  /\ NoneBehind(ts, k, n) => NoneBehind(ts, k + 1, 0)
         /\ \A m \in Int :
              (n <= m \/ n = 0) /\ NoneBehind(ts, k, n) => NoneBehind(ts, k, m)
<1>1. \A l \in DOMAIN Inputs :
        l \in Nat /\ \A j \in DOMAIN Pieced(l) : j \in Nat /\ ~(j <= 0)
  BY InputsType
<1>2. NoneBehind(ts, k, n) => NoneBehind(ts, k + 1, 0)
  BY <1>1 DEF NoneBehind
<1>3. \A m \in Int :
        (n <= m \/ n = 0) /\ NoneBehind(ts, k, n) => NoneBehind(ts, k, m)
  BY <1>1 DEF NoneBehind
<1> QED
  BY <1>2, <1>3

(* Input k is done: all its text is out, or it is passed over, or it goes  *)
(* on behind its end mark.                                                 *)
LEMMA InputDone ==
  ASSUME IInv, NEW ts, NEW k \in Nat, NEW n \in Int,
         NoneMissing(ts, k, n),
         k \in DOMAIN Inputs =>
           \/ Skipped(cmd, Inputs[k]) \/ GoesOn(k)
           \/ /\ orig[Inputs[k]] # Absent
              /\ \A j \in DOMAIN Pieced(k) : IsText(k, j) => j <= n
  PROVE  NoneMissing(ts, k + 1, 0)
<1> SUFFICES ASSUME NEW l \in DOMAIN Inputs
             PROVE  /\ l < k + 1 =>
                         Skipped(cmd, Inputs[l]) \/ Whole(ts, l) \/ GoesOn(l)
                    /\ l = k + 1 => There(ts, l, 0)
  BY DEF NoneMissing
<1>1. l \in Nat /\ \A j \in DOMAIN Pieced(l) : j \in Nat /\ ~(j <= 0)
  BY InputsType
<1>2. CASE l < k
  BY <1>1, <1>2 DEF NoneMissing
<1>3. CASE l = k
  <2>1. There(ts, k, n)
    BY <1>3 DEF NoneMissing
  <2> QED
    BY <1>1, <1>3, <2>1 DEF Whole, There
<1>4. CASE l = k + 1
  BY <1>1, <1>4 DEF There
<1> QED
  BY <1>1, <1>2, <1>3, <1>4

(* Skipping ahead over nothing: what is missing does not depend on the     *)
(* pieces that are no text, nor on more that are put out.                  *)
LEMMA MoreIsThere ==
  ASSUME NEW ts, NEW us, NEW k, NEW n,
         \A x \in DOMAIN ts : x \in DOMAIN us /\ us[x] = ts[x]
  PROVE  NoneMissing(ts, k, n) => NoneMissing(us, k, n)
<1>1. \A l, m : There(ts, l, m) => There(us, l, m)
  BY DEF There
<1> QED
  BY <1>1 DEF NoneMissing, Whole

(* One piece more: piece e of input k, with no text left out in front of   *)
(* it, or one that is no text.                                             *)
LEMMA GrowsKeeps ==
  ASSUME IInv, ToldApart, NEW ts \in Seq(Pieces), NEW p \in Pieces,
         NEW k \in DOMAIN Inputs, NEW n \in Int, NEW e \in Int, n < e,
         Known(ts), Ordered(ts), NoneBehind(ts, k, n),
         \A j \in DOMAIN Pieced(k) : n < j /\ j < e => ~IsText(k, j),
         e \in DOMAIN Pieced(k) /\ IsText(k, e) => Comes(p, k, e),
         p.of \in Payloads => e \in DOMAIN Pieced(k) /\ IsText(k, e)
  PROVE  /\ Known(ts \o <<p>>) /\ Ordered(ts \o <<p>>)
         /\ NoneBehind(ts \o <<p>>, k, e)
         /\ NoneMissing(ts, k, n) => NoneMissing(ts \o <<p>>, k, e)
<1> DEFINE us == ts \o <<p>>
<1>1. /\ Len(ts) \in Nat /\ DOMAIN ts = 1 .. Len(ts)
      /\ DOMAIN us = 1 .. Len(ts) + 1
      /\ \A x \in 1 .. Len(ts) : us[x] = ts[x]
      /\ us[Len(ts) + 1] = p
  <2>1. <<p>> \in Seq(Pieces) /\ Len(<<p>>) = 1 /\ <<p>>[1] = p
    OBVIOUS
  <2>2. /\ Len(ts) \in Nat /\ DOMAIN ts = 1 .. Len(ts)
        /\ us \in Seq(Pieces) /\ Len(us) = Len(ts) + 1
        /\ \A x \in 1 .. Len(ts) + 1 :
             us[x] = IF x <= Len(ts) THEN ts[x] ELSE <<p>>[x - Len(ts)]
    BY <2>1, ConcatProperties, LenProperties
  <2>3. DOMAIN us = 1 .. Len(ts) + 1
    BY <2>2, LenProperties
  <2> QED
    BY <2>1, <2>2, <2>3
<1> HIDE DEF us
<1>2. \A l \in DOMAIN Inputs : l \in Nat /\ \A j \in DOMAIN Pieced(l) : j \in Nat
  BY InputsType
<1>3. \A l, j : Comes(p, l, j) => l = k /\ j = e
  <2>1. \A l, j : Comes(p, l, j) => Comes(p, k, e)
    BY DEF Comes, IsText
  <2> QED
    BY <2>1, OneOrigin
<1>4. \A x \in DOMAIN us : us[x] = p \/ (x \in DOMAIN ts /\ us[x] = ts[x])
  BY <1>1
<1>5. Known(us)
  <2>1. p.of \in Payloads => Comes(p, k, e) /\ e \in DOMAIN Pieced(k)
    OBVIOUS
  <2> QED
    BY <1>4, <2>1 DEF Known
<1>6. ASSUME NEW x \in DOMAIN us, NEW l \in DOMAIN Inputs,
             NEW j \in DOMAIN Pieced(l), Comes(us[x], l, j)
      PROVE  l < k \/ (l = k /\ j <= e)
  <2>1. CASE us[x] = p
    BY <1>2, <1>3, <1>6, <2>1
  <2>2. CASE x \in DOMAIN ts /\ us[x] = ts[x]
    <3>1. l < k \/ (l = k /\ j <= n)
      BY <1>6, <2>2 DEF NoneBehind
    <3> QED
      BY <1>2, <3>1
  <2> QED
    BY <1>4, <2>1, <2>2
<1>7. ASSUME NEW x \in DOMAIN us, NEW y \in DOMAIN us,
             NEW l \in DOMAIN Inputs, NEW h \in DOMAIN Inputs,
             NEW j \in DOMAIN Pieced(l), NEW m \in DOMAIN Pieced(h),
             x < y, Comes(us[x], l, j), Comes(us[y], h, m)
      PROVE  l < h \/ (l = h /\ j < m)
  <2>1. x \in DOMAIN ts /\ us[x] = ts[x]
    BY <1>1, <1>7
  <2>2. CASE y \in DOMAIN ts
    <3>1. us[y] = ts[y]
      BY <1>1, <2>2
    <3> QED
      BY <1>7, <2>1, <2>2, <3>1 DEF Ordered
  <2>3. CASE y \notin DOMAIN ts
    <3>1. us[y] = p
      BY <1>4, <2>3
    <3>2. h = k /\ m = e
      BY <1>3, <1>7, <3>1
    <3>3. l < k \/ (l = k /\ j <= n)
      BY <1>7, <2>1 DEF NoneBehind
    <3> QED
      BY <1>2, <3>2, <3>3
  <2> QED
    BY <2>2, <2>3
<1>8. NoneMissing(ts, k, n) => NoneMissing(us, k, e)
  <2>1. NoneMissing(ts, k, n) => NoneMissing(us, k, n)
    BY <1>1, MoreIsThere
  <2>2. There(us, k, n) => There(us, k, e)
    <3> SUFFICES ASSUME There(us, k, n), NEW j \in DOMAIN Pieced(k),
                        j <= e, IsText(k, j)
                 PROVE  \E x \in DOMAIN us : Comes(us[x], k, j)
      BY DEF There
    <3>1. CASE j = e
      <4>1. Comes(us[Len(ts) + 1], k, j) /\ Len(ts) + 1 \in DOMAIN us
        BY <1>1, <3>1
      <4> QED
        BY <4>1
    <3>2. CASE j # e
      <4>1. j <= n
        BY <1>2, <3>2 DEF IsText
      <4> QED
        BY <4>1 DEF There
    <3> QED
      BY <3>1, <3>2
  <2> QED
    BY <2>1, <2>2 DEF NoneMissing
<1>9. NoneBehind(us, k, e)
  BY <1>6 DEF NoneBehind
<1>10. Ordered(us)
  BY <1>7 DEF Ordered
<1> QED
  BY <1>5, <1>8, <1>9, <1>10 DEF us

(* Standard output is empty: nothing is out of order, and nothing missing  *)
(* in front of the first input.                                            *)
LEMMA NothingYet ==
  ASSUME IInv
  PROVE  /\ Known(<<>>) /\ Ordered(<<>>) /\ \A k, n : NoneBehind(<<>>, k, n)
         /\ NoneMissing(<<>>, 1, 0)
<1>1. DOMAIN <<>> = {}
  OBVIOUS
<1>2. \A l \in DOMAIN Inputs :
        ~(l < 1) /\ \A j \in DOMAIN Pieced(l) : ~(j <= 0)
  BY InputsType
<1> QED
  BY <1>1, <1>2 DEF Known, Ordered, NoneBehind, NoneMissing, There

(* The inputs stay what they are, and with them where pieces come from.    *)
LEMMA OriginsStay ==
  ASSUME UNCHANGED <<cmd, orig>>
  PROVE  /\ Inputs' = Inputs /\ (ToldApart' <=> ToldApart)
         /\ \A ts : Known(ts)' <=> Known(ts)
         /\ \A ts : Ordered(ts)' <=> Ordered(ts)
         /\ \A ts, k, n : NoneBehind(ts, k, n)' <=> NoneBehind(ts, k, n)
         /\ \A ts, k, n : NoneMissing(ts, k, n)' <=> NoneMissing(ts, k, n)
<1>1. Inputs' = Inputs
  BY DEF Inputs, Filter
<1>2. \A k : Pieced(k)' = Pieced(k)
  BY <1>1 DEF Pieced
<1>3. \A k, j : IsText(k, j)' <=> IsText(k, j)
  BY <1>2 DEF IsText
<1>4. \A p, k, j : Comes(p, k, j)' <=> Comes(p, k, j)
  BY <1>1, <1>2, <1>3 DEF Comes
<1>5. ToldApart' <=> ToldApart
  BY <1>1, <1>2, <1>3 DEF ToldApart
<1>6. \A ts : Known(ts)' <=> Known(ts)
  BY <1>1, <1>2, <1>4 DEF Known
<1>7. \A ts : Ordered(ts)' <=> Ordered(ts)
  BY <1>1, <1>2, <1>4 DEF Ordered
<1>8. \A ts, k, n : NoneBehind(ts, k, n)' <=> NoneBehind(ts, k, n)
  BY <1>1, <1>2, <1>4 DEF NoneBehind
<1>9. \A ts, k, n : There(ts, k, n)' <=> There(ts, k, n)
  BY <1>1, <1>2, <1>3, <1>4 DEF There
<1>10. \A k : GoesOn(k)' <=> GoesOn(k)
  BY <1>1, <1>2 DEF GoesOn, Un
<1>11. \A ts, k, n : NoneMissing(ts, k, n)' <=> NoneMissing(ts, k, n)
  BY <1>1, <1>2, <1>9, <1>10 DEF NoneMissing, Whole
<1> QED
  BY <1>1, <1>5, <1>6, <1>7, <1>8, <1>11

(* So the invariant after a step can be looked at with the inputs of       *)
(* before.                                                                 *)
LEMMA AfterStep ==
  ASSUME UNCHANGED <<cmd, orig>>, NEW us, NEW k, NEW n,
         us = ToStdout', k = Front', n = Depth',
         Known(us), Ordered(us),
         pc' = "start" => us = <<>> /\ optind' = 0 /\ ferr' = FALSE,
         pc' = "begin" => pos' = 0,
         pc' \in Working => NoneBehind(us, k, n),
         pc' \in Working /\ ~ignored' /\ ~ferr' => NoneMissing(us, k, n),
         pc' \in Working \ {"convert", "converted"} /\ ~ignored' => ferr' = FALSE,
         /\ pc' \in {"exiting", "exit"} /\ status' = 0 /\ "h" \notin cmd.flags
         /\ ~ignored'
         => NoneMissing(us, Len(Inputs) + 1, 0)
  PROVE  Concatenated'
<1>1. /\ Known(us)' /\ Ordered(us)'
      /\ pc' \in Working => NoneBehind(us, k, n)'
      /\ pc' \in Working /\ ~ignored' /\ ~ferr' => NoneMissing(us, k, n)'
      /\ /\ pc' \in {"exiting", "exit"} /\ status' = 0
         /\ "h" \notin cmd'.flags /\ ~ignored'
         => NoneMissing(us, Len(Inputs) + 1, 0)'
  BY OriginsStay
<1> QED
  BY <1>1, Zenon DEF Concatenated

-----------------------------------------------------------------------------
(* The codec, when it writes to standard output.                           *)

(* What is in hand when main() writes to standard output.                  *)
LEMMA StdoutFacts ==
  ASSUME IInv, ~ToFile
  PROVE  /\ out \in {NoFile, Stdout} /\ (pc \in Writing => out = Stdout)
         /\ pc \notin {"attrs", "close"} /\ ferr \in BOOLEAN /\ optind \in Nat
         /\ pos \in Nat /\ Current \in Nat
         /\ fs[Stdout].data \in Seq(Pieces) /\ buf \in Seq(Pieces)
         /\ ToStdout \in Seq(Pieces)
         /\ (out # Stdout => buf = <<>>) => ToStdout = fs[Stdout].data \o buf
<1>1. Typed /\ fs[Stdout] \in Files
  BY IInvLayers, StandardNames DEF Typed, TypeOK, InHand
<1>2. /\ fs[Stdout].data \in Seq(Pieces) /\ buf \in Seq(Pieces)
      /\ ferr \in BOOLEAN /\ optind \in Nat /\ pos \in Nat
  BY <1>1, CommandFacts DEF Typed, TypeOK, Files
<1>3. /\ fs[Stdout].data \o buf \in Seq(Pieces)
      /\ fs[Stdout].data \o <<>> \in Seq(Pieces)
      /\ <<>> \in Seq(Pieces)
  BY <1>2, EmptySeq, ConcatProperties
<1>4. ToStdout \in Seq(Pieces)
  BY <1>3 DEF ToStdout
<1>5. (out # Stdout => buf = <<>>) => ToStdout = fs[Stdout].data \o buf
  BY DEF ToStdout
<1>6. /\ out \in {NoFile, Stdout} /\ (pc \in Writing => out = Stdout)
      /\ pc \notin {"attrs", "close"}
  BY <1>1 DEF Typed, InHand, OutputInHand, Writing
<1>7. Current \in Nat
  BY <1>2 DEF Current
<1> QED
  BY <1>2, <1>4, <1>5, <1>6, <1>7

(* The input in hand is one of the inputs, as it was at first.             *)
LEMMA InputIsOriginal ==
  ASSUME IInv, ~ToFile, pc \in Busy,
         \A n \in Names \ {Stdout} : fs[n] = orig[n]
  PROVE  /\ Current \in DOMAIN Inputs /\ In = Inputs[Current]
         /\ orig[Inputs[Current]] # Absent /\ Pieced(Current) = Input
         /\ Input \in Seq(Pieces) /\ Len(Input) \in Nat
         /\ DOMAIN Input = 1 .. Len(Input)
         /\ \A j \in DOMAIN Input : Input[j] \in Pieces
<1>1. Typed /\ In \in Names \ {Stdout} /\ fs[In] # Absent
  BY IInvLayers, InputFacts DEF Typed, InHand
<1>2. fs[In] \in Files
  BY <1>1 DEF Typed, TypeOK
<1>3. In = Inputs[Current] /\ Current \in DOMAIN Inputs
  <2>1. CASE Filter(cmd)
    BY <2>1 DEF In, Inputs, Current
  <2>2. CASE ~Filter(cmd)
    BY <1>1, <2>2 DEF In, Inputs, Current, Typed, InHand, Args
  <2> QED
    BY <2>1, <2>2
<1>4. Pieced(Current) = Input /\ orig[Inputs[Current]] # Absent
  BY <1>1, <1>3 DEF Pieced, Input
<1>5. Input \in Seq(Pieces)
  BY <1>2 DEF Input, Files
<1> QED
  BY <1>3, <1>4, <1>5, LenProperties, ElementOfSeq

(* The blocks of a file come one behind the other, with none in between.   *)
LEMMA PlaceFacts ==
  ASSUME NEW f, NEW d \in Seq(Pieces), NEW n \in Nat,
         n <= Cardinality(BlocksAt(f, d))
  PROVE  /\ Place(f, d, n) \in Nat
         /\ n + 1 <= Cardinality(BlocksAt(f, d)) =>
              /\ Place(f, d, n + 1) \in BlocksAt(f, d)
              /\ Place(f, d, n + 1) = BlockIndex(f, d, n + 1)
              /\ Place(f, d, n) < Place(f, d, n + 1)
              /\ \A i \in BlocksAt(f, d) :
                   ~(Place(f, d, n) < i /\ i < Place(f, d, n + 1))
         /\ n = Cardinality(BlocksAt(f, d)) =>
              \A i \in BlocksAt(f, d) : i <= Place(f, d, n)
<1> DEFINE S == BlocksAt(f, d)
           c == Cardinality(S)
           at(j) == BlockIndex(f, d, j)
<1>1. /\ c \in Nat /\ S \subseteq 1 .. Len(d) /\ Len(d) \in Nat
      /\ \A j \in 1 .. c : at(j) \in S /\ Rank(S, at(j)) = j
      /\ \A i \in S : \E j \in 1 .. c : at(j) = i
  BY BlockFacts, LenProperties
<1>2. \A i, k \in S : i < k => Rank(S, i) < Rank(S, k)
  <2> HIDE DEF S, c, at
  <2>1. S \in SUBSET (1 .. Len(d)) /\ S \subseteq Int
    BY <1>1
  <2>2. IsFiniteSet(1 .. Len(d))
    BY <1>1, FS_Interval
  <2>3. IsFiniteSet(S)
    BY <2>1, <2>2, FS_Subset
  <2> QED
    BY <2>1, <2>3, RankFacts
<1>3. \A j : Place(f, d, j) = IF j \in 1 .. c THEN at(j) ELSE 0
  BY DEF Place
<1>4. \A i \in S : i \in Int /\ 1 <= i
  BY <1>1
<1> HIDE DEF S, c, at
<1>5. ASSUME NEW j \in 1 .. c, NEW l \in 1 .. c, j < l PROVE at(j) < at(l)
  <2>1. /\ at(j) \in S /\ at(l) \in S /\ Rank(S, at(j)) = j /\ Rank(S, at(l)) = l
        /\ at(j) \in Int /\ at(l) \in Int
    BY <1>1, <1>4
  <2>2. ~(at(l) < at(j)) /\ at(l) # at(j)
    BY <1>2, <1>5, <2>1
  <2> QED
    BY <2>1, <2>2
<1>6. n \in 1 .. c \/ (n = 0 /\ n \notin 1 .. c)
  BY <1>1 DEF c, S
<1>7. Place(f, d, n) \in Nat
  <2>1. CASE n \in 1 .. c
    <3>1. Place(f, d, n) = at(n) /\ at(n) \in S
      BY <1>1, <1>3, <2>1
    <3> QED
      BY <1>4, <3>1
  <2>2. CASE n = 0 /\ n \notin 1 .. c
    BY <1>3, <2>2
  <2> QED
    BY <1>6, <2>1, <2>2
<1>8. ASSUME n + 1 <= c
      PROVE  /\ Place(f, d, n + 1) \in S /\ Place(f, d, n + 1) = at(n + 1)
             /\ Place(f, d, n) < Place(f, d, n + 1)
             /\ \A i \in S : ~(Place(f, d, n) < i /\ i < Place(f, d, n + 1))
  <2> DEFINE m == n + 1
  <2>1. m \in 1 .. c /\ n < m /\ \A j \in 1 .. c : j < m => j <= n
    BY <1>1, <1>8
  <2> HIDE DEF m
  <2>2. Place(f, d, m) = at(m) /\ at(m) \in S /\ at(m) \in Int /\ 1 <= at(m)
    BY <1>1, <1>3, <1>4, <2>1
  <2>3. Place(f, d, n) < at(m)
    BY <1>3, <1>5, <1>6, <2>1, <2>2
  <2>4. ASSUME NEW i \in S, Place(f, d, n) < i, i < at(m) PROVE FALSE
    <3>1. PICK j \in 1 .. c : at(j) = i
      BY <1>1
    <3>2. j < m
      <4>1. ~(m < j) /\ m # j
        BY <1>4, <1>5, <2>1, <2>2, <2>4, <3>1
      <4> QED
        BY <1>1, <2>1, <4>1
    <3>3. j <= n /\ n \in 1 .. c /\ Place(f, d, n) = at(n)
      BY <1>1, <1>3, <1>6, <2>1, <3>2
    <3>4. j = n \/ at(j) < at(n)
      BY <1>5, <3>3
    <3> QED
      BY <1>4, <2>4, <3>1, <3>3, <3>4, <1>7
  <2> QED
    BY <2>2, <2>3, <2>4 DEF m
<1>9. ASSUME n = c, NEW i \in S PROVE i <= Place(f, d, n)
  <2>1. PICK j \in 1 .. c : at(j) = i
    BY <1>1
  <2>2. n \in 1 .. c /\ Place(f, d, n) = at(n)
    BY <1>1, <1>3, <1>6, <1>9, <2>1
  <2>3. j = n \/ at(j) < at(n)
    BY <1>1, <1>5, <1>9, <2>2
  <2> QED
    BY <1>4, <1>7, <2>1, <2>2, <2>3
<1> QED
  BY <1>7, <1>8, <1>9 DEF S, c, at

(* What a decoder takes and is no block is no text.                        *)
LEMMA SoundText ==
  ASSUME NEW f, NEW d, NEW i, Sound(f, d, i), d[i].of \in Payloads
  PROVE  IsBlock(f, d[i])
<1>1. Magic(f).of = "magic" /\ EndMark(f).of = "end"
  BY DEF Magic, EndMark, Piece
<1> QED
  BY <1>1, PayloadsAssumption DEF Sound

(* How much of its input a codec has taken.                                *)
LEMMA TakenType ==
  ASSUME IInv, pc = "convert"
  PROVE  Taken \in Int
<1>1. /\ Typed /\ pos \in Nat /\ Lead(fmt) \in {0, 1} /\ pc \in Busy
  BY IInvLayers DEF Typed, TypeOK, Lead, Busy
<1>2. Input \in Seq(Pieces)
  BY <1>1, InputFacts DEF Files, Input
<1>3. Place(fmt, Input, pos) \in Nat
  <2> DEFINE c == Cardinality(BlocksAt(fmt, Input))
  <2>1. c \in Nat
    BY <1>2, BlockFacts
  <2>2. CASE pos <= c
    BY <1>1, <1>2, <2>2, PlaceFacts
  <2>3. CASE ~(pos <= c)
    BY <1>1, <2>1, <2>3 DEF Place
  <2> QED
    BY <2>2, <2>3
<1> QED
  BY <1>1, <1>3 DEF Taken, Taking

(* A step that puts out a piece and leaves the input takes the next one.   *)
LEMMA TakenNext ==
  ASSUME IInv, ~ToFile, [Next]_vars, pc = "convert", pos' = pos + 1,
         UNCHANGED <<optind, fmt>>, \A m \in Names \ {Stdout} : fs'[m] = fs[m]
  PROVE  Taken' = Taking(pos + 1)
<1>1. UNCHANGED <<cmd, Un>> /\ Typed /\ pc \in Busy
  BY IInvLayers, Layers DEF Busy
<1>2. In \in Names \ {Stdout} /\ In' = In
  BY <1>1, InputFacts DEF In, Filter
<1>3. Input' = Input /\ Lead(fmt') = Lead(fmt)
  BY <1>2 DEF Input
<1> QED
  BY <1>1, <1>3 DEF Taken, Taking

(* The piece a codec puts out next is the next piece of text of the input, *)
(* or no text: a header or an end mark.                                    *)
LEMMA NextPiece ==
  ASSUME IInv, ~ToFile, pc = "convert", Reads(pos + 1),
         \A n \in Names \ {Stdout} : fs[n] = orig[n]
  PROVE  LET p == Output[pos + 1]
             e == Taking(pos + 1)
         IN  /\ p \in Pieces /\ e \in Int /\ Taken \in Int /\ Taken < e
             /\ \A j \in DOMAIN Pieced(Current) :
                  Taken < j /\ j < e => ~IsText(Current, j)
             /\ e \in DOMAIN Pieced(Current) /\ IsText(Current, e)
                  => Comes(p, Current, e)
             /\ p.of \in Payloads =>
                  e \in DOMAIN Pieced(Current) /\ IsText(Current, e)
<1>1. /\ Typed /\ pos \in Nat /\ fmt \in Formats /\ pc \in Busy \ {"detect"}
      /\ Taken \in Int
  BY IInvLayers, TakenType DEF Typed, TypeOK, InHand, Busy
<1>2. /\ Current \in DOMAIN Inputs /\ Pieced(Current) = Input
      /\ Input \in Seq(Pieces)
      /\ Len(Input) \in Nat /\ DOMAIN Input = 1 .. Len(Input)
      /\ \A j \in DOMAIN Input : Input[j] \in Pieces
  BY <1>1, InputIsOriginal
<1>3. /\ pos + 1 \in 1 .. Len(Output) /\ Output[pos + 1] \in Pieces
      /\ Output \in Seq(Pieces)
  BY <1>1, OutputType
<1>4. DOMAIN Output = 1 .. Len(Output)
  BY <1>3, LenProperties
<1>5. Lead(fmt) \in {0, 1} /\ Trail(fmt) \in {0, 1}
  BY DEF Lead, Trail
<1> DEFINE p == Output[pos + 1]
           e == Taking(pos + 1)
<1>6. /\ e \in Int /\ Taken < e
      /\ \A j \in DOMAIN Input : Taken < j /\ j < e => Input[j].of \notin Payloads
      /\ \/ e \in DOMAIN Input /\ p.of = Input[e].of /\ p.i = Input[e].i
         \/ e \notin DOMAIN Input /\ p.of \in {"magic", "end"}
  <2>1. CASE Un
    <3> DEFINE S == BlocksAt(fmt, Input)
    <3>1. /\ Output = Decoded(fmt, Input) /\ e = Place(fmt, Input, pos + 1)
          /\ Taken = Place(fmt, Input, pos)
      BY <2>1 DEF Output, Converted, Taken, Taking
    <3>2. pos + 1 \in 1 .. Cardinality(S) /\ Cardinality(S) \in Nat
      <4>1. Cardinality(S) \in Nat
        BY <1>2, BlockFacts
      <4>2. DOMAIN Output = 1 .. Cardinality(S)
        BY <3>1 DEF Decoded
      <4> QED
        BY <1>3, <1>4, <4>1, <4>2
    <3>3. /\ e \in S /\ e = BlockIndex(fmt, Input, pos + 1) /\ Taken < e
          /\ \A i \in S : ~(Taken < i /\ i < e)
      <4>1. pos <= Cardinality(S) /\ pos + 1 <= Cardinality(S)
        BY <1>1, <3>2
      <4> HIDE DEF e
      <4> QED
        BY <1>1, <1>2, <3>1, <4>1, PlaceFacts
    <3>4. p = [Input[e] EXCEPT !.enc = "plain"] /\ e \in DOMAIN Input /\ e \in Int
      <4>1. e \in DOMAIN Input /\ S \subseteq DOMAIN Input
        BY <1>2, <3>3, BlockFacts
      <4> HIDE DEF e
      <4>2. p = [Input[e] EXCEPT !.enc = "plain"]
        BY <3>1, <3>2, <3>3 DEF Decoded
      <4> QED
        BY <1>2, <4>1, <4>2
    <3> HIDE DEF e, p
    <3>5. p.of = Input[e].of /\ p.i = Input[e].i
      BY <1>2, <3>4 DEF Pieces
    <3>6. ASSUME NEW j \in DOMAIN Input, Taken < j, j < e, Input[j].of \in Payloads
          PROVE  FALSE
      <4>1. Sound(fmt, Input, j)
        BY <1>2, <2>1, <3>3, <3>4, <3>6 DEF Reads
      <4>2. IsBlock(fmt, Input[j])
        BY <3>6, <4>1, SoundText
      <4>3. j \in Read(fmt, Input)
        <5>1. e \in Read(fmt, Input)
          BY <3>3 DEF BlocksAt
        <5>2. \A k \in 1 .. j - 1 : k \in 1 .. e - 1
          BY <1>2, <3>4, <3>6
        <5> QED
          BY <5>1, <5>2 DEF Read
      <4> QED
        BY <3>3, <3>6, <4>2, <4>3 DEF BlocksAt
    <3> QED
      BY <3>3, <3>4, <3>5, <3>6
  <2>2. CASE ~Un
    <3>1. /\ Output = Encoded(fmt, Input) /\ Taken = pos - Lead(fmt)
          /\ e = (pos + 1) - Lead(fmt)
      BY <2>2 DEF Output, Converted, Taken, Taking
    <3>2. pos + 1 \in 1 .. Lead(fmt) + Len(Input) + Trail(fmt)
      BY <1>3, <1>4, <3>1 DEF Encoded
    <3>3. e = (pos + 1) - Lead(fmt)
      BY <3>1
    <3> DEFINE m == pos + 1
    <3>4. /\ m - Lead(fmt) = e /\ p = Output[m]
          /\ m \in 1 .. Lead(fmt) + Len(Input) + Trail(fmt)
      BY <3>2, <3>3
    <3>5. e \in Int /\ Taken < e /\ \A j \in DOMAIN Input : ~(Taken < j /\ j < e)
      BY <1>1, <1>2, <1>5, <3>1, <3>3
    <3> HIDE DEF e, m, p
    <3>6. CASE m <= Lead(fmt)
      <4>1. p = Magic(fmt)
        BY <3>1, <3>4, <3>6 DEF Encoded
      <4>2. e \notin DOMAIN Input
        BY <1>1, <1>2, <1>5, <3>4, <3>6
      <4> QED
        BY <3>5, <4>1, <4>2 DEF Magic, Piece
    <3>7. CASE ~(m <= Lead(fmt)) /\ m <= Lead(fmt) + Len(Input)
      <4>1. Output[m] = [Input[m - Lead(fmt)] EXCEPT !.enc = fmt]
        BY <3>1, <3>4, <3>7 DEF Encoded
      <4>2. e \in DOMAIN Input
        BY <1>1, <1>2, <1>5, <3>4, <3>7
      <4>3. p.of = Input[e].of /\ p.i = Input[e].i
        BY <1>2, <3>4, <4>1, <4>2 DEF Pieces
      <4> QED
        BY <3>5, <4>2, <4>3
    <3>8. CASE ~(m <= Lead(fmt)) /\ ~(m <= Lead(fmt) + Len(Input))
      <4>1. p = EndMark(fmt)
        BY <3>1, <3>4, <3>8 DEF Encoded
      <4>2. e \notin DOMAIN Input
        BY <1>1, <1>2, <1>5, <3>4, <3>8
      <4> QED
        BY <3>5, <4>1, <4>2 DEF EndMark, Piece
    <3> QED
      BY <3>6, <3>7, <3>8
  <2> QED
    BY <2>1, <2>2
<1>7. p.of \in {"magic", "end"} => p.of \notin Payloads
  BY PayloadsAssumption
<1> HIDE DEF p, e
<1>8. /\ e \in DOMAIN Input /\ IsText(Current, e) => Comes(p, Current, e)
      /\ p.of \in Payloads => e \in DOMAIN Input /\ IsText(Current, e)
      /\ \A j \in DOMAIN Input : Taken < j /\ j < e => ~IsText(Current, j)
  BY <1>2, <1>6, <1>7 DEF Comes, IsText
<1> QED
  BY <1>1, <1>2, <1>3, <1>6, <1>8 DEF p, e

(* When a codec succeeds no text of its input is left, unless a .snz file  *)
(* goes on behind its end mark.                                            *)
LEMMA NoTextBehind ==
  ASSUME IInv, ~ToFile, pc = "convert", pos = Len(Output),
         WellFormed(fmt, Un, Input), \A n \in Names \ {Stdout} : fs[n] = orig[n]
  PROVE  \/ GoesOn(Current)
         \/ \A j \in DOMAIN Pieced(Current) : IsText(Current, j) => j <= Taken
<1>1. /\ Typed /\ pos \in Nat /\ pc \in Busy \ {"detect"} /\ Len(Output) \in Nat
  BY IInvLayers, OutputType DEF Typed, TypeOK, Busy
<1>2. /\ Current \in DOMAIN Inputs /\ Pieced(Current) = Input
      /\ Input \in Seq(Pieces) /\ orig[Inputs[Current]] # Absent
      /\ Len(Input) \in Nat /\ DOMAIN Input = 1 .. Len(Input)
  BY <1>1, InputIsOriginal
<1>3. Lead(fmt) \in {0, 1} /\ Trail(fmt) \in {0, 1}
  BY DEF Lead, Trail
<1> SUFFICES ASSUME ~GoesOn(Current), NEW j \in 1 .. Len(Input),
                    Input[j].of \in Payloads
             PROVE  j <= Taken
  BY <1>2 DEF IsText
<1>4. \A n \in Nat : \A f : DOMAIN f = 1 .. n /\ f \in Seq(Pieces) => Len(f) = n
  <2>1. \A f \in Seq(Pieces) : Len(f) \in Nat /\ DOMAIN f = 1 .. Len(f)
    BY LenProperties
  <2> QED
    BY <2>1
<1>5. Output \in Seq(Pieces)
  BY <1>1, OutputType
<1>6. CASE Un
  <2>1. Output = Decoded(fmt, Input) /\ Taken = Place(fmt, Input, pos)
    BY <1>6 DEF Output, Converted, Taken, Taking
  <2>2. pos = Cardinality(BlocksAt(fmt, Input))
    <3>1. Cardinality(BlocksAt(fmt, Input)) \in Nat
      BY <1>2, BlockFacts
    <3> QED
      BY <1>4, <1>5, <2>1, <3>1 DEF Decoded
  <2>3. j \in Read(fmt, Input)
    <3>1. ~Behind(Input)
      BY <1>2, <1>6 DEF GoesOn
    <3>2. ASSUME fmt = "snzip", NEW k \in 1 .. j - 1, Input[k] = EndMark(fmt)
          PROVE  FALSE
      <4>1. k \in 1 .. Len(Input) - 1
        BY <1>2, <3>2
      <4> QED
        BY <3>1, <3>2, <4>1 DEF Behind
    <3> QED
      BY <1>2, <3>2 DEF Read
  <2>4. j \in BlocksAt(fmt, Input)
    <3>1. Sound(fmt, Input, j)
      BY <1>6, <2>3 DEF WellFormed
    <3>2. IsBlock(fmt, Input[j])
      BY <3>1, SoundText
    <3> QED
      BY <2>3, <3>2 DEF BlocksAt
  <2> QED
    BY <1>1, <1>2, <2>1, <2>2, <2>4, PlaceFacts
<1>7. CASE ~Un
  <2>1. Output = Encoded(fmt, Input) /\ Taken = pos - Lead(fmt)
    BY <1>7 DEF Output, Converted, Taken, Taking
  <2>2. Len(Output) = Lead(fmt) + Len(Input) + Trail(fmt)
    BY <1>2, <1>3, <1>4, <1>5, <2>1 DEF Encoded
  <2> QED
    BY <1>1, <1>2, <1>3, <2>1, <2>2
<1> QED
  BY <1>6, <1>7

-----------------------------------------------------------------------------
(* What the steps put on standard output.                                  *)

(* A part of the buffer is written, the rest dropped.                      *)
LEMMA PartWritten ==
  ASSUME IInv, ~ToFile, out = Stdout, out' = out, NEW n \in 0 .. Len(buf),
         fs' = AppendTo(out, SubSeq(buf, 1, n)), buf' = <<>>
  PROVE  /\ Shorter(ToStdout', ToStdout)
         /\ n = Len(buf) => ToStdout' = ToStdout
         /\ \A m \in Names \ {Stdout} : fs'[m] = fs[m]
<1>1. /\ Typed /\ fs[Stdout].data \in Seq(Pieces) /\ buf \in Seq(Pieces)
      /\ ToStdout = fs[Stdout].data \o buf /\ Stdout \in Names
      /\ fs[Stdout] # Absent
  BY IInvLayers, StdoutFacts, StandardNames DEF Typed, InHand
<1>2. PICK d \in Seq(Pieces), b \in Seq(Pieces) :
        d = fs[Stdout].data /\ b = buf
  BY <1>1
<1>3. n \in 0 .. Len(b) /\ Len(b) \in Nat
  BY <1>2
<1>4. /\ SubSeq(b, 1, n) \in Seq(Pieces) /\ Len(SubSeq(b, 1, n)) = n
      /\ \A x \in 1 .. n : SubSeq(b, 1, n)[x] = b[x]
      /\ n = Len(b) => SubSeq(b, 1, n) = b
  <2>1. \A i \in 1 .. n : b[i] \in Pieces
    BY <1>3, ElementOfSeq
  <2> QED
    BY <1>3, <2>1, SubSeqProperties, SubSeqFull
<1>5. PICK e \in Seq(Pieces) : e = SubSeq(b, 1, n)
  BY <1>4
<1>6. /\ Len(e) = n /\ \A x \in 1 .. n : e[x] = b[x]
      /\ n = Len(b) => e = b
  BY <1>4, <1>5
<1>7. Alters(Stdout) /\ fs'[Stdout].data = d \o e
  BY <1>1, <1>2, <1>5, AppendToAlters DEF Typed
<1>8. (d \o e) \o <<>> = d \o e
  BY ConcatProperties, ConcatEmptySeq
<1>9. ToStdout' = d \o e /\ ToStdout = d \o b
  BY <1>1, <1>2, <1>7, <1>8 DEF ToStdout
<1>10. Shorter(d \o e, d \o b)
  <2>1. /\ d \o e \in Seq(Pieces) /\ d \o b \in Seq(Pieces)
        /\ Len(d) \in Nat /\ Len(d \o e) = Len(d) + n
        /\ Len(d \o b) = Len(d) + Len(b)
        /\ \A x \in 1 .. Len(d) + n :
             (d \o e)[x] = IF x <= Len(d) THEN d[x] ELSE e[x - Len(d)]
        /\ \A x \in 1 .. Len(d) + Len(b) :
             (d \o b)[x] = IF x <= Len(d) THEN d[x] ELSE b[x - Len(d)]
    BY <1>6, ConcatProperties, LenProperties
  <2>2. /\ DOMAIN (d \o e) = 1 .. Len(d \o e)
        /\ DOMAIN (d \o b) = 1 .. Len(d \o b)
    BY <2>1, LenProperties
  <2>3. ASSUME NEW x \in 1 .. Len(d) + n
        PROVE  (d \o e)[x] = (d \o b)[x]
    <3>1. x \in 1 .. Len(d) + Len(b)
      BY <1>3, <2>1
    <3>2. CASE x <= Len(d)
      BY <2>1, <3>1, <3>2
    <3>3. CASE ~(x <= Len(d))
      <4>1. x - Len(d) \in 1 .. n
        BY <1>3, <2>1, <3>3
      <4>2. (d \o e)[x] = e[x - Len(d)] /\ (d \o b)[x] = b[x - Len(d)]
        BY <2>1, <3>1, <3>3
      <4> QED
        BY <1>6, <4>1, <4>2
    <3> QED
      BY <3>2, <3>3
  <2> QED
    BY <1>3, <2>1, <2>2, <2>3 DEF Shorter
<1>11. n = Len(buf) => d \o e = d \o b
  BY <1>2, <1>6
<1> QED
  BY <1>7, <1>9, <1>10, <1>11 DEF Alters

(* The buffer is emptied.                                                  *)
LEMMA BufferFlushed ==
  ASSUME IInv, ~ToFile, out = Stdout, out' = out, NEW n \in 0 .. Len(buf),
         Flush(n)
  PROVE  /\ Shorter(ToStdout', ToStdout) /\ buf' = <<>> /\ ferr' \in BOOLEAN
         /\ (~ferr' \/ ~(n < Len(buf))) => ToStdout' = ToStdout
         /\ ~ferr' => ~ferr
         /\ \A m \in Names \ {Stdout} : fs'[m] = fs[m]
<1>1. ferr \in BOOLEAN /\ buf \in Seq(Pieces) /\ Len(buf) \in Nat
  BY StdoutFacts
<1>2. /\ fs' = AppendTo(out, SubSeq(buf, 1, n)) /\ buf' = <<>>
      /\ ferr' = (ferr \/ n < Len(buf))
  BY DEF Flush
<1>3. /\ Shorter(ToStdout', ToStdout)
      /\ n = Len(buf) => ToStdout' = ToStdout
      /\ \A m \in Names \ {Stdout} : fs'[m] = fs[m]
  BY <1>2, PartWritten
<1>4. ~(n < Len(buf)) => n = Len(buf)
  BY <1>1
<1>5. ~ferr' => ~ferr /\ ~(n < Len(buf))
  BY <1>2, Zenon
<1> QED
  BY <1>1, <1>2, <1>3, <1>4, <1>5

(* What was in the buffer is lost.                                         *)
LEMMA BufferLost ==
  ASSUME IInv, ~ToFile, BufferInHand, UNCHANGED <<fs, out>>, buf' = <<>>
  PROVE  Shorter(ToStdout', ToStdout)
<1>1. PICK d \in Seq(Pieces), b \in Seq(Pieces) :
        d = fs[Stdout].data /\ b = buf
  BY StdoutFacts
<1>2. ToStdout = d \o b
  BY <1>1, StdoutFacts DEF BufferInHand
<1>3. ToStdout' = d
  BY <1>1, ConcatEmptySeq DEF ToStdout
<1>4. /\ d \o b \in Seq(Pieces) /\ Len(d) \in Nat /\ Len(b) \in Nat
      /\ Len(d \o b) = Len(d) + Len(b)
      /\ \A x \in 1 .. Len(d) + Len(b) :
           (d \o b)[x] = IF x <= Len(d) THEN d[x] ELSE b[x - Len(d)]
  BY ConcatProperties, LenProperties
<1>5. DOMAIN (d \o b) = 1 .. Len(d \o b) /\ DOMAIN d = 1 .. Len(d)
  BY <1>4, LenProperties
<1>6. ASSUME NEW x \in 1 .. Len(d) PROVE d[x] = (d \o b)[x]
  <2>1. x \in 1 .. Len(d) + Len(b) /\ x <= Len(d)
    BY <1>4
  <2> QED
    BY <1>4, <2>1
<1> QED
  BY <1>2, <1>3, <1>4, <1>5, <1>6 DEF Shorter

(* A codec puts out a piece: it goes behind all others, whichever way it   *)
(* takes.                                                                  *)
LEMMA PieceWritten ==
  ASSUME IInv, ~ToFile, BufferInHand,
         WriteDirect \/ WriteBuffered \/ SpillAndWrite
  PROVE  /\ ToStdout' = ToStdout \o <<Output[pos + 1]>>
         /\ out = Stdout /\ pc = "convert" /\ Reads(pos + 1)
         /\ pos' = pos + 1 /\ (Direct(fmt, Un) => buf' = <<>>)
         /\ UNCHANGED <<cmd, pc, optind, fmt, out, ferr, status, ignored, orig>>
         /\ \A m \in Names \ {Stdout} : fs'[m] = fs[m]
<1>1. /\ pc = "convert" /\ Reads(pos + 1) /\ pos' = pos + 1
      /\ UNCHANGED <<cmd, pc, optind, fmt, out, ferr, status, ignored, orig>>
  BY DEF WriteDirect, WriteBuffered, SpillAndWrite, history
<1>2. /\ Typed /\ out = Stdout /\ Stdout \in Names /\ fs[Stdout] # Absent
      /\ Output[pos + 1] \in Pieces
      /\ ToStdout = fs[Stdout].data \o buf
  BY <1>1, IInvLayers, StdoutFacts, StandardNames, OutputType
  DEF Typed, InHand, Writing, Busy
<1>3. PICK d \in Seq(Pieces), b \in Seq(Pieces), q \in Pieces :
        d = fs[Stdout].data /\ b = buf /\ q = Output[pos + 1]
  BY <1>2, StdoutFacts
<1>4. /\ <<q>> \in Seq(Pieces) /\ (d \o b) \o <<q>> = d \o (b \o <<q>>)
      /\ Append(b, q) = b \o <<q>> /\ d \o <<>> = d /\ d \o b \in Seq(Pieces)
      /\ d \o <<q>> \in Seq(Pieces) /\ (d \o <<q>>) \o <<>> = d \o <<q>>
  <2>1. <<q>> \in Seq(Pieces)
    OBVIOUS
  <2>2. d \o <<q>> \in Seq(Pieces) /\ d \o b \in Seq(Pieces)
    BY <2>1, ConcatProperties
  <2> QED
    BY <2>1, <2>2, ConcatAssociative, AppendIsConcat, ConcatEmptySeq
<1>5. CASE WriteDirect
  <2>1. /\ fs' = AppendTo(out, <<q>>) /\ buf' = buf /\ Direct(fmt, Un)
    BY <1>3, <1>5 DEF WriteDirect
  <2>2. b = <<>>
    BY <1>1, <1>3, <2>1 DEF BufferInHand
  <2>3. Alters(Stdout) /\ fs'[Stdout].data = d \o <<q>>
    BY <1>2, <1>3, <1>4, <2>1, AppendToAlters DEF Typed
  <2>4. ToStdout' = (d \o <<q>>) \o <<>>
    BY <1>1, <1>2, <1>3, <2>1, <2>2, <2>3 DEF ToStdout
  <2>5. ToStdout = d
    BY <1>2, <1>3, <1>4, <2>2
  <2> QED
    BY <1>1, <1>2, <1>3, <1>4, <2>1, <2>2, <2>3, <2>4, <2>5 DEF Alters
<1>6. CASE WriteBuffered
  <2>1. fs' = fs /\ buf' = b \o <<q>> /\ ~Direct(fmt, Un)
    BY <1>3, <1>4, <1>6 DEF WriteBuffered
  <2>2. ToStdout' = d \o (b \o <<q>>) /\ ToStdout = d \o b
    BY <1>1, <1>2, <1>3, <2>1 DEF ToStdout
  <2> QED
    BY <1>1, <1>2, <1>3, <1>4, <2>1, <2>2
<1>7. CASE SpillAndWrite
  <2>1. fs' = AppendTo(out, b) /\ buf' = <<q>> /\ ~Direct(fmt, Un)
    BY <1>3, <1>7 DEF SpillAndWrite
  <2>2. Alters(Stdout) /\ fs'[Stdout].data = d \o b
    BY <1>2, <1>3, <2>1, AppendToAlters DEF Typed
  <2>3. ToStdout' = (d \o b) \o <<q>> /\ ToStdout = d \o b
    BY <1>1, <1>2, <1>3, <2>1, <2>2 DEF ToStdout
  <2> QED
    BY <1>1, <1>2, <1>3, <2>1, <2>2, <2>3 DEF Alters
<1> QED
  BY <1>5, <1>6, <1>7

(* No file changes, and no codec finds pieces in the buffer it writes past.*)
LEMMA FilesStay ==
  ASSUME Typed, [Next]_vars, ~ToFile, NEW n \in Names \ {Stdout}
  PROVE  fs'[n] = fs[n]
<1>1. /\ Filter(cmd) \/ OptStdout(cmd)
      /\ OptStdout(cmd) => OptKeep(cmd)
  BY DEF ToFile, OptStdout, OptKeep
<1>2. CASE OutputsOnly
  BY <1>2 DEF OutputsOnly, InWork
<1> QED
  BY <1>1, <1>2, FileSteps

LEMMA BufferInHandStep ==
  ASSUME IInv, ~ToFile, BufferInHand, [Next]_vars
  PROVE  BufferInHand'
<1>1. /\ Typed /\ out \in {NoFile, Stdout} /\ (pc \in Writing => out = Stdout)
      /\ Filter(cmd) \/ OptStdout(cmd)
      /\ NoFile # Stdout
  BY IInvLayers, StdoutFacts, StandardNames DEF ToFile
<1>2. UNCHANGED <<FormatGiven, GivenFormat, Un>> /\ cmd' = cmd
  BY Layers DEF FormatGiven, GivenFormat
<1>3. CASE Start
  <2>1. pc' # "exiting" => fmt' = GivenFormat
    BY <1>3 DEF Start, Leave, GivenFormat
  <2>2. /\ UNCHANGED <<out, buf>> /\ pc' \in {"exiting", "next", "detect"}
    BY <1>3 DEF Start, Leave, stream
  <2> QED
    BY <1>2, <2>1, <2>2 DEF BufferInHand, Working
<1>4. CASE TakeArg \/ NoMoreArgs \/ OpenInput
  <2>1. /\ UNCHANGED <<out, buf, fmt>> /\ pc \in {"next", "open"}
        /\ pc' \in {"exiting", "next", "open", "detect"}
    BY <1>4 DEF TakeArg, NoMoreArgs, OpenInput, Leave, stream
  <2> QED
    BY <1>2, <2>1 DEF BufferInHand, Working
<1>5. CASE DetectFormat
  <2>1. /\ UNCHANGED <<out, buf>> /\ pc = "detect"
        /\ pc' \in {"exiting", "create"}
        /\ FormatGiven => fmt' = fmt
    BY <1>5, Zenon DEF DetectFormat, Leave, stream, FormatGiven
  <2>2. ~FormatGiven => fmt' # "raw"
    <3>1. ~FormatGiven => fmt' \in Detected(Input)
      BY <1>5 DEF DetectFormat, FormatGiven
    <3>2. "raw" \notin Detected(Input)
      <4>1. "raw" \notin HasMagic /\ NoFormat # "raw"
        BY DEF HasMagic, NoFormat
      <4>2. \A f \in HasMagic : Input[1] = Magic(f) => Input[1].enc = f
        BY DEF Magic, Piece
      <4> QED
        BY <4>1, <4>2 DEF Detected
    <3> QED
      BY <3>1, <3>2
  <2> QED
    BY <1>2, <2>1, <2>2 DEF BufferInHand, Working
<1>6. CASE CreateOutput
  <2>1. /\ UNCHANGED <<buf, fmt>> /\ pc = "create" /\ pc' = "begin"
        /\ out' = Stdout
    BY <1>1, <1>6 DEF CreateOutput
  <2> QED
    BY <1>2, <2>1 DEF BufferInHand, Working
<1>7. CASE StartCodec
  <2>1. /\ UNCHANGED <<out, fmt>> /\ pc = "begin" /\ pc' \in {"convert", "failed"}
        /\ (UNCHANGED buf \/ buf' = <<>>)
        /\ pc' = "convert" /\ FlushesFirst(fmt, Un) => buf' = <<>>
    BY <1>7 DEF StartCodec, Flush
  <2>2. Direct(fmt, Un) => FlushesFirst(fmt, Un) \/ fmt = "raw"
    BY DEF FlushesFirst
  <2>3. fmt = "raw" => buf = <<>>
    BY <2>1 DEF BufferInHand, Working
  <2>4. pc' = "convert" /\ Direct(fmt, Un) => buf' = <<>>
    BY <2>1, <2>2, <2>3
  <2> QED
    BY <1>2, <2>1, <2>4 DEF BufferInHand, Working
<1>8. CASE WriteDirect \/ WriteBuffered \/ SpillAndWrite
  <2>1. /\ out = Stdout /\ UNCHANGED <<out, pc, fmt>> /\ pc = "convert"
        /\ Direct(fmt, Un) => buf' = <<>>
    BY <1>8, PieceWritten
  <2>2. FormatGiven /\ GivenFormat = "raw" => buf' = <<>>
    <3>1. FormatGiven => fmt = GivenFormat
      BY <2>1 DEF BufferInHand, Working
    <3> QED
      BY <2>1, <3>1 DEF Direct
  <2> QED
    BY <1>2, <2>1, <2>2 DEF BufferInHand, Working
<1>9. CASE SpillFails
  <2>1. UNCHANGED <<out, fmt>> /\ pc = "convert" /\ buf' = <<>>
        /\ pc' \in {"convert", "failed"}
    BY <1>9 DEF SpillFails
  <2> QED
    BY <1>2, <2>1 DEF BufferInHand, Working
<1>10. CASE DirectWriteFails \/ ReadFails \/ OutOfMemory \/ CodecReturns
  <2>1. /\ UNCHANGED <<out, buf, fmt>> /\ pc = "convert"
        /\ pc' \in {"failed", "loops", "converted", "exiting"}
    BY <1>10 DEF DirectWriteFails, ReadFails, OutOfMemory, CodecReturns, stream,
       Leave
  <2> QED
    BY <1>2, <2>1 DEF BufferInHand, Working
<1>11. CASE CodecFailed
  <2>1. /\ pc' = "exiting" /\ fmt' = fmt /\ UNCHANGED <<out, buf>>
    BY <1>1, <1>11 DEF CodecFailed, Leave, Writing
  <2> QED
    BY <1>2, <2>1 DEF BufferInHand, Working
<1>12. ~FlushOutput /\ ~CopyAttributes /\ ~CloseFiles
  BY <1>1, StdoutFacts DEF FlushOutput, CopyAttributes, CloseFiles, Writing
<1>13. CASE KeepStdoutOpen \/ UnlinkInput
  <2>1. /\ UNCHANGED <<out, buf, fmt>> /\ pc \in {"converted", "unlink"}
        /\ pc' \in {"exiting", "unlink", "next"}
    BY <1>13 DEF KeepStdoutOpen, UnlinkInput, stream, Leave
  <2> QED
    BY <1>2, <2>1 DEF BufferInHand, Working
<1>14. CASE Exit \/ Kill
  <2>1. /\ UNCHANGED <<out, fmt>> /\ pc' \in {"exit", "killed"}
        /\ (buf' = buf /\ out = NoFile) \/ buf' = <<>>
    BY <1>14 DEF Exit, Kill, Flush
  <2> QED
    BY <1>1, <1>2, <2>1 DEF BufferInHand, Working
<1>15. CASE Rerun
  <2>1. out' = NoFile /\ buf' = <<>> /\ pc' = "start"
    BY <1>15 DEF Rerun
  <2> QED
    BY <1>2, <2>1 DEF BufferInHand, Working
<1>16. CASE UNCHANGED vars
  BY <1>2, <1>16 DEF BufferInHand, vars, stream
<1> QED
  BY <1>3, <1>4, <1>5, <1>6, <1>7, <1>8, <1>9, <1>10, <1>11, <1>12, <1>13,
     <1>14, <1>15, <1>16 DEF Next, Step, Codec, Idle

(* Nothing comes onto standard output that is out of order or already      *)
(* there, and what is dropped is noticed.                                  *)
LEMMA ConcatenatedStep ==
  ASSUME IInv, ~ToFile, \A n \in Names \ {Stdout} : fs[n] = orig[n],
         BufferInHand, ToldApart, Concatenated, [Next]_vars
  PROVE  Concatenated'
<1>1. /\ UNCHANGED <<cmd, orig, Un>> /\ Typed /\ (ignored => ignored')
      /\ out \in {NoFile, Stdout} /\ (pc \in Writing => out = Stdout)
      /\ pc \notin {"attrs", "close"} /\ ferr \in BOOLEAN /\ optind \in Nat
      /\ Filter(cmd) \/ OptStdout(cmd)
      /\ NoFile # Stdout
  BY Layers, StdoutFacts, StandardNames DEF ToFile
<1>2. PICK ts, us, f, d, k, n :
        /\ ts = ToStdout /\ us = ToStdout'
        /\ f = Front /\ d = Depth /\ k = Front' /\ n = Depth'
  OBVIOUS
<1>3. /\ ts \in Seq(Pieces) /\ Current \in Nat /\ Current' = IF Filter(cmd) THEN 1 ELSE optind'
      /\ pc = "convert" => d = Taken
      /\ pc # "convert" => d = 0
      /\ pc \in {"converted", "unlink", "next"} => f = Current + 1
      /\ pc \notin {"converted", "unlink", "next"} => f = Current
      /\ pc' = "convert" => n = Taken'
      /\ pc' # "convert" => n = 0
      /\ pc' \in {"converted", "unlink", "next"} => k = Current' + 1
      /\ pc' \notin {"converted", "unlink", "next"} => k = Current'
      /\ optind' = optind => Current' = Current
  BY <1>1, <1>2, StdoutFacts DEF Front, Depth, Current, Filter
<1>4. /\ Known(ts) /\ Ordered(ts)
      /\ pc = "start" => ts = <<>> /\ optind = 0 /\ ferr = FALSE
      /\ pc = "begin" => pos = 0
      /\ pc \in Working => NoneBehind(ts, f, d)
      /\ pc \in Working /\ ~ignored /\ ~ferr => NoneMissing(ts, f, d)
      /\ pc \in Working \ {"convert", "converted"} /\ ~ignored => ferr = FALSE
      /\ /\ pc \in {"exiting", "exit"} /\ status = 0 /\ "h" \notin cmd.flags
         /\ ~ignored
         => NoneMissing(ts, Len(Inputs) + 1, 0)
  BY <1>2, Zenon DEF Concatenated
<1> DEFINE After ==
      /\ pc' = "start" => us = <<>> /\ optind' = 0 /\ ferr' = FALSE
      /\ pc' = "begin" => pos' = 0
      /\ pc' \in Working => NoneBehind(us, k, n)
      /\ pc' \in Working /\ ~ignored' /\ ~ferr' => NoneMissing(us, k, n)
      /\ pc' \in Working \ {"convert", "converted"} /\ ~ignored' => ferr' = FALSE
      /\ /\ pc' \in {"exiting", "exit"} /\ status' = 0 /\ "h" \notin cmd.flags
         /\ ~ignored'
         => NoneMissing(us, Len(Inputs) + 1, 0)
<1>5. ASSUME Known(us), Ordered(us), After PROVE Concatenated'
  BY <1>1, <1>2, <1>5, AfterStep
<1>6. ASSUME us = ts, After PROVE Concatenated'
  BY <1>4, <1>5, <1>6
<1>7. ASSUME Shorter(us, ts), After PROVE Concatenated'
  BY <1>4, <1>5, <1>7, ShorterKeeps
<1>8. ASSUME UNCHANGED <<fs, stream>> PROVE us = ts /\ UNCHANGED <<pos, ferr, out, buf>>
  BY <1>1, <1>2, <1>8 DEF ToStdout, stream
<1>9. CASE Start
  <2>1. /\ pc = "start" /\ UNCHANGED <<fs, stream, optind, ignored>>
        /\ \/ pc' = "exiting" /\ (status' = 1 \/ "h" \in cmd.flags)
           \/ pc' = "detect" /\ Filter(cmd)
           \/ pc' = "next" /\ ~Filter(cmd)
    BY <1>9 DEF Start, Leave, history
  <2>2. us = <<>> /\ us = ts /\ optind = 0 /\ ferr' = FALSE
    BY <1>4, <1>8, <2>1
  <2>3. pc' \in Working => k = 1 /\ n = 0
    BY <1>3, <2>1, <2>2 DEF Working
  <2>4. NoneBehind(us, 1, 0) /\ NoneMissing(us, 1, 0)
    BY <2>2, NothingYet
  <2>5. After
    <3>1. CASE pc' = "exiting"
      BY <2>1, <3>1 DEF Working
    <3>2. CASE pc' \in {"detect", "next"}
      BY <2>1, <2>2, <2>3, <2>4, <3>2 DEF Working
    <3> QED
      BY <2>1, <3>1, <3>2
  <2> HIDE DEF After
  <2> QED
    BY <1>6, <2>2, <2>5
<1>10. CASE TakeArg
  <2>1. /\ pc = "next" /\ UNCHANGED <<fs, stream, status, ignored>>
        /\ optind' = optind + 1 /\ ~Filter(cmd)
        /\ \/ pc' = "open"
           \/ pc' = "next" /\ Skipped(cmd, cmd.args[optind + 1])
    BY <1>1, <1>10 DEF TakeArg, history, Typed, InHand
  <2>2. f = optind + 1 /\ f \in Nat /\ d = 0 /\ us = ts /\ ferr' = ferr
    BY <1>1, <1>3, <1>8, <2>1 DEF Current
  <2>3. /\ NoneBehind(us, f, 0)
        /\ ~ignored' => ferr' = FALSE /\ NoneMissing(us, f, 0)
    BY <1>4, <2>1, <2>2 DEF Working
  <2>4. CASE pc' = "open"
    <3>1. k = f /\ n = 0
      BY <1>3, <2>1, <2>2, <2>4
    <3>2. After
      BY <2>2, <2>3, <2>4, <3>1 DEF Working
    <3> HIDE DEF After
    <3> QED
      BY <1>6, <2>2, <3>2
  <2>5. CASE pc' = "next" /\ Skipped(cmd, cmd.args[optind + 1])
    <3>1. k = f + 1 /\ n = 0
      BY <1>1, <1>3, <2>1, <2>2, <2>5
    <3>2. Skipped(cmd, Inputs[f])
      BY <2>1, <2>2, <2>5 DEF Inputs
    <3>3. NoneBehind(us, f + 1, 0)
      BY <2>2, <2>3, FrontMoves
    <3>4. NoneMissing(us, f, 0) => NoneMissing(us, f + 1, 0)
      BY <2>2, <3>2, InputDone
    <3>5. After
      BY <2>2, <2>3, <2>5, <3>1, <3>3, <3>4 DEF Working
    <3> HIDE DEF After
    <3> QED
      BY <1>6, <2>2, <3>5
  <2> QED
    BY <2>1, <2>4, <2>5
<1>11. CASE NoMoreArgs
  <2>1. /\ pc = "next" /\ UNCHANGED <<fs, stream, ignored>> /\ ~Filter(cmd)
        /\ optind = Len(cmd.args) /\ pc' = "exiting"
    BY <1>1, <1>11 DEF NoMoreArgs, Leave, history, Typed, InHand
  <2>2. us = ts /\ f = Len(Inputs) + 1 /\ d = 0
    BY <1>3, <1>8, <2>1 DEF Current, Inputs
  <2>3. ~ignored' => NoneMissing(us, Len(Inputs) + 1, 0)
    BY <1>4, <2>1, <2>2 DEF Working
  <2>4. After
    BY <2>1, <2>2, <2>3 DEF Working
  <2> HIDE DEF After
  <2> QED
    BY <1>6, <2>2, <2>4
<1>12. CASE OpenInput \/ DetectFormat \/ CreateOutput
  <2>1. /\ pc \in {"open", "detect", "create"} /\ UNCHANGED <<fs, buf, ferr, ignored, optind>>
        /\ \/ pc' = "exiting" /\ status' = 1
           \/ pc' \in {"detect", "create"}
           \/ pc' = "begin" /\ pos' = 0
        /\ out' = out \/ out' = Stdout
    BY <1>1, <1>12 DEF OpenInput, DetectFormat, CreateOutput, Leave, history, stream
  <2>2. us = ts
    <3>1. CASE out' = out
      BY <1>2, <2>1, <3>1 DEF ToStdout
    <3>2. CASE out' # out
      <4>1. out' = Stdout /\ buf = <<>>
        BY <1>1, <2>1, <3>2 DEF BufferInHand
      <4> QED
        BY <1>1, <1>2, <2>1, <4>1 DEF ToStdout
    <3> QED
      BY <3>1, <3>2
  <2>3. d = 0 /\ n = 0 /\ k = f
    BY <1>3, <2>1
  <2>4. /\ NoneBehind(us, f, 0)
        /\ ~ignored' => ferr' = FALSE /\ NoneMissing(us, f, 0)
    BY <1>4, <2>1, <2>2, <2>3 DEF Working
  <2>5. After
    <3>1. CASE pc' = "exiting" /\ status' = 1
      BY <2>1, <3>1 DEF Working
    <3>2. CASE pc' \in {"detect", "create"}
      BY <2>1, <2>3, <2>4, <3>2 DEF Working
    <3>3. CASE pc' = "begin" /\ pos' = 0
      BY <2>1, <2>3, <2>4, <3>3 DEF Working
    <3> QED
      BY <2>1, <3>1, <3>2, <3>3
  <2> HIDE DEF After
  <2> QED
    BY <1>6, <2>2, <2>5
<1>13. CASE StartCodec
  <2>1. /\ pc = "begin" /\ pos = 0 /\ UNCHANGED <<optind, fmt, pos, ignored, out>>
        /\ pc' = IF HeaderOk(fmt, Un, Input) THEN "convert" ELSE "failed"
        /\ out = Stdout
    BY <1>1, <1>4, <1>13 DEF StartCodec, history, Writing
  <2>2. \/ UNCHANGED <<fs, buf, ferr>>
        \/ \E m \in 0 .. Len(buf) : Flush(m)
    BY <1>13, Zenon DEF StartCodec
  <2>3. /\ us = ts \/ Shorter(us, ts)
        /\ ~ferr' => us = ts /\ ~ferr
    <3>1. CASE UNCHANGED <<fs, buf, ferr>>
      BY <1>2, <2>1, <3>1 DEF ToStdout
    <3>2. CASE \E m \in 0 .. Len(buf) : Flush(m)
      BY <1>2, <2>1, <3>2, BufferFlushed
    <3> QED
      BY <2>2, <3>1, <3>2
  <2>4. /\ f = Current /\ d = 0 /\ f \in Nat /\ NoneBehind(us, f, 0)
        /\ ~ignored' /\ ~ferr' => NoneMissing(us, f, 0)
    <3>1. /\ f = Current /\ d = 0 /\ f \in Nat /\ NoneBehind(ts, f, 0)
          /\ ~ignored /\ ~ferr => NoneMissing(ts, f, 0)
      BY <1>3, <1>4, <2>1 DEF Working
    <3>2. NoneBehind(us, f, 0)
      BY <2>3, <3>1, ShorterKeeps
    <3> QED
      BY <2>1, <2>3, <3>1, <3>2
  <2>5. CASE HeaderOk(fmt, Un, Input)
    <3>1. pc' = "convert" /\ k = f /\ n = Taken' /\ pos' = 0
      BY <1>3, <2>1, <2>4, <2>5
    <3>2. n \in Int /\ n <= 0
      <4>1. n = IF Un THEN 0 ELSE 0 - Lead(fmt')
        BY <1>1, <3>1 DEF Taken, Taking, Place
      <4>2. Lead(fmt') \in {0, 1}
        BY DEF Lead
      <4> QED
        BY <4>1, <4>2
    <3>3. \A l \in DOMAIN Inputs : \A j \in DOMAIN Pieced(l) : ~(j <= n)
      BY <3>2, InputsType
    <3>4. NoneBehind(us, f, n)
      <4>1. \A l \in DOMAIN Inputs : \A j \in DOMAIN Pieced(l) : ~(j <= 0)
        BY InputsType
      <4> QED
        BY <2>4, <4>1 DEF NoneBehind
    <3>5. NoneMissing(us, f, 0) => NoneMissing(us, f, n)
      BY <3>3 DEF NoneMissing, There
    <3>6. After
      BY <2>4, <3>1, <3>4, <3>5
    <3> HIDE DEF After
    <3> QED
      BY <1>6, <1>7, <2>3, <3>6
  <2>6. CASE ~HeaderOk(fmt, Un, Input)
    <3>1. pc' = "failed"
      BY <2>1, <2>6
    <3>2. After
      BY <3>1 DEF Working
    <3> HIDE DEF After
    <3> QED
      BY <1>6, <1>7, <2>3, <3>2
  <2> QED
    BY <2>5, <2>6
<1>14. pc = "convert" =>
         /\ f = Current /\ d = Taken /\ f \in Nat /\ d \in Int
         /\ f \in DOMAIN Inputs /\ orig[Inputs[f]] # Absent
         /\ NoneBehind(ts, f, d)
         /\ ~ignored /\ ~ferr => NoneMissing(ts, f, d)
  <2>1. ASSUME pc = "convert" PROVE Taken \in Int /\ f = Current /\ d = Taken
    BY <1>3, <2>1, TakenType
  <2> QED
    BY <1>3, <1>4, <2>1, InputIsOriginal DEF Working, Busy
<1>15. CASE WriteDirect \/ WriteBuffered \/ SpillAndWrite
  <2>1. /\ us = ts \o <<Output[pos + 1]>> /\ pc = "convert" /\ pc' = pc
        /\ Reads(pos + 1) /\ pos' = pos + 1
        /\ UNCHANGED <<optind, fmt, ferr, ignored>>
    BY <1>2, <1>15, PieceWritten
  <2>2. PICK e : e = Taking(pos + 1)
    OBVIOUS
  <2>3. /\ Output[pos + 1] \in Pieces /\ e \in Int /\ d < e
        /\ \A j \in DOMAIN Pieced(f) : d < j /\ j < e => ~IsText(f, j)
        /\ e \in DOMAIN Pieced(f) /\ IsText(f, e) => Comes(Output[pos + 1], f, e)
        /\ Output[pos + 1].of \in Payloads => e \in DOMAIN Pieced(f) /\ IsText(f, e)
    BY <1>14, <2>1, <2>2, NextPiece
  <2>4. k = f /\ n = e
    <3>1. Taken' = Taking(pos + 1)
      <4>1. \A m \in Names \ {Stdout} : fs'[m] = fs[m]
        BY <1>15, PieceWritten
      <4> QED
        BY <2>1, <4>1, TakenNext
    <3> QED
      BY <1>3, <1>14, <2>1, <2>2, <3>1
  <2>5. PICK q \in Pieces : q = Output[pos + 1]
    BY <2>3
  <2>6. /\ Known(us) /\ Ordered(us) /\ NoneBehind(us, f, e)
        /\ NoneMissing(ts, f, d) => NoneMissing(us, f, e)
    <3>1. /\ us = ts \o <<q>>
          /\ e \in DOMAIN Pieced(f) /\ IsText(f, e) => Comes(q, f, e)
          /\ q.of \in Payloads => e \in DOMAIN Pieced(f) /\ IsText(f, e)
      BY <2>1, <2>3, <2>5
    <3> QED
      BY <1>3, <1>4, <1>14, <2>1, <2>3, <3>1, GrowsKeeps
  <2>7. After
    BY <1>14, <2>1, <2>4, <2>6
  <2> HIDE DEF After
  <2> QED
    BY <1>5, <2>6, <2>7
<1>16. CASE SpillFails
  <2>1. /\ pc = "convert" /\ UNCHANGED <<optind, fmt, out, ignored>> /\ out = Stdout
        /\ ferr' = TRUE /\ buf' = <<>>
        /\ pc' = "failed" \/ (pc' = "convert" /\ pos' = pos + 1)
        /\ \E m \in 0 .. Len(buf) - 1 : fs' = AppendTo(out, SubSeq(buf, 1, m))
    BY <1>1, <1>16 DEF SpillFails, history, Writing
  <2>2. PICK m \in 0 .. Len(buf) - 1 : fs' = AppendTo(out, SubSeq(buf, 1, m))
    BY <2>1
  <2>3. m \in 0 .. Len(buf)
    <3>1. Len(buf) \in Nat
      BY StdoutFacts
    <3> QED
      BY <3>1
  <2>4. Shorter(us, ts)
    BY <1>2, <2>1, <2>2, <2>3, PartWritten
  <2>5. pc' = "convert" => k = f /\ n \in Int /\ d <= n
    <3>1. ASSUME pc' = "convert" PROVE Taken' = Taking(pos + 1)
      <4>1. \A x \in Names \ {Stdout} : fs'[x] = fs[x]
        BY <2>1, <2>2, <2>3, PartWritten
      <4> QED
        BY <2>1, <3>1, <4>1, TakenNext
    <3>2. Taking(pos + 1) \in Int /\ Taken < Taking(pos + 1) /\ Taken \in Int
      <4>1. Reads(pos + 1)
        BY <1>16 DEF SpillFails
      <4> QED
        BY <1>14, <2>1, <4>1, NextPiece
    <3>3. pc' = "convert" => n = Taken' /\ d = Taken /\ k = f
      BY <1>3, <1>14, <2>1
    <3> QED
      BY <3>1, <3>2, <3>3
  <2>6. NoneBehind(us, f, d)
    BY <1>14, <2>1, <2>4, ShorterKeeps
  <2>7. pc' = "convert" => NoneBehind(us, k, n)
    BY <1>14, <2>1, <2>5, <2>6, FrontMoves
  <2>8. After
    BY <2>1, <2>7 DEF Working
  <2> HIDE DEF After
  <2> QED
    BY <1>7, <2>4, <2>8
<1>17. CASE DirectWriteFails \/ ReadFails \/ OutOfMemory \/ CodecReturns
  <2>1. /\ pc = "convert" /\ UNCHANGED <<fs, stream, optind, fmt>>
        /\ \/ pc' \in {"failed", "loops"}
           \/ pc' = "exiting" /\ status' = 1
           \/ pc' = "converted" /\ ignored'
           \/ /\ pc' = "converted" /\ ignored' = ignored
              /\ pos = Len(Output) /\ WellFormed(fmt, Un, Input)
    BY <1>17 DEF DirectWriteFails, ReadFails, OutOfMemory, CodecReturns, Leave,
       history
  <2>2. us = ts /\ ferr' = ferr
    BY <1>8, <2>1
  <2>3. CASE pc' # "converted"
    <3>1. After
      BY <2>1, <2>3 DEF Working
    <3> HIDE DEF After
    <3> QED
      BY <1>6, <2>2, <3>1
  <2>4. CASE pc' = "converted"
    <3>1. k = f + 1 /\ n = 0
      BY <1>3, <1>14, <2>1, <2>4
    <3>2. NoneBehind(us, f + 1, 0)
      BY <1>14, <2>1, <2>2, FrontMoves
    <3>3. ASSUME ~ignored', ~ferr' PROVE NoneMissing(us, f + 1, 0)
      <4>1. /\ NoneMissing(us, f, d)
            /\ pos = Len(Output) /\ WellFormed(fmt, Un, Input)
        BY <1>14, <2>1, <2>2, <2>4, <3>3
      <4>2. \/ GoesOn(f)
            \/ \A j \in DOMAIN Pieced(f) : IsText(f, j) => j <= d
        BY <1>14, <2>1, <4>1, NoTextBehind
      <4> QED
        BY <1>14, <2>1, <4>1, <4>2, InputDone
    <3>4. After
      BY <2>4, <3>1, <3>2, <3>3
    <3> HIDE DEF After
    <3> QED
      BY <1>6, <2>2, <3>4
  <2> QED
    BY <2>3, <2>4
<1>18. CASE CodecFailed
  <2>1. /\ pc' = "exiting" /\ status' = 1 /\ UNCHANGED <<fs, out, buf>>
    BY <1>1, <1>18 DEF CodecFailed, Leave, Writing
  <2>2. us = ts
    BY <1>2, <2>1 DEF ToStdout
  <2>3. After
    BY <2>1 DEF Working
  <2> HIDE DEF After
  <2> QED
    BY <1>6, <2>2, <2>3
<1>19. ~FlushOutput /\ ~CopyAttributes /\ ~CloseFiles
  BY <1>1 DEF FlushOutput, CopyAttributes, CloseFiles, Writing
<1>20. CASE KeepStdoutOpen
  <2>1. /\ pc = "converted" /\ UNCHANGED <<fs, stream, optind>>
        /\ ignored' = (ignored \/ ferr)
        /\ \/ Filter(cmd) /\ pc' = "exiting"
           \/ pc' = "unlink"
    BY <1>20 DEF KeepStdoutOpen, Leave
  <2>2. us = ts /\ ferr' = ferr /\ d = 0 /\ f = Current + 1
    BY <1>3, <1>8, <2>1
  <2>3. ~ignored' => ~ignored /\ ferr = FALSE
    BY <1>1, <2>1
  <2>4. NoneBehind(us, f, 0) /\ (~ignored' => NoneMissing(us, f, 0))
    BY <1>4, <2>1, <2>2, <2>3 DEF Working
  <2>5. pc' = "unlink" => k = f /\ n = 0
    BY <1>3, <2>1, <2>2
  <2>6. Filter(cmd) => f = Len(Inputs) + 1
    BY <2>2 DEF Current, Inputs
  <2>7. After
    BY <2>1, <2>2, <2>3, <2>4, <2>5, <2>6 DEF Working
  <2> HIDE DEF After
  <2> QED
    BY <1>6, <2>2, <2>7
<1>21. CASE UnlinkInput
  <2>1. /\ pc = "unlink" /\ pc' = "next" /\ UNCHANGED <<stream, optind, ignored>>
        /\ ~Filter(cmd) /\ OptStdout(cmd)
    BY <1>1, <1>21 DEF UnlinkInput, Typed, InHand, history
  <2>2. UNCHANGED fs
    BY <1>21, <2>1 DEF UnlinkInput, OptKeep, OptStdout
  <2>3. us = ts /\ ferr' = ferr /\ d = 0 /\ n = 0 /\ k = f
    BY <1>3, <1>8, <2>1, <2>2
  <2>4. After
    BY <1>4, <2>1, <2>3 DEF Working
  <2> HIDE DEF After
  <2> QED
    BY <1>6, <2>3, <2>4
<1>22. CASE Exit
  <2>1. /\ pc = "exiting" /\ pc' = "exit" /\ status' = status /\ out' = out
        /\ \/ UNCHANGED <<fs, buf, ignored>>
           \/ out = Stdout /\ \E m \in 0 .. Len(buf) :
                Flush(m) /\ ignored' = (ignored \/ m < Len(buf))
    BY <1>1, <1>22, Zenon DEF Exit
  <2>2. /\ us = ts \/ Shorter(us, ts)
        /\ ~ignored' => us = ts /\ ~ignored
    <3>1. CASE UNCHANGED <<fs, buf, ignored>>
      BY <1>2, <2>1, <3>1 DEF ToStdout
    <3>2. ASSUME out = Stdout, NEW m \in 0 .. Len(buf), Flush(m),
                 ignored' = (ignored \/ m < Len(buf))
          PROVE  Shorter(us, ts) /\ (~ignored' => us = ts /\ ~ignored)
      <4>1. ~ignored' => ~ignored /\ ~(m < Len(buf))
        BY <3>2, Zenon
      <4> QED
        BY <1>2, <2>1, <3>2, <4>1, BufferFlushed
    <3> QED
      BY <2>1, <3>1, <3>2
  <2>3. After
    BY <1>4, <2>1, <2>2 DEF Working
  <2> HIDE DEF After
  <2> QED
    BY <1>6, <1>7, <2>2, <2>3
<1>23. CASE Kill
  <2>1. /\ pc' = "killed" /\ UNCHANGED <<fs, out>> /\ buf' = <<>>
    BY <1>23 DEF Kill
  <2>2. Shorter(us, ts)
    BY <1>2, <2>1, BufferLost
  <2>3. After
    BY <2>1 DEF Working
  <2> HIDE DEF After
  <2> QED
    BY <1>7, <2>2, <2>3
<1>24. CASE Rerun
  <2>1. /\ pc' = "start" /\ optind' = 0 /\ ferr' = FALSE /\ out' = NoFile
        /\ fs' = [fs EXCEPT ![Stdout] = EmptyFile]
    BY <1>24 DEF Rerun
  <2>2. us = <<>>
    <3>1. fs'[Stdout].data = <<>>
      BY <1>1, <2>1, StandardNames DEF Typed, TypeOK, EmptyFile
    <3>2. ToStdout' = fs'[Stdout].data \o <<>>
      BY <1>1, <2>1 DEF ToStdout
    <3>3. <<>> \o <<>> = <<>>
      BY EmptySeq, ConcatEmptySeq
    <3> QED
      BY <1>2, <3>1, <3>2, <3>3
  <2>3. Known(us) /\ Ordered(us)
    BY <2>2, NothingYet
  <2>4. After
    BY <2>1, <2>2 DEF Working
  <2> HIDE DEF After
  <2> QED
    BY <1>5, <2>3, <2>4
<1>25. CASE UNCHANGED vars
  <2>1. /\ UNCHANGED <<fs, stream, pc, optind, fmt, status, ignored>>
    BY <1>25 DEF vars, history
  <2>2. us = ts /\ UNCHANGED <<pos, ferr>>
    BY <1>8, <2>1
  <2>3. k = f /\ n = d
    BY <1>1, <1>2, <2>1, <2>2
    DEF Front, Depth, Taken, Taking, Current, Filter, Lead, Input, In
  <2>4. After
    BY <1>4, <2>1, <2>2, <2>3
  <2> HIDE DEF After
  <2> QED
    BY <1>6, <2>2, <2>4
<1> HIDE DEF After
<1> QED
  BY <1>9, <1>10, <1>11, <1>12, <1>13, <1>15, <1>16, <1>17, <1>18, <1>19,
     <1>20, <1>21, <1>22, <1>23, <1>24, <1>25 DEF Next, Step, Codec, Idle

(* With output files nothing goes to standard output.                      *)
LEMMA StdoutStaysEmpty ==
  ASSUME Typed, ToFile, out # Stdout, fs[Stdout].data = <<>>, [Next]_vars
  PROVE  out' # Stdout /\ fs'[Stdout].data = <<>>
<1>1. /\ fs \in [Names -> Files \cup {Absent}]
      /\ Stdout \in Names /\ NoFile # Stdout
      /\ ~Filter(cmd) /\ ~OptStdout(cmd)
  BY StandardNames DEF Typed, TypeOK, ToFile
<1>2. Alters(out) => fs'[Stdout] = fs[Stdout]
  BY <1>1 DEF Alters
<1>3. CASE Codec
  <2>1. out' = out /\ (Alters(out) \/ UNCHANGED fs)
    BY <1>3, TypedCodec
  <2> QED
    BY <1>2, <2>1
<1>4. CASE CreateOutput
  <2>1. \/ UNCHANGED <<fs, out>>
        \/ /\ out' = OutName(cmd, In, fmt)
           /\ fs' = [fs EXCEPT ![out'] = EmptyFile]
    BY <1>1, <1>4 DEF CreateOutput, stream
  <2>2. /\ cmd \in Commands /\ optind \in DOMAIN cmd.args
        /\ In = cmd.args[optind] /\ fmt \in Formats
    BY <1>1, <1>4 DEF CreateOutput, Typed, TypeOK, InHand, Busy, In, Args
  <2>3. OutName(cmd, In, fmt) # Stdout
    BY <2>2, CommandFacts
  <2> QED
    BY <1>1, <2>1, <2>3
<1>5. CASE CodecFailed
  <2>1. /\ out' = out \/ out' = NoFile
        /\ UNCHANGED fs \/ fs' = [fs EXCEPT ![out] = Absent]
    BY <1>5 DEF CodecFailed
  <2> QED
    BY <1>1, <2>1
<1>6. ASSUME pc \in Writing \/ out # NoFile, NEW m \in 0 .. Len(buf), Flush(m)
      PROVE  fs'[Stdout] = fs[Stdout]
  <2>1. out \in Names /\ fs[out] # Absent
    BY <1>6, OutputFacts, NamesAssumption
  <2> QED
    BY <1>2, <1>6, <2>1, FlushAlters DEF Typed
<1>7. CASE FlushOutput \/ CloseFiles
  <2>1. (out' = out \/ out' = NoFile) /\ pc \in Writing
    BY <1>7 DEF FlushOutput, CloseFiles, Writing
  <2>2. PICK m \in 0 .. Len(buf) : Flush(m)
    BY <1>7 DEF FlushOutput, CloseFiles
  <2> QED
    BY <1>1, <1>6, <2>1, <2>2
<1>8. CASE CopyAttributes
  <2>1. /\ out' = out
        /\ UNCHANGED fs \/ fs' = [fs EXCEPT ![out].attrs = fs[In].attrs]
    BY <1>8 DEF CopyAttributes, stream
  <2> QED
    BY <1>1, <2>1
<1>9. CASE UnlinkInput
  <2>1. /\ out' = out
        /\ UNCHANGED fs \/ fs' = [fs EXCEPT ![In] = Absent]
        /\ In # Stdout
    BY <1>9, InputFacts DEF UnlinkInput, stream, Busy
  <2> QED
    BY <1>1, <2>1
<1>10. CASE Exit
  <2>1. /\ out' = out
        /\ UNCHANGED fs \/ (out # NoFile /\ \E m \in 0 .. Len(buf) : Flush(m))
    BY <1>10 DEF Exit
  <2> QED
    BY <1>6, <2>1
<1>11. CASE Rerun
  BY <1>1, <1>11 DEF Rerun, EmptyFile
<1>12. CASE \/ Start \/ TakeArg \/ NoMoreArgs \/ OpenInput \/ DetectFormat
            \/ KeepStdoutOpen \/ Kill \/ UNCHANGED vars
  <2>1. UNCHANGED <<fs, out>>
    BY <1>12 DEF Start, TakeArg, NoMoreArgs, OpenInput, DetectFormat,
       KeepStdoutOpen, Kill, vars, stream
  <2> QED
    BY <2>1
<1> QED
  BY <1>3, <1>4, <1>5, <1>7, <1>8, <1>9, <1>10, <1>11, <1>12
  DEF Next, Step, Idle

(* What is said of standard output is so after every step.                 *)
LEMMA StdoutInHandStep ==
  ASSUME IInv, ToldApart, StdoutInHand, [Next]_vars
  PROVE  ToldApart' /\ StdoutInHand'
<1>1. Typed /\ UNCHANGED <<cmd, orig, ToFile>>
  BY Layers
<1>2. ToldApart'
  BY <1>1, OriginsStay
<1>3. CASE ToFile
  <2>1. out' # Stdout /\ fs'[Stdout].data = <<>>
    BY <1>1, <1>3, StdoutStaysEmpty DEF StdoutInHand
  <2> QED
    BY <1>1, <1>2, <1>3, <2>1 DEF StdoutInHand
<1>4. CASE ~ToFile
  <2>1. (\A n \in Names \ {Stdout} : fs[n] = orig[n]) /\ BufferInHand /\ Concatenated
    BY <1>4 DEF StdoutInHand
  <2>2. \A n \in Names \ {Stdout} : fs'[n] = orig'[n]
    BY <1>1, <1>4, <2>1, FilesStay
  <2>3. BufferInHand'
    BY <1>4, <2>1, BufferInHandStep
  <2>4. Concatenated'
    BY <1>4, <2>1, ConcatenatedStep
  <2> QED
    BY <1>1, <1>2, <1>4, <2>2, <2>3, <2>4 DEF StdoutInHand
<1> QED
  BY <1>3, <1>4

(* A piece on standard output comes from the one input it can come from.   *)
LEMMA FromComes ==
  ASSUME ToldApart, Known(ToStdout), NEW x \in DOMAIN ToStdout,
         NEW k \in DOMAIN Inputs, From(k, ToStdout[x])
  PROVE  \E j \in DOMAIN Pieced(k) : Comes(ToStdout[x], k, j)
<1>1. PICK p : p = ToStdout[x]
  OBVIOUS
<1>2. PICK a \in DOMAIN Pieced(k) : IsText(k, a) /\ Pieced(k)[a].of = p.of
  BY <1>1 DEF From, Pieced, IsText
<1>3. PICK l \in DOMAIN Inputs : \E b \in DOMAIN Pieced(l) : Comes(p, l, b)
  BY <1>1, <1>2 DEF Known, IsText
<1>4. k = l
  BY <1>2, <1>3 DEF Comes, ToldApart, IsText
<1> QED
  BY <1>1, <1>3, <1>4

(* What is in hand makes standard output the concatenation.                *)
LEMMA InHandConcatenated ==
  ASSUME IInv, ToldApart, StdoutInHand
  PROVE  StdoutIsConcatenation
<1>1. CASE ToFile
  <2>1. ToStdout = <<>>
    <3>1. ToStdout = <<>> \o <<>>
      BY <1>1 DEF StdoutInHand, ToStdout
    <3> QED
      BY <3>1, EmptySeq, ConcatEmptySeq
  <2>2. StdoutInOrder
    BY <2>1 DEF StdoutInOrder
  <2>3. StdoutComplete
    BY <1>1 DEF StdoutComplete, ToFile
  <2> QED
    BY <2>2, <2>3 DEF StdoutIsConcatenation
<1>2. CASE ~ToFile
  <2>1. BufferInHand /\ Concatenated /\ Known(ToStdout) /\ Ordered(ToStdout)
    BY <1>2 DEF StdoutInHand, Concatenated
  <2>2. StdoutInOrder
    <3> SUFFICES ASSUME NEW x \in DOMAIN ToStdout, NEW y \in DOMAIN ToStdout,
                        NEW j \in DOMAIN Inputs, NEW k \in DOMAIN Inputs,
                        x < y, From(j, ToStdout[x]), From(k, ToStdout[y])
                 PROVE  j < k \/ (j = k /\ ToStdout[x].i < ToStdout[y].i)
      BY DEF StdoutInOrder
    <3>1. PICK a \in DOMAIN Pieced(j) : Comes(ToStdout[x], j, a)
      BY <2>1, FromComes
    <3>2. PICK b \in DOMAIN Pieced(k) : Comes(ToStdout[y], k, b)
      BY <2>1, FromComes
    <3>3. j < k \/ (j = k /\ a < b)
      BY <2>1, <3>1, <3>2 DEF Ordered
    <3>4. j = k /\ a < b => Pieced(j)[a].i < Pieced(k)[b].i
      BY <3>1, <3>2 DEF Comes, ToldApart
    <3> QED
      BY <3>1, <3>2, <3>3, <3>4 DEF Comes
  <2>3. StdoutComplete
    <3> SUFFICES ASSUME pc = "exit", status = 0, "h" \notin cmd.flags, ~ignored,
                        NEW k \in DOMAIN Inputs, ~Skipped(cmd, Inputs[k]),
                        ~(Un /\ Behind(orig[Inputs[k]].data))
                 PROVE  LET e == orig[Inputs[k]].data
                            o == fs[Stdout].data
                        IN  {e[j].i : j \in {j \in DOMAIN e : e[j].of \in Payloads}} =
                            {o[x].i : x \in {x \in DOMAIN o : From(k, o[x])}}
      BY DEF StdoutComplete
    <3>1. PICK o, e : o = ToStdout /\ e = Pieced(k)
      OBVIOUS
    <3>2. o = fs[Stdout].data
      <4>1. /\ buf = <<>> /\ fs[Stdout].data \in Seq(Pieces)
            /\ ToStdout = fs[Stdout].data \o buf
        BY <1>2, <2>1, StdoutFacts DEF BufferInHand
      <4> QED
        BY <3>1, <4>1, ConcatEmptySeq
    <3>3. Whole(o, k)
      <4>1. NoneMissing(o, Len(Inputs) + 1, 0)
        BY <2>1, <3>1 DEF Concatenated
      <4>2. k < Len(Inputs) + 1
        BY InputsType
      <4>3. ~GoesOn(k)
        BY DEF GoesOn, Pieced
      <4> QED
        BY <4>1, <4>2, <4>3 DEF NoneMissing
    <3>4. e = orig[Inputs[k]].data
      BY <3>1, <3>3 DEF Whole, Pieced
    <3>5. ASSUME NEW j \in DOMAIN e, e[j].of \in Payloads
          PROVE  \E x \in DOMAIN o : From(k, o[x]) /\ o[x].i = e[j].i
      <4>1. j <= Len(Pieced(k)) /\ IsText(k, j)
        BY <3>1, <3>5, InputsType DEF IsText
      <4>2. PICK x \in DOMAIN o : Comes(o[x], k, j)
        BY <3>1, <3>3, <3>5, <4>1 DEF Whole, There
      <4>3. o[x].i = e[j].i /\ o[x].of = e[j].of
        BY <3>1, <4>2 DEF Comes
      <4>4. From(k, o[x])
        BY <3>3, <3>4, <3>5, <4>3 DEF From, Whole
      <4> QED
        BY <4>3, <4>4
    <3>6. ASSUME NEW x \in DOMAIN o, From(k, o[x])
          PROVE  \E j \in DOMAIN e : e[j].of \in Payloads /\ o[x].i = e[j].i
      <4>1. PICK j \in DOMAIN Pieced(k) : Comes(ToStdout[x], k, j)
        BY <2>1, <3>1, <3>6, FromComes
      <4> QED
        BY <3>1, <4>1 DEF Comes, IsText
    <3> QED
      BY <3>2, <3>4, <3>5, <3>6
  <2> QED
    BY <2>2, <2>3 DEF StdoutIsConcatenation
<1> QED
  BY <1>1, <1>2

(* Pieces of text that can be told apart come to standard output in the    *)
(* order of the arguments and each argument in its own, and none is        *)
(* missing when the status is 0, what a .snz file has behind its end mark  *)
(* aside, though some codecs write past the stdio buffer                   *)
(* (snzip.c:313-335, 424-457).                                             *)
THEOREM StdoutIsTold == Spec /\ ToldApart => []StdoutIsConcatenation
<1>1. ASSUME Init, ToldApart PROVE StdoutInHand
  <2>1. /\ IInv /\ fs = orig /\ pc = "start" /\ optind = 0 /\ buf = <<>>
        /\ out = NoFile /\ ferr = FALSE /\ fs[Stdout].data = <<>>
        /\ NoFile # Stdout
    BY <1>1, InitIInv, StandardNames DEF Init, ToldApart
  <2>2. ToStdout = <<>>
    <3>1. ToStdout = <<>> \o <<>>
      BY <2>1 DEF ToStdout
    <3> QED
      BY <3>1, EmptySeq, ConcatEmptySeq
  <2>3. Known(ToStdout) /\ Ordered(ToStdout)
    BY <2>1, <2>2, NothingYet
  <2>4. Concatenated
    BY <2>1, <2>2, <2>3 DEF Concatenated, Working
  <2>5. BufferInHand
    BY <2>1 DEF BufferInHand, Working
  <2> QED
    BY <2>1, <2>4, <2>5 DEF StdoutInHand
<1>2. Init /\ ToldApart => ToldApart /\ StdoutInHand
  BY <1>1
<1>3. IInv /\ ToldApart /\ StdoutInHand /\ [Next]_vars
      => (ToldApart /\ StdoutInHand)'
  BY StdoutInHandStep
<1>4. IInv /\ ToldApart /\ StdoutInHand => StdoutIsConcatenation
  BY InHandConcatenated
<1> QED
  BY <1>2, <1>3, <1>4, Invariant, PTL DEF Spec

=============================================================================
