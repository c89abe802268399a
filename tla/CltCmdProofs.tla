---------------------------- MODULE CltCmdProofs ----------------------------
(***************************************************************************)
(* A run of a command line client, for any number of calls and any options:*)
(* every line shows the answer to its own command, the lines come in order *)
(* and none is missing, and a stop request is clean.                       *)
(***************************************************************************)
EXTENDS CltCmd, ChainLemmas

USE ClientAssumption
USE DEF vars, server, framer, worker, lines, history, cltVars,
        None, NoId

\* A part of the invariant whose variables a step leaves alone still holds.
LEMMA Frame ==
  ASSUME IInv
  PROVE  /\ UNCHANGED <<requests, flight, rx, ready>>
              => NetOK'
         /\ UNCHANGED <<srvOpen, connected, ferr, reconnectNeeded, partial,
                         pc, cur, sent, result>>
              => ClientOK'
         /\ UNCHANGED <<cmds, left, taken, out, shown>>
              => ChainsOK'
         /\ UNCHANGED <<mpc, wpc, running, stopRunning, gaveUp, noServer,
                         stopAt>>
              => ToolOK'
         /\ UNCHANGED <<wpc, pc, cur, sent, reconnectNeeded, result>>
              => CallInv'
         /\ UNCHANGED <<running, wpc, mpc, cmds, cur, out, shown, left,
                         live, gaveUp, stopRunning>>
              => PhaseInv'
         /\ UNCHANGED <<running, wpc, cur, cmds, left, taken, noServer,
                         stopRunning>>
              => ChainInv'
         /\ UNCHANGED <<told, wpc, cur, mpc, cmds>>
              => LinesInv'
         /\ UNCHANGED <<stopRunning, wpc, cur, stopAt>>
              => StopInv'
         /\ UNCHANGED <<told, sent>>
              => AnswersAreOwn'
         /\ UNCHANGED <<told, out, mpc, gaveUp, noServer, cmds>>
              => Reported'
         /\ UNCHANGED <<stopRunning, cur, stopAt, live, left, taken, mpc>>
              => StopIsClean'
<1>1. UNCHANGED <<requests, flight, rx, ready>>
        => NetOK'
  BY DEF IInv, TypeOK, NetOK
<1>2. UNCHANGED <<srvOpen, connected, ferr, reconnectNeeded, partial, pc,
                  cur, sent, result>>
        => ClientOK'
  BY DEF IInv, TypeOK, ClientOK
<1>3. UNCHANGED <<cmds, left, taken, out, shown>>
        => ChainsOK'
  BY DEF IInv, TypeOK, ChainsOK
<1>4. UNCHANGED <<mpc, wpc, running, stopRunning, gaveUp, noServer, stopAt>>
        => ToolOK'
  BY DEF IInv, TypeOK, ToolOK
<1>5. UNCHANGED <<wpc, pc, cur, sent, reconnectNeeded, result>>
        => CallInv'
  BY DEF IInv, TypeOK, CallInv
<1>6. UNCHANGED <<running, wpc, mpc, cmds, cur, out, shown, left, live,
                  gaveUp, stopRunning>>
        => PhaseInv'
  BY DEF IInv, TypeOK, PhaseInv
<1>7. UNCHANGED <<running, wpc, cur, cmds, left, taken, noServer,
                  stopRunning>>
        => ChainInv'
  BY DEF IInv, TypeOK, ChainInv, Begun
<1>8. UNCHANGED <<told, wpc, cur, mpc, cmds>>
        => LinesInv'
  BY DEF IInv, TypeOK, LinesInv, Returned, HasLine
<1>9. UNCHANGED <<stopRunning, wpc, cur, stopAt>>
        => StopInv'
  BY DEF IInv, TypeOK, StopInv
<1>10. UNCHANGED <<told, sent>>
        => AnswersAreOwn'
  BY DEF IInv, TypeOK, AnswersAreOwn
<1>11. UNCHANGED <<told, out, mpc, gaveUp, noServer, cmds>>
        => Reported'
  BY DEF IInv, TypeOK, Reported, InOrder, HasLine
<1>12. UNCHANGED <<stopRunning, cur, stopAt, live, left, taken, mpc>>
        => StopIsClean'
  BY DEF IInv, TypeOK, StopIsClean
<1> QED  BY <1>1, <1>2, <1>3, <1>4, <1>5, <1>6, <1>7, <1>8, <1>9, <1>10,
            <1>11, <1>12

\* Lines and the chain of commands are sequences; what they hold after one more
\* line is what they held before, and the line.
LEMMA MoreLines ==
  ASSUME NEW l \in Lines, IInv, shown' = shown, out' = Append(out, l)
  PROVE  /\ told \in Seq(Lines) /\ told' = Append(told, l)
         /\ Elements(told') = Elements(told) \union {l}
<1>1. shown \in Seq(Lines) /\ out \in Seq(Lines)
  BY DEF IInv, TypeOK, ChainsOK
<1>2. told \in Seq(Lines) /\ told' = Append(told, l)
  BY <1>1, LineAppend, ConcatProperties DEF told
<1> QED  BY <1>2, PutRange, SMTT(30) DEF Elements, Range

\* Printing a line moves it and changes nothing else.
LEMMA LineMoves ==
  ASSUME IInv, out # <<>>, shown' = Append(shown, Head(out)),
         out' = Tail(out)
  PROVE  told' = told /\ shown' \in Seq(Lines) /\ out' \in Seq(Lines)
<1>1. shown \in Seq(Lines) /\ out \in Seq(Lines)
  BY DEF IInv, TypeOK, ChainsOK
<1>2. /\ Head(out) \in Lines /\ Tail(out) \in Seq(Lines)
      /\ shown' = shown \o <<Head(out)>>
  BY <1>1, HeadTailProperties, AppendIsConcat
<1>3. (shown \o <<>>) \o out = (shown \o <<Head(out)>>) \o Tail(out)
  BY <1>1, LineTake
<1>4. shown \o <<>> = shown
  BY <1>1, ConcatEmptySeq
<1> QED  BY <1>1, <1>2, <1>3, <1>4, AppendProperties DEF told

\* Before the worker is started there is nothing to show.
LEMMA NothingYet ==
  ASSUME IInv, mpc = "parse"
  PROVE  /\ wpc = "none" /\ ~running /\ cur = 0 /\ pc = "idle"
         /\ told = <<>> /\ left = <<>> /\ live = {} /\ taken = 0
         /\ ~stopRunning /\ out = <<>>
<1>1. wpc = "none" /\ ~running /\ cur = 0 /\ out = <<>> /\ shown = <<>>
  BY DEF IInv, PhaseInv
<1>2. told = <<>>
  BY <1>1 DEF told
<1> QED  BY <1>1, <1>2 DEF IInv, PhaseInv, CallInv, ChainInv

\* An option is parsed: the invariant is kept.
LEMMA ParseOptionStep ==
  ASSUME IInv, ParseOption PROVE IInv'
<1> USE DEF IInv, TypeOK, ParseOption
<1>1. PICK c \in Commands : cmds' = Append(cmds, c)
  BY OptionsAssumption DEF Commands
<1>2. cmds' \in Seq(Commands) /\ cmds' # <<>>
  BY <1>1 DEF ChainsOK
<1>3. UNCHANGED told
  BY DEF told
<1>4. ChainsOK'
  BY <1>2 DEF ChainsOK
<1>5. PhaseInv'
  BY <1>2, NothingYet DEF PhaseInv
<1>6. ChainInv'
  BY NothingYet DEF ChainInv, Begun
<1>7. LinesInv'
  BY <1>3, NothingYet DEF LinesInv, Returned, HasLine, Elements
<1>8. Reported'
  BY <1>3, NothingYet DEF Reported, InOrder, HasLine, Elements
<1> QED  BY <1>4, <1>5, <1>6, <1>7, <1>8, Frame
   DEF told

\* Parsing ends with nothing to run: the invariant is kept.
LEMMA ParseReturnsStep ==
  ASSUME IInv, ParseReturns PROVE IInv'
<1> USE DEF IInv, TypeOK, ParseReturns
<1>1. UNCHANGED told
  BY DEF told
<1>2. ChainsOK' /\ ToolOK'
  BY DEF ChainsOK, ToolOK
<1>3. PhaseInv'
  BY NothingYet DEF PhaseInv
<1>4. ChainInv'
  BY NothingYet DEF ChainInv, Begun
<1>5. LinesInv'
  BY <1>1, NothingYet DEF LinesInv, Returned, HasLine, Elements
<1>6. Reported'
  BY <1>1, NothingYet DEF Reported, InOrder, HasLine, Elements
<1>7. StopIsClean'
  BY NothingYet DEF StopIsClean
<1> QED  BY <1>2, <1>3, <1>4, <1>5, <1>6, <1>7, Frame DEF told

\* The worker is started: the invariant is kept.
LEMMA RunCommandsStep ==
  ASSUME IInv, RunCommands PROVE IInv'
<1> USE DEF IInv, TypeOK, RunCommands
<1>1. /\ Len(cmds) \in Nat /\ DOMAIN cmds = 1..Len(cmds)
      /\ cmds = <<>> <=> Len(cmds) = 0
  BY DEF ChainsOK
<1>2. ASSUME cmds # <<>>
      PROVE  left' = [k \in 1..Len(cmds) |-> k] /\ left' \in Seq(Nat)
  BY <1>1, <1>2
<1>3. UNCHANGED <<told, cmds, taken, cur, noServer, out, gaveUp>>
  BY DEF told
<1>4. ChainsOK'
  BY <1>2 DEF ChainsOK
<1>5. ToolOK'
  BY DEF ToolOK
<1>6. CallInv'
  BY NothingYet DEF CallInv
<1>7. PhaseInv'
  BY NothingYet, <1>1 DEF PhaseInv
<1>8. ChainInv'
  <2>1. CASE cmds = <<>>
    BY <2>1, NothingYet DEF ChainInv, Begun
  <2>2. CASE cmds # <<>>
    <3>1. wpc' = "connect" /\ cur' = 0 /\ Begun' = 0 /\ taken' = 0
      BY <2>2, <1>3, NothingYet DEF Begun
    <3>2. left' = [k \in 1..(Len(cmds) - 0) |-> 0 + k]
      BY <2>2, <1>1, <1>2
    <3> QED  BY <3>1, <3>2, <1>1, <1>3 DEF ChainInv
  <2> QED  BY <2>1, <2>2
<1>9. LinesInv'
  BY <1>3, NothingYet DEF LinesInv, Returned, HasLine, Elements
<1>10. StopInv'
  BY DEF StopInv
<1>11. Reported'
  BY <1>3, <1>1, NothingYet DEF Reported, InOrder, HasLine, Elements
<1>12. StopIsClean'
  <2>1. CASE cmds = <<>>
    BY <2>1, NothingYet DEF StopIsClean
  <2>2. CASE cmds # <<>>
    <3>1. Elements(left') = DOMAIN cmds
      BY <2>2, <1>1, <1>2 DEF Elements
    <3> QED  BY <2>2, <3>1, <1>3, NothingYet DEF StopIsClean
  <2> QED  BY <2>1, <2>2
<1> QED  BY <1>4, <1>5, <1>6, <1>7, <1>8,
   <1>9, <1>10, <1>11, <1>12, Frame DEF told

\* The wait for the worker ends: the invariant is kept.
LEMMA WaitStep ==
  ASSUME IInv, Wait PROVE IInv'
<1> USE DEF IInv, TypeOK, Wait
<1>1. UNCHANGED told
  BY DEF told
<1>2. ToolOK'
  BY DEF ToolOK
<1>3. PhaseInv'
  BY DEF PhaseInv
<1>4. LinesInv'
  BY <1>1 DEF LinesInv, Returned, HasLine
<1>5. Reported'
  BY <1>1 DEF Reported, InOrder, HasLine
<1>6. StopIsClean'
  BY DEF StopIsClean
<1> QED  BY <1>2, <1>3, <1>4, <1>5, <1>6, Frame
   DEF told

\* A line is printed: the invariant is kept.
LEMMA PrintLinesStep ==
  ASSUME IInv, PrintLines PROVE IInv'
<1> USE DEF IInv, TypeOK, PrintLines
<1>1. told' = told /\ shown' \in Seq(Lines) /\ out' \in Seq(Lines)
  BY LineMoves DEF ChainsOK, told
<1>2. ChainsOK'
  BY <1>1 DEF ChainsOK
<1>3. ToolOK'
  BY DEF ToolOK
<1>4. PhaseInv'
  BY DEF PhaseInv
<1>5. LinesInv'
  BY <1>1 DEF LinesInv, Returned, HasLine
<1>6. AnswersAreOwn'
  BY <1>1 DEF AnswersAreOwn
<1>7. Reported'
  BY <1>1 DEF Reported, InOrder, HasLine
<1>8. StopIsClean'
  BY DEF StopIsClean
<1> QED  BY <1>2, <1>3, <1>4, <1>5, <1>6,
   <1>7, <1>8, Frame DEF told

\* The worker is told to stop: the invariant is kept.
LEMMA StopStep ==
  ASSUME IInv, Stop PROVE IInv'
<1> USE DEF IInv, TypeOK, Stop
<1>1. cur \in Nat /\ stopAt \in Nat /\ stopRunning \in BOOLEAN
  BY DEF ClientOK, ToolOK
<1>2. ~stopRunning
  BY DEF PhaseInv
<1>3. UNCHANGED told
  BY DEF told
<1>4. ToolOK'
  BY <1>1 DEF ToolOK
<1>5. PhaseInv'
  BY DEF PhaseInv
<1>6. ChainInv'
  BY DEF ChainInv, Begun
<1>7. LinesInv'
  BY <1>3 DEF LinesInv, Returned, HasLine
<1>8. StopInv'
  <2>1. CASE running
    BY <2>1, <1>1 DEF StopInv
  <2>2. CASE ~running
    BY <2>2, <1>2 DEF StopInv
  <2> QED  BY <2>1, <2>2
<1>9. Reported'
  BY <1>3 DEF Reported, InOrder, HasLine
<1>10. StopIsClean'
  BY <1>1, <1>2 DEF StopIsClean
<1> QED  BY <1>4, <1>5, <1>6, <1>7, <1>8,
   <1>9, <1>10, Frame DEF told

\* The worker is joined: the invariant is kept.
LEMMA JoinStep ==
  ASSUME IInv, Join PROVE IInv'
<1> USE DEF IInv, TypeOK, Join
<1>1. mpc = "join" => gaveUp
  BY DEF PhaseInv
<1>2. UNCHANGED told
  BY DEF told
<1>3. ToolOK'
  BY DEF ToolOK
<1>4. PhaseInv'
  BY <1>1 DEF PhaseInv
<1>5. LinesInv'
  BY <1>2 DEF LinesInv, Returned, HasLine
<1>6. Reported'
  BY <1>2 DEF Reported, InOrder, HasLine
<1>7. StopIsClean'
  BY DEF StopIsClean
<1> QED  BY <1>3, <1>4, <1>5, <1>6, <1>7, Frame
   DEF told

\* The worker is deleted: the invariant is kept.
LEMMA DeleteStep ==
  ASSUME IInv, Delete PROVE IInv'
<1> USE DEF IInv, TypeOK, Delete
<1>1. shown \in Seq(Lines) /\ out \in Seq(Lines) /\ Len(shown) \in Nat
  BY DEF ChainsOK
<1>2. told' = shown
  BY <1>1, ConcatEmptySeq DEF told
<1>3. /\ DOMAIN told' \subseteq DOMAIN told
      /\ \A k \in DOMAIN told' : told'[k] = told[k]
  BY <1>1, <1>2, ConcatProperties DEF told
<1>4. Elements(told') \subseteq Elements(told)
  BY <1>3 DEF Elements
<1>5. ~running /\ wpc = "done"
  BY DEF PhaseInv, ToolOK
<1>6. ChainsOK'
  BY DEF ChainsOK
<1>7. ToolOK'
  BY DEF ToolOK
<1>8. PhaseInv'
  BY <1>1, <1>5 DEF PhaseInv
<1>9. ChainInv'
  BY <1>5 DEF ChainInv, Begun
<1>10. LinesInv'
  BY <1>4, <1>5 DEF LinesInv, Returned, HasLine
<1>11. AnswersAreOwn'
  BY <1>4 DEF AnswersAreOwn
<1>12. Reported'
  <2>1. InOrder'
    BY <1>3 DEF Reported, InOrder
  <2>2. ASSUME ~gaveUp, ~noServer PROVE \A c \in DOMAIN cmds : HasLine(c)'
    <3>1. out = <<>> /\ ~stopRunning
      BY <2>2 DEF PhaseInv
    <3>2. told' = told
      BY <3>1, <1>1, <1>2, ConcatEmptySeq DEF told
    <3>3. cur = Len(cmds) /\ DOMAIN cmds = 1..Len(cmds) /\ Returned = cur
      BY <2>2, <3>1, <1>5 DEF ChainInv, ChainsOK, Returned
    <3>4. \A c \in 1..Returned : HasLine(c)
      BY DEF LinesInv
    <3> QED  BY <3>2, <3>3, <3>4 DEF HasLine
  <2> QED  BY <2>1, <2>2 DEF Reported
<1>13. StopIsClean'
  <2>1. taken = 0
    BY <1>5 DEF ChainInv
  <2>2. live = Elements(left) /\ Elements(left') = {}
    BY <2>1 DEF StopIsClean, Elements
  <2> QED  BY <2>1, <2>2 DEF StopIsClean
<1> QED  BY <1>6, <1>7, <1>8, <1>9, <1>10,
   <1>11, <1>12, <1>13, Frame DEF told

\* The worker connects, or cannot: the invariant is kept.
LEMMA ConnectStep ==
  ASSUME IInv, Connect PROVE IInv'
<1> USE DEF IInv, TypeOK, Connect
<1>1. UNCHANGED told
  BY DEF told
<1>2. ToolOK'
  BY DEF ToolOK
<1>3. CallInv'
  BY DEF CallInv
<1>4. PhaseInv'
  BY DEF PhaseInv
<1>5. ChainInv'
  BY DEF ChainInv, Begun
<1>6. LinesInv'
  BY <1>1 DEF LinesInv, Returned, HasLine
<1>7. StopInv'
  BY DEF StopInv
<1>8. Reported'
  BY <1>1 DEF Reported, InOrder, HasLine
<1> QED  BY <1>2, <1>3, <1>4, <1>5, <1>6, <1>7,
   <1>8, Frame DEF told

\* A command is taken out of the chain: the invariant is kept.
LEMMA TakeCommandStep ==
  ASSUME IInv, TakeCommand PROVE IInv'
<1> USE DEF IInv, TypeOK, TakeCommand, Leave
<1>1. /\ Len(cmds) \in Nat /\ cur \in Nat /\ left \in Seq(Nat)
      /\ Len(left) \in Nat
  BY DEF ChainsOK, ClientOK
<1>2. /\ running /\ taken = 0 /\ cur <= Len(cmds)
      /\ left = [k \in 1..(Len(cmds) - cur) |-> cur + k]
  BY DEF PhaseInv, ChainInv, Begun
<1>3. Len(left) = Len(cmds) - cur
  BY <1>1, <1>2
<1>4. ASSUME left # <<>>
      PROVE  /\ wpc' = "taken" /\ running'
             /\ taken' = cur + 1 /\ cur + 1 <= Len(cmds)
             /\ left' = [k \in 1..(Len(cmds) - (cur + 1)) |-> (cur + 1) + k]
             /\ left' \in Seq(Nat)
             /\ Elements(left) = Elements(left') \union {taken'}
  <2>1. /\ taken' = Head(left) /\ left' = Tail(left)
        /\ wpc' = "taken" /\ running'
    BY <1>4, <1>2
  <2>2. Len(left) # 0 /\ taken' = left[1]
    BY <2>1, <1>4, <1>1
  <2>3. cur + 1 <= Len(cmds)
    BY <2>2, <1>1, <1>3
  <2>4. taken' = cur + 1
    BY <2>2, <2>3, <1>1, <1>2
  <2>5. /\ left' \in Seq(Nat) /\ Len(left') = Len(left) - 1
        /\ \A k \in 1..(Len(left) - 1) : left'[k] = left[k + 1]
    BY <2>1, <1>4, <1>1, HeadTailProperties
  <2>6. \A k \in 1..(Len(left) - 1) : left[k + 1] = (cur + 1) + k
    BY <1>1, <1>2, <1>3
  <2>7. left' = [k \in 1..(Len(cmds) - (cur + 1)) |-> (cur + 1) + k]
    BY <2>5, <2>6, <1>1, <1>3, SMTT(30)
  <2>8. Elements(left) = Elements(left') \union {taken'}
    BY <2>1, <1>4, <1>1, GetRange DEF Elements, Range
  <2> QED  BY <2>1, <2>3, <2>4, <2>5, <2>7, <2>8
<1>5. UNCHANGED told
  BY DEF told
<1>6. ChainsOK'
  <2>1. taken' \in Nat /\ left' \in Seq(Nat)
    <3>1. CASE left = <<>>
      BY <3>1, <1>1, <1>2
    <3>2. CASE left # <<>>
      BY ONLY <3>2, <1>1, <1>4
    <3> QED  BY <3>1, <3>2
  <2> QED  BY <2>1 DEF ChainsOK
<1>7. ToolOK'
  BY DEF ToolOK
<1>8. CallInv'
  BY DEF CallInv
<1>9. PhaseInv'
  BY DEF PhaseInv
<1>10. ChainInv'
  <2>1. CASE left = <<>>
    BY <2>1, <1>1, <1>2, <1>3 DEF ChainInv, Begun
  <2>2. CASE left # <<>>
    <3>1. wpc' = "taken" /\ Begun' = cur + 1 /\ cmds' = cmds /\ running'
      BY <2>2, <1>2 DEF Begun
    <3> QED  BY <2>2, <3>1, <1>4 DEF ChainInv
  <2> QED  BY <2>1, <2>2
<1>11. LinesInv'
  BY <1>5 DEF LinesInv, Returned, HasLine
<1>12. StopInv'
  BY DEF StopInv
<1>13. StopIsClean'
  <2>1. CASE left = <<>>
    BY <2>1 DEF StopIsClean
  <2>2. CASE left # <<>>
    <3>1. /\ Elements(left) = Elements(left') \union {taken'}
          /\ taken' = cur + 1 /\ cur + 1 # 0
      BY ONLY <2>2, <1>1, <1>4
    <3>2. live = Elements(left)
      BY <1>2 DEF StopIsClean
    <3> QED  BY <2>2, <3>1, <3>2 DEF StopIsClean
  <2> QED  BY <2>1, <2>2
<1> QED  BY <1>6, <1>7, <1>8, <1>9, <1>10,
   <1>11, <1>12, <1>13, Frame DEF told

\* The worker looks for a stop request: the invariant is kept.
LEMMA LookAtStopStep ==
  ASSUME IInv, LookAtStop PROVE IInv'
<1> USE DEF IInv, TypeOK, LookAtStop, Stopped, Leave
<1>1. /\ Len(cmds) \in Nat /\ cur \in Nat /\ left \in Seq(Nat)
      /\ Len(left) \in Nat
  BY DEF ChainsOK, ClientOK
<1>2. /\ running /\ Begun \in Nat \ {0} /\ taken = Begun
      /\ left = [k \in 1..(Len(cmds) - Begun) |-> Begun + k]
  BY <1>1 DEF PhaseInv, ChainInv, Begun
<1>3. taken \notin Elements(left) /\ taken # 0
  BY <1>1, <1>2 DEF Elements
<1>4. UNCHANGED told
  BY DEF told
<1>5. ChainsOK'
  BY DEF ChainsOK
<1>6. ToolOK'
  BY DEF ToolOK
<1>7. CallInv'
  BY DEF CallInv
<1>8. PhaseInv'
  BY DEF PhaseInv
<1>9. ChainInv'
  BY DEF ChainInv, Begun
<1>10. LinesInv'
  BY <1>4 DEF LinesInv, Returned, HasLine
<1>11. StopInv'
  BY DEF StopInv
<1>12. StopIsClean'
  BY <1>3 DEF StopIsClean
<1> QED  BY <1>5, <1>6, <1>7, <1>8, <1>9,
   <1>10, <1>11, <1>12, Frame DEF told

\* A call is begun: the invariant is kept.
LEMMA StartCallStep ==
  ASSUME IInv, StartCall PROVE IInv'
<1> USE DEF IInv, TypeOK, StartCall, Call, Reconnect
<1>1. /\ Len(cmds) \in Nat /\ cur \in Nat /\ left \in Seq(Nat)
      /\ Len(left) \in Nat
  BY DEF ChainsOK, ClientOK
<1>2. told' = told /\ cur' = cur + 1 /\ cur' \in Nat
  BY <1>1 DEF told
<1>3. NetOK'
  <2>1. CASE reconnectNeeded
    <3>1. /\ requests' = <<>> /\ flight' = <<>> /\ rx' = <<>> /\ ready' = <<>>
      BY <2>1
    <3> QED  BY <3>1, EmptySeq DEF NetOK
  <2>2. CASE ~reconnectNeeded
    BY <2>2 DEF NetOK
  <2> QED  BY <2>1, <2>2
<1>4. ClientOK'
  <2>1. /\ srvOpen' \in BOOLEAN /\ connected' \in BOOLEAN /\ ferr' \in BOOLEAN
        /\ reconnectNeeded' \in BOOLEAN /\ partial' \in Ids
    <3>1. CASE reconnectNeeded
      BY <3>1 DEF Ids
    <3>2. CASE ~reconnectNeeded
      BY <3>2 DEF ClientOK
    <3> QED  BY <3>1, <3>2
  <2>2. cur' <= MaxCalls
    BY <1>1, <1>2
  <2> QED  BY <2>1, <2>2, <1>2 DEF ClientOK
<1>5. ToolOK'
  BY DEF ToolOK
<1>6. CallInv'
  BY DEF CallInv
<1>7. PhaseInv'
  BY DEF PhaseInv
<1>8. ChainInv'
  BY <1>1, <1>2 DEF ChainInv, Begun
<1>9. LinesInv'
  <2>1. Returned' = Returned
    BY <1>1, <1>2 DEF Returned
  <2> QED  BY <2>1, <1>2 DEF LinesInv, HasLine
<1>10. StopInv'
  BY DEF StopInv
<1>11. StopIsClean'
  BY <1>1, <1>2 DEF StopIsClean, StopInv, ToolOK
<1> QED  BY <1>3, <1>4, <1>5, <1>6, <1>7, <1>8,
   <1>9, <1>10, <1>11, Frame DEF told

\* What a timed-out call left is forgotten: the invariant is kept.
LEMMA DrainStep ==
  ASSUME IInv, wpc = "running", Drain, UNCHANGED cltVars PROVE IInv'
<1> USE DEF IInv, TypeOK, Drain, Forget
<1>1. rx' \in {rx, <<>>} /\ ready' \in {ready, <<>>}
  OBVIOUS
<1>2. NetOK'
  BY <1>1, EmptySeq DEF NetOK
<1>3. ClientOK'
  BY DEF ClientOK, Ids
<1>4. CallInv'
  BY DEF CallInv
<1> QED  BY <1>2, <1>3, <1>4, Frame DEF told

\* A request is sent, or not: the invariant is kept.
LEMMA SendStep ==
  ASSUME IInv, wpc = "running", Send, UNCHANGED cltVars PROVE IInv'
<1> USE DEF IInv, TypeOK, Send
<1>1. cur \in Calls
  BY DEF ClientOK, ChainInv, Calls
<1>2. UNCHANGED told
  BY DEF told
<1>3. requests' \in {requests, Append(requests, cur)}
  OBVIOUS
<1>4. Append(requests, cur) \in Seq(Calls)
  BY <1>1, AppendProperties DEF NetOK
<1>5. NetOK'
  BY <1>3, <1>4 DEF NetOK
<1>6. ClientOK'
  BY DEF ClientOK
<1>7. CallInv'
  BY DEF CallInv
<1>8. AnswersAreOwn'
  BY <1>2 DEF AnswersAreOwn
<1> QED  BY <1>5, <1>6, <1>7, <1>8, Frame DEF told

\* A message is skipped or used: the invariant is kept.
LEMMA TakeMessageStep ==
  ASSUME IInv, wpc = "running", TakeMessage, UNCHANGED cltVars PROVE IInv'
<1> USE DEF IInv, TypeOK, TakeMessage, Match, Return, Usable, Failed,
            NoResult
<1>1. PICK m : m = Head(ready)
  OBVIOUS
<1>2. m \in Messages /\ cur \in Nat
  BY <1>1 DEF NetOK, ClientOK
<1>3. /\ m.call \in Ids /\ m.id \in Ids /\ m.err \in BOOLEAN
      /\ m.id \in {0, m.call}
  BY <1>2 DEF Messages, Ids
<1>4. \/ UNCHANGED <<pc, result>>
      \/ /\ pc' = "idle" /\ m.id \in {0, cur}
         /\ \/ result' = [call |-> cur, ok |-> FALSE, of |-> 0, id |-> 0,
                          err |-> FALSE]
            \/ /\ ~reconnectNeeded
               /\ result' = [call |-> cur, ok |-> TRUE, of |-> m.call,
                             id |-> m.id, err |-> m.err]
  BY <1>1
<1>5. /\ pc' \in {pc, "idle"}
      /\ result' \in [call : Nat, ok : BOOLEAN, of : Ids, id : Ids,
                      err : BOOLEAN]
  <2>1. CASE UNCHANGED <<pc, result>>
    BY <2>1 DEF ClientOK
  <2>2. CASE result' = [call |-> cur, ok |-> FALSE, of |-> 0, id |-> 0,
                        err |-> FALSE]
    BY <2>2, <1>2, <1>4 DEF Ids
  <2>3. CASE result' = [call |-> cur, ok |-> TRUE, of |-> m.call,
                        id |-> m.id, err |-> m.err]
    BY <2>3, <1>2, <1>3, <1>4
  <2> QED  BY <2>1, <2>2, <2>3, <1>4
<1>6. NetOK'
  BY DEF NetOK
<1>7. ClientOK'
  BY <1>5 DEF ClientOK
<1>8. CallInv'
  BY <1>3, <1>4 DEF CallInv
<1> QED  BY <1>6, <1>7, <1>8, Frame DEF told

\* Half an answer is received: the invariant is kept.
LEMMA ReceiveStep ==
  ASSUME IInv, wpc = "running", Receive, UNCHANGED cltVars PROVE IInv'
<1> USE DEF IInv, TypeOK, Receive
<1>1. PICK h : h = Head(rx)
  OBVIOUS
<1>2. h \in Halves /\ rx' \in Seq(Halves)
  BY <1>1 DEF NetOK
<1>3. /\ h.call \in Calls /\ h.id \in Ids /\ h.err \in BOOLEAN
      /\ h.id \in {0, h.call}
  BY <1>2 DEF Halves
<1>4. PICK m, n : /\ m = [call |-> h.call, id |-> h.id, err |-> h.err]
                  /\ n = [call |-> h.call, id |-> 0, err |-> h.err]
  OBVIOUS
<1>5. m \in Messages /\ n \in Messages
  BY <1>3, <1>4 DEF Messages, Ids
<1>6. /\ ferr' \in {ferr, TRUE} /\ partial' \in {h.call, 0}
      /\ ready' \in {ready, <<>>, <<m>>, <<n>>}
  BY <1>1, <1>4
<1>7. <<m>> \in Seq(Messages) /\ <<n>> \in Seq(Messages)
  BY <1>5
<1>8. ready' \in Seq(Messages)
  BY <1>6, <1>7, EmptySeq DEF NetOK
<1>9. NetOK'
  BY <1>2, <1>8 DEF NetOK
<1>10. ClientOK'
  BY <1>3, <1>6 DEF ClientOK, Ids
<1> QED  BY <1>9, <1>10, Frame DEF told

\* The connection is given up: the invariant is kept.
LEMMA PeerGoneStep ==
  ASSUME IInv, wpc = "running", PeerGone, UNCHANGED cltVars PROVE IInv'
<1> USE DEF IInv, TypeOK, PeerGone, Return, Failed, NoResult
<1>1. /\ result' = [call |-> cur, ok |-> FALSE, of |-> 0, id |-> 0,
                    err |-> FALSE]
      /\ cur \in Nat
  BY DEF ClientOK
<1>2. ClientOK'
  BY <1>1 DEF ClientOK, Ids
<1>3. CallInv'
  BY <1>1 DEF CallInv
<1> QED  BY <1>2, <1>3, Frame DEF told

\* The call times out: the invariant is kept.
LEMMA TimeoutStep ==
  ASSUME IInv, wpc = "running", Timeout, UNCHANGED cltVars PROVE IInv'
<1> USE DEF IInv, TypeOK, Timeout, Return, Failed, NoResult
<1>1. /\ result' = [call |-> cur, ok |-> FALSE, of |-> 0, id |-> 0,
                    err |-> FALSE]
      /\ cur \in Nat
  BY DEF ClientOK
<1>2. ClientOK'
  BY <1>1 DEF ClientOK, Ids
<1>3. CallInv'
  BY <1>1 DEF CallInv
<1> QED  BY <1>2, <1>3, Frame DEF told

\* The outcome of a call becomes a line: the invariant is kept.
LEMMA CallReturnsStep ==
  ASSUME IInv, CallReturns PROVE IInv'
<1> USE DEF IInv, TypeOK, CallReturns
<1>1. /\ Len(cmds) \in Nat /\ cur \in Nat /\ left \in Seq(Nat)
      /\ Len(left) \in Nat
  BY DEF ChainsOK, ClientOK
<1>2. /\ running /\ cur # 0 /\ taken = cur /\ mpc # "parse" /\ mpc # "end"
      /\ left = [k \in 1..(Len(cmds) - cur) |-> cur + k]
  BY <1>1 DEF PhaseInv, ChainInv, Begun
<1>3. taken \notin Elements(left)
  BY <1>1, <1>2 DEF Elements
<1>4. PICK l : l = [cmd |-> taken, ok |-> result.ok, of |-> result.of,
                    id |-> result.id]
  OBVIOUS
<1>5. /\ l \in Lines /\ l.cmd = cur
      /\ l.ok => (l.of = l.cmd \/ l.id = 0) /\ l.cmd \in sent
  BY <1>1, <1>2, <1>4 DEF ClientOK, CallInv, Lines
<1>6. \/ out' = Append(out, l)
      \/ out' = out /\ cmds[cur].type = "info"
  BY <1>4, <1>5 DEF Report
<1>7. \/ /\ told \in Seq(Lines) /\ told' = Append(told, l)
         /\ Elements(told') = Elements(told) \union {l}
      \/ told' = told /\ cmds[cur].type = "info"
  BY <1>5, <1>6, MoreLines DEF told
<1>8. Returned = cur - 1 /\ Returned' = cur
  BY DEF Returned
<1>9. ChainsOK'
  <2>1. Append(out, l) \in Seq(Lines)
    BY <1>5, AppendProperties DEF ChainsOK
  <2> QED  BY <2>1, <1>6 DEF ChainsOK
<1>10. ToolOK'
  BY DEF ToolOK
<1>11. CallInv'
  BY DEF CallInv
<1>12. PhaseInv'
  BY <1>2 DEF PhaseInv
<1>13. ChainInv'
  BY <1>1, <1>2 DEF ChainInv, Begun
<1>14. LinesInv'
  <2>1. \A l1 \in Elements(told) : l1.cmd <= cur - 1
    BY <1>8 DEF LinesInv
  <2>2. told \in Seq(Lines)
    BY ConcatProperties DEF ChainsOK, told
  <2>3. \A l1 \in Elements(told) : l1.cmd \in Nat
    <3>1. \A k \in DOMAIN told : told[k] \in Lines
      BY <2>2
    <3> QED  BY <3>1 DEF Elements, Lines
  <2>4. \A l1 \in Elements(told') : l1.cmd <= cur
    BY <1>1, <1>5, <1>7, <2>1, <2>3
  <2>5. ASSUME NEW c \in 1..cur PROVE HasLine(c)'
    <3>1. CASE c = cur
      BY <3>1, <1>5, <1>7 DEF HasLine
    <3>2. CASE c # cur
      <4>1. c \in 1..(cur - 1) /\ Elements(told) \subseteq Elements(told')
        BY <3>2, <1>1, <1>7
      <4>2. HasLine(c)
        BY <4>1, <1>2, <1>8 DEF LinesInv
      <4> QED  BY <4>1, <4>2 DEF HasLine
    <3> QED  BY <3>1, <3>2
  <2> QED  BY <2>4, <2>5, <1>8 DEF LinesInv
<1>15. StopInv'
  BY DEF StopInv
<1>16. AnswersAreOwn'
  BY <1>5, <1>7 DEF AnswersAreOwn
<1>17. Reported'
  <2>1. told \in Seq(Lines) /\ Len(told) \in Nat /\ DOMAIN told = 1..Len(told)
    BY ConcatProperties DEF ChainsOK, told
  <2>2. \A k \in DOMAIN told : told[k].cmd \in Nat /\ told[k].cmd < cur
    <3>1. ASSUME NEW k \in DOMAIN told PROVE told[k].cmd \in Nat
      <4>1. told[k] \in Lines
        BY <2>1
      <4> QED  BY <4>1 DEF Lines
    <3>2. \A k \in DOMAIN told : told[k].cmd <= cur - 1
      BY <1>8 DEF LinesInv, Elements
    <3> QED  BY <3>1, <3>2, <1>1
  <2>3. CASE told' = told
    BY <2>3, <1>2 DEF Reported, InOrder
  <2>4. CASE told' = Append(told, l)
    <3>1. /\ DOMAIN told' = 1..(Len(told) + 1)
          /\ \A k \in 1..Len(told) : told'[k] = told[k]
          /\ told'[Len(told) + 1] = l
      BY <2>1, <2>4, <1>5
    <3>2. InOrder'
      BY <2>1, <2>2, <3>1, <1>5 DEF Reported, InOrder
    <3> QED  BY <3>2, <1>2 DEF Reported
  <2> QED  BY <2>3, <2>4, <1>7
<1>18. StopIsClean'
  BY <1>2, <1>3 DEF StopIsClean
<1> QED  BY <1>9, <1>10, <1>11, <1>12, <1>13,
   <1>14, <1>15, <1>16, <1>17, <1>18,
   Frame DEF told

\* The server answers: the invariant is kept.
LEMMA AnswerStep ==
  ASSUME IInv, Answer, UNCHANGED cltVars PROVE IInv'
<1> USE DEF IInv, TypeOK, Answer
<1>1. Head(requests) \in Calls /\ Tail(requests) \in Seq(Calls)
  BY DEF NetOK
<1>2. PICK call \in Calls, err \in BOOLEAN, id \in {0} \union Calls :
        /\ id \in {0, call}
        /\ flight' = flight \o
             <<[call |-> call, err |-> err, half |-> 1, id |-> id],
               [call |-> call, err |-> err, half |-> 2, id |-> id]>>
  BY <1>1
<1>3. PICK a, b : /\ a = [call |-> call, err |-> err, half |-> 1, id |-> id]
                  /\ b = [call |-> call, err |-> err, half |-> 2, id |-> id]
  OBVIOUS
<1>4. a \in Halves /\ b \in Halves
  BY <1>1, <1>2, <1>3 DEF Halves, Ids
<1>5. flight' = flight \o <<a, b>> /\ <<a, b>> \in Seq(Halves)
  BY <1>2, <1>3, <1>4
<1>6. flight' \in Seq(Halves)
  BY <1>5, ConcatProperties DEF NetOK
<1>7. NetOK'
  BY <1>1, <1>6 DEF NetOK
<1> QED  BY <1>7, Frame DEF told

\* Half an answer arrives: the invariant is kept.
LEMMA DeliverStep ==
  ASSUME IInv, Deliver, UNCHANGED cltVars PROVE IInv'
<1> USE DEF IInv, TypeOK, Deliver
<1>1. NetOK'
  BY DEF NetOK
<1> QED  BY <1>1, Frame DEF told

\* The server closes the connection: the invariant is kept.
LEMMA ServerClosesStep ==
  ASSUME IInv, ServerCloses, UNCHANGED cltVars PROVE IInv'
<1> USE DEF IInv, TypeOK, ServerCloses
<1>1. requests' \in Seq(Calls)
  BY EmptySeq
<1>2. NetOK'
  BY <1>1 DEF NetOK
<1>3. ClientOK'
  BY DEF ClientOK
<1> QED  BY <1>2, <1>3, Frame DEF told
-----------------------------------------------------------------------------
\* The tool starts with an empty chain and a fresh connection.
LEMMA InitEstablishes ==
  ASSUME CltInit PROVE IInv
<1> USE DEF CltInit, Init
<1>1. NetOK /\ ChainsOK
  BY EmptySeq DEF NetOK, ChainsOK
<1>2. ClientOK /\ ToolOK
  <2>1. result \in [call : Nat, ok : BOOLEAN, of : Ids, id : Ids,
                    err : BOOLEAN]
    BY DEF NoResult, Ids
  <2>2. ClientOK
    <3>1. partial \in Ids /\ cur \in Nat /\ cur <= MaxCalls /\ sent \subseteq Nat
      BY DEF Ids
    <3> QED  BY <2>1, <3>1 DEF ClientOK
  <2>3. ToolOK
    BY DEF ToolOK
  <2> QED  BY <2>2, <2>3
<1>3. CallInv /\ PhaseInv /\ ChainInv /\ StopInv
  BY DEF CallInv, PhaseInv, ChainInv, Begun, StopInv
<1>4. told = <<>>
  BY DEF told
<1>5. Elements(told) = {} /\ Elements(left) = {} /\ DOMAIN told = {}
  BY <1>4 DEF Elements
<1>6. LinesInv /\ AnswersAreOwn
  BY <1>5 DEF LinesInv, Returned, AnswersAreOwn
<1>7. Reported /\ StopIsClean
  BY <1>5 DEF Reported, InOrder, StopIsClean
<1> QED  BY <1>1, <1>2, <1>3, <1>6, <1>7 DEF IInv, TypeOK

\* The main thread keeps the invariant, ...
LEMMA MainStep ==
  ASSUME IInv, Main PROVE IInv'
BY ParseReturnsStep, RunCommandsStep, WaitStep, PrintLinesStep, StopStep,
   JoinStep, DeleteStep DEF Main

\* ... and so does the worker, inside a call ...
LEMMA ClientStepStep ==
  ASSUME IInv, ClientStep PROVE IInv'
BY DrainStep, SendStep, TakeMessageStep, ReceiveStep, PeerGoneStep,
   TimeoutStep DEF ClientStep

\* ... and between two.
LEMMA WorkerStep ==
  ASSUME IInv, Worker PROVE IInv'
BY ConnectStep, TakeCommandStep, LookAtStopStep, StartCallStep,
   ClientStepStep, CallReturnsStep DEF Worker

\* A step of either thread, of the server or of the network keeps the
\* invariant.
LEMMA NextStep ==
  ASSUME IInv, [CltNext]_allVars PROVE IInv'
<1>1. CASE ParseOption
  BY <1>1, ParseOptionStep
<1>2. CASE Main \/ Worker
  BY <1>2, MainStep, WorkerStep
<1>3. CASE Network
  BY <1>3, AnswerStep, DeliverStep, ServerClosesStep DEF Network
<1>4. CASE UNCHANGED allVars
  BY <1>4, Frame DEF allVars, told, IInv, TypeOK
<1> QED  BY <1>1, <1>2, <1>3, <1>4 DEF CltNext

\* The inductive invariant holds in every reachable state: answers carry the id
\* of their call, the worker is where the chain and the call counter say, and
\* the lines are those of the calls that returned.
THEOREM Safety == CltSpec => []IInv
<1>1. CltInit => IInv
  BY InitEstablishes
<1>2. IInv /\ [CltNext]_allVars => IInv'
  BY NextStep
<1> QED  BY <1>1, <1>2, PTL DEF CltSpec

\* receive_response() never shows a late answer as another command's, however
\* many calls timed out before, wherever TCP split the answers and whatever the
\* server still sends: the ids and the drain before each request are enough.
THEOREM EveryAnswerIsOwn == CltSpec => []AnswersAreOwn
<1>1. IInv => AnswersAreOwn
  BY DEF IInv
<1> QED  BY <1>1, Safety, PTL

\* The lines come in the order of the options, and when the main thread neither
\* gave up waiting nor was without a server, every command has been printed.
THEOREM EveryCommandIsReported == CltSpec => []Reported
<1>1. IInv => Reported
  BY DEF IInv
<1> QED  BY <1>1, Safety, PTL

\* Wherever the stop request finds the worker, at most one more command is run,
\* and every command of its chain is deleted exactly once.
THEOREM StopIsAlwaysClean == CltSpec => []StopIsClean
<1>1. IInv => StopIsClean
  BY DEF IInv
<1> QED  BY <1>1, Safety, PTL
=============================================================================
