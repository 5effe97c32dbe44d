--------------------------------- MODULE Shell ---------------------------------
(***************************************************************************)
(* The shell of os_service.c: an interrupt service routine that edits a    *)
(* line and posts it, the software interrupt that puts posted lines into   *)
(* the message queue, and the task that runs them and keeps a history.     *)
(* The routine posts the address of one static copy of the line, so the    *)
(* line is read when the post is published.  The history list is a         *)
(* sequence of lines; a pointer to a node is its index, 0 for the list's   *)
(* head.                                                                   *)
(***************************************************************************)
EXTENDS Integers, FiniteSetsExt, SequencesExt

CONSTANTS Lines,      \* the lines, sequences of characters, that a user types
          Commands,   \* the names in the command table
          ClearCmd,   \* "clearcmd", which clears the history
          BufSize,    \* OS_SERVICE_FISH_MSG_MAX_SIZE
          ArgMax,     \* OS_SERVICE_FISH_ARG_MAX
          ListCap,    \* OS_SERVICE_FISH_MSG_LIST_CAP
          QueueCap,   \* the capacity of __os_fish_inp_mq, 5
          Blank, Nul, \* ' ' and '\0'
          Freed,      \* the address of a node that has been freed
          Patient     \* the user waits for the shell, as ArrowsAllowed and
                      \* EnterAllowed say

VARIABLES input,      \* input_buffer
          cache,      \* tmp_input_cache
          keys,       \* combination_keys, up to combination_keys_index
          posts,      \* external: calls posted and not published
          queue,      \* __os_fish_inp_mq
          task,       \* where __kthread_terminal is
          line,       \* *_inp
          history,    \* __os_service_tin_list
          tail,       \* __os_service_tin_list_tail
          entered,    \* history variable: lines entered and not yet run
          kept        \* history variable: the last lines that were commands
isrVars == <<input, cache, keys>>
taskVars == <<task, line, history, kept>>
shellVars == <<isrVars, posts, queue, taskVars, tail, entered>>

Chars == UNION {ToSet(l) : l \in Lines}
Line == [data : [1..BufSize -> Chars \cup {Nul}], size : 0..BufSize]

ASSUME ShellAssumption ==
  /\ BufSize \in Nat \ {0} /\ ArgMax \in Nat \ {0} /\ ListCap \in Nat \ {0}
  /\ QueueCap \in Nat \ {0} /\ Patient \in BOOLEAN
  /\ ClearCmd \in Commands /\ Nul \notin Chars /\ Freed \notin Nat
  /\ \A l \in Lines : l \in Seq(Chars) /\ Len(l) < BufSize

ShellTypeOK ==
  /\ input \in Line /\ cache \in Line /\ line \in Line
  /\ keys \in Seq({"ESC", "[", "A", "B", "C"})
  /\ posts \in Nat /\ queue \in Seq(Line) /\ Len(queue) <= QueueCap
  /\ task \in {"receive", "exec", "full", "add"}
  /\ history \in Seq(Line) /\ Len(history) <= ListCap
  /\ tail \in 0..ListCap \cup {Freed}
  /\ entered \in Seq(Seq(Chars)) /\ kept \in Seq(Seq(Chars))

EmptyLine == [data |-> [i \in 1..BufSize |-> Nul], size |-> 0]

\* The state after os_service_init.
ShellInit ==
  /\ input = EmptyLine /\ cache = EmptyLine /\ line = EmptyLine
  /\ keys = <<>> /\ posts = 0 /\ queue = <<>>
  /\ task = "receive" /\ history = <<>> /\ tail = 0
  /\ entered = <<>> /\ kept = <<>>

\* What a line looks like on the screen.
Text(l) == [i \in 1..l.size |-> l.data[i]]

-----------------------------------------------------------------------------
(* os_exec_cmd.                                                            *)

\* The string that starts at place i of the data.
StringAt(data, i) ==
  LET ends == {j \in i..BufSize : data[j] = Nul}
  IN SubSeq(data, i, IF ends = {} THEN BufSize ELSE Min(ends) - 1)

\* The number of blanks the command begins with; they are skipped.
Leading(data) ==
  LET others == {i \in 1..BufSize : data[i] # Blank}
  IN IF others = {} THEN BufSize ELSE Min(others) - 1

\* Mutant: a word ends only at the end of the line.
CutNever(l) == l.data

\* __os_split_cmd puts an end to every word of the line.
Cut(l) == [i \in 1..BufSize |->
             IF Leading(l.data) < i /\ i <= l.size /\ l.data[i] = Blank THEN Nul
             ELSE l.data[i]]

\* The places where the words of the line begin.
Starts(l) ==
  {i \in (Leading(l.data) + 1)..l.size :
     /\ l.data[i] # Blank
     /\ i = Leading(l.data) + 1 \/ l.data[i - 1] = Blank}

\* The members of a set of numbers, the smallest first.
InOrder(S) ==
  [n \in 1..Cardinality(S) |-> CHOOSE x \in S : Cardinality({y \in S : y <= x}) = n]

\* The words that are found; none when there are too many of them.
__os_split_cmd(l) ==
  LET starts == InOrder(Starts(l))
  IN IF Len(starts) >= ArgMax THEN <<>>
     ELSE [i \in DOMAIN starts |-> StringAt(Cut(l), starts[i])]

\* The command and the arguments it is called with, <<>> when there is none.
os_exec_cmd(l) ==
  LET argv == __os_split_cmd(l)
  IN IF argv # <<>> /\ argv[1] \in Commands THEN argv ELSE <<>>

\* Mutant: the ends of the words are left in the line.
RestoredNot(l) == [l EXCEPT !.data = Cut(l)]

\* The line as it is after the command has run: with blanks for ends again.
Restored(l) ==
  [l EXCEPT !.data = [i \in 1..BufSize |->
     IF Leading(l.data) < i /\ i <= l.size /\ Cut(l)[i] = Nul THEN Blank ELSE Cut(l)[i]]]

-----------------------------------------------------------------------------
(* The interrupt service routine, for one key.                             *)

\* No command runs, and none that ran is about to be put into the history.
BetweenCommands == task \in {"receive", "exec"}

\* The user types parts of the lines; he does not press an arrow from the moment a
\* command runs until it is in the history, or one that clears a line and leaves
\* its characters behind.  Lines may be on their way to the task meanwhile.
Recalls(arrow) ==
  \/ arrow = "A" /\ tail # 0
  \/ arrow = "B" /\ tail # Len(history)
ArrowsAllowed(arrow) ==
  Patient => BetweenCommands /\ (input = EmptyLine \/ Recalls(arrow))
EnterAllowed == Patient => posts = 0 /\ Len(queue) < QueueCap

Escape ==
  /\ \E arrow \in {"A", "B", "C"} : ArrowsAllowed(arrow)
  /\ keys' = <<"ESC">>
  /\ UNCHANGED <<input, cache, posts, queue, taskVars, tail, entered>>

\* The second key of a combination, in time.
Bracket ==
  /\ keys = <<"ESC">>
  /\ keys' = <<"ESC", "[">>
  /\ UNCHANGED <<input, cache, posts, queue, taskVars, tail, entered>>

\* os_fish_clear_input_buffer, whether or not the screen is cleared: the
\* characters stay in the buffer.
os_fish_clear_input_buffer == [input EXCEPT !.size = 0]

\* The node beside the one that is pointed to, and the line of a node: there is
\* nothing to be had from a node that has been freed.
Beside(i, step) == IF i = Freed THEN Freed ELSE i + step
LineAt(i) == IF i \in DOMAIN history THEN history[i] ELSE EmptyLine

\* The third key: an arrow.
ArrowUp ==
  /\ keys = <<"ESC", "[">> /\ ArrowsAllowed("A")
  /\ keys' = <<>>
  /\ IF tail = 0 THEN input' = os_fish_clear_input_buffer /\ UNCHANGED tail
     ELSE input' = LineAt(tail) /\ tail' = Beside(tail, -1)
  /\ UNCHANGED <<cache, posts, queue, taskVars, entered>>

ArrowDown ==
  /\ keys = <<"ESC", "[">> /\ ArrowsAllowed("B")
  /\ keys' = <<>>
  /\ IF tail = Len(history) THEN input' = os_fish_clear_input_buffer /\ UNCHANGED tail
     ELSE input' = LineAt(Beside(tail, 1)) /\ tail' = Beside(tail, 1)
  /\ UNCHANGED <<cache, posts, queue, taskVars, entered>>

ArrowAside ==
  /\ keys = <<"ESC", "[">> /\ ArrowsAllowed("C")
  /\ keys' = <<>> /\ input' = os_fish_clear_input_buffer
  /\ UNCHANGED <<cache, posts, queue, taskVars, tail, entered>>

\* Mutant: only the length of the line is reset.
AfterEnterStale == [input EXCEPT !.size = 0]

AfterEnter == EmptyLine

\* Any other key ends a combination, when it comes too late to be part of it.
Enter ==
  /\ EnterAllowed
  /\ keys' = <<>> /\ cache' = input /\ input' = AfterEnter
  /\ posts' = posts + 1 /\ entered' = Append(entered, Text(input))
  /\ UNCHANGED <<queue, taskVars, tail>>

Delete ==
  /\ input.size > 0
  /\ keys' = <<>>
  /\ input' = [data |-> [input.data EXCEPT ![input.size] = Nul], size |-> input.size - 1]
  /\ UNCHANGED <<cache, posts, queue, taskVars, tail, entered>>

Type ==
  /\ \E c \in Chars :
       /\ \E l \in Lines : IsPrefix(Append(Text(input), c), l)
       /\ input' = [data |-> [input.data EXCEPT ![input.size + 1] = c],
                    size |-> input.size + 1]
  /\ keys' = <<>>
  /\ UNCHANGED <<cache, posts, queue, taskVars, tail, entered>>

Key == \/ Escape \/ Bracket \/ ArrowUp \/ ArrowDown \/ ArrowAside
       \/ Enter \/ Delete \/ Type

-----------------------------------------------------------------------------
(* The software interrupt and the task.                                    *)

\* __os_int_post_mqueue_send: the line is copied now; a full queue drops it.
Publish ==
  /\ posts > 0
  /\ posts' = posts - 1
  /\ queue' = IF Len(queue) < QueueCap THEN Append(queue, cache) ELSE queue
  /\ UNCHANGED <<isrVars, taskVars, tail, entered>>

Receive ==
  /\ task = "receive" /\ queue # <<>>
  /\ line' = Head(queue) /\ queue' = Tail(queue)
  /\ task' = "exec"
  /\ UNCHANGED <<isrVars, posts, history, kept, tail, entered>>

IsFull(lines) == Len(lines) >= ListCap

\* The end of a history variable, as long as the list may be.
LastOnes(s) == SubSeq(s, IF Len(s) > ListCap THEN Len(s) - ListCap + 1 ELSE 1, Len(s))

\* The command runs.  The pointer to the last line recalled is left alone when
\* the list is cleared.
Exec ==
  /\ task = "exec"
  /\ LET argv == os_exec_cmd(line)
         clear == argv # <<>> /\ argv[1] = ClearCmd
     IN /\ history' = IF clear THEN <<>> ELSE history
        /\ IF argv = <<>> THEN task' = "receive" /\ UNCHANGED <<line, kept>>
           ELSE /\ task' = IF IsFull(history') THEN "full" ELSE "add"
                /\ line' = Restored(line)
                /\ kept' = LastOnes(Append(IF clear THEN <<>> ELSE kept, Text(line)))
        /\ tail' = IF clear /\ tail # 0 THEN Freed ELSE tail
  /\ entered' = Tail(entered)
  /\ UNCHANGED <<isrVars, posts, queue>>

\* __tin_list_add_tail: the oldest line goes when the list is full.
DropFirst ==
  /\ task = "full" /\ task' = "add"
  /\ history' = Tail(history)
  /\ tail' = IF tail = 1 THEN Freed ELSE IF tail \in {0, Freed} THEN tail ELSE tail - 1
  /\ UNCHANGED <<isrVars, posts, queue, line, kept, entered>>

\* Mutant: recalling goes on where it was.
NewTailKept == tail

NewTail == Len(history) + 1

AddLast ==
  /\ task = "add" /\ task' = "receive"
  /\ history' = Append(history, line)
  /\ tail' = NewTail
  /\ UNCHANGED <<isrVars, posts, queue, line, kept, entered>>

Terminal == Receive \/ Exec \/ DropFirst \/ AddLast

ShellNext == Key \/ Publish \/ Terminal

ShellSpec == ShellInit /\ [][ShellNext]_shellVars

-----------------------------------------------------------------------------
(* What the shell owes its user.                                           *)

\* The words of a text, by what a word is: a part without blanks and with
\* blanks, or nothing, around it.
IsWord(text, i, j) ==
  /\ Blank \notin ToSet(SubSeq(text, i, j))
  /\ i = 1 \/ text[i - 1] = Blank
  /\ j = Len(text) \/ text[j + 1] = Blank
WordAt(text, i) == SubSeq(text, i, CHOOSE j \in i..Len(text) : IsWord(text, i, j))
Words(text) ==
  LET begins == {i \in DOMAIN text : \E j \in i..Len(text) : IsWord(text, i, j)}
  IN [n \in 1..Cardinality(begins) |-> WordAt(text, InOrder(begins)[n])]

Meant(text) ==
  LET w == Words(text)
  IN IF w # <<>> /\ Len(w) < ArgMax /\ w[1] \in Commands THEN w ELSE <<>>

\* The command that runs, with its arguments, is the line that was on the screen
\* when it was entered; lines run in the order of entering, each of them once.
RunsWhatWasEntered == task = "exec" => os_exec_cmd(line) = Meant(Head(entered))

\* The history holds the last commands, as they were entered, in their order.
HistoryKept ==
  BetweenCommands => [i \in DOMAIN history |-> Text(history[i])] = kept

\* An arrow key shows one of the commands kept, as it was entered, or clears the line
\* at an end of the history; it never follows the pointer to a line that has been
\* freed, whichever lines are on their way and whatever was dropped or cleared.
ArrowsFindLines ==
  [][/\ ArrowUp => IF tail = 0 THEN Text(input') = <<>>
                   ELSE tail \in DOMAIN kept /\ Text(input') = kept[tail]
     /\ ArrowDown => IF tail = Len(kept) THEN Text(input') = <<>>
                     ELSE /\ tail # Freed /\ tail + 1 \in DOMAIN kept
                          /\ Text(input') = kept[tail + 1]]_shellVars
=============================================================================
