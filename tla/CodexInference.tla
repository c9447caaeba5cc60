--------------------------- MODULE CodexInference ---------------------------
(***************************************************************************)
(* One inference of CodexAccountMultimodalProvider: it spawns a Codex App  *)
(* Server, makes four requests on its stdio, and then listens to           *)
(* notifications until the turn has its answer and its token usage.        *)
(*                                                                         *)
(* Lines arrive in order, several of them perhaps in one chunk: what the   *)
(* inference awaits is settled first, and it continues when they are all   *)
(* handled.  The App Server is the environment.                            *)
(***************************************************************************)
EXTENDS Naturals, Sequences

\* What the App Server may write from turn/start on: "reply" to that request, agent
\* messages ("answer" is the last, "draft" another), "usage", the end of the turn
\* ("completed", "summarised" with its messages, "failed"), an "error", and "other"
\* notifications: of other threads and turns, or an error it will retry after.
CONSTANT Turns

Lines == {"reply", "draft", "answer", "usage", "completed", "summarised", "failed",
          "error", "other"}

\* A turn ends after its messages, and the last one of them is the answer.
Ordered(t) == \A i, k \in DOMAIN t :
  t[i] = "draft" /\ t[k] = "completed" => \E j \in i + 1 .. k - 1 : t[j] = "answer"

ASSUME InferenceConstants == \A t \in Turns : t \in Seq(Lines) /\ Ordered(t)

VARIABLES step,       \* the request it awaits, "listening", "answered" or "failed"
          turn, sent, \* what the server writes, and how many lines it has written
          granted,    \* the promise of turn/start is resolved
          queue,      \* #notifications
          waiter,     \* "none", "waiting", or the line its promise is resolved with
          said,       \* assistantText
          usage, completed,   \* usage is set, turnCompleted
          server,     \* "none", "running", "gone"; "orphaned": nobody will close it
          image       \* the temporary file exists

heard == <<queue, waiter, said, usage, completed>>
inferenceVars == <<step, turn, sent, granted, heard, server, image>>

Requests == <<"initialize", "model/list", "thread/start", "turn/start">>
Asking == {Requests[i] : i \in DOMAIN Requests}

InferenceInit ==
  /\ step = "idle" /\ turn = <<>> /\ sent = 0 /\ granted = FALSE
  /\ queue = <<>> /\ waiter = "none" /\ said = "none" /\ usage = FALSE /\ completed = FALSE
  /\ server = "none" /\ image = FALSE

\* finally: close() kills the server, and the file is removed.
Ends(outcome) ==
  /\ step' = outcome /\ server' = "gone" /\ image' = FALSE

----------------------------------------------------------------------------
(* The requests.                                                           *)

Infers ==
  /\ step = "idle"
  /\ step' = Requests[1] /\ server' = "running" /\ image' = TRUE
  /\ turn' \in Turns
  /\ UNCHANGED <<sent, granted, heard>>

\* There is no executable or no image; or the image cannot be written, after the server
\* was spawned and before the try.
DoesNotStart ==
  /\ step = "idle"
  /\ step' = "failed" /\ server' \in {server, "orphaned"}
  /\ UNCHANGED <<turn, sent, granted, heard, image>>

Responds ==
  /\ server = "running"
  /\ \E i \in 1 .. Len(Requests) - 1 : step = Requests[i] /\ step' = Requests[i + 1]
  /\ UNCHANGED <<turn, sent, granted, heard, server, image>>

\* None of the models listed takes images, or not the one that is configured.
SelectsNone ==
  /\ step = "model/list"
  /\ Ends("failed")
  /\ UNCHANGED <<turn, sent, granted, heard>>

\* An error, an answer without an id, or a timeout.
Refused ==
  /\ step \in Asking /\ ~granted
  /\ Ends("failed")
  /\ UNCHANGED <<turn, sent, granted, heard>>

----------------------------------------------------------------------------
(* Notifications.                                                          *)

\* Mutant of Hears: a notification nobody waits for is dropped.
HearsWaiting(line) ==
  /\ waiter' = IF waiter = "waiting" THEN line ELSE waiter
  /\ queue' = queue

\* #onLine: the waiter has it, or it is kept.
Hears(line) ==
  /\ waiter' = IF waiter = "waiting" THEN line ELSE waiter
  /\ queue' = IF waiter = "waiting" THEN queue ELSE Append(queue, line)

Writes ==
  /\ server = "running" /\ step \in {"turn/start", "listening"} /\ sent < Len(turn)
  /\ sent' = sent + 1
  /\ IF turn[sent + 1] = "reply" THEN granted' = TRUE /\ UNCHANGED <<queue, waiter>>
     ELSE granted' = granted /\ Hears(turn[sent + 1])
  /\ UNCHANGED <<step, turn, said, usage, completed, server, image>>

NextNotification ==
  IF queue = <<>> THEN waiter' = "waiting" /\ queue' = queue
  ELSE waiter' = Head(queue) /\ queue' = Tail(queue)

Listens ==
  /\ step = "turn/start" /\ granted
  /\ step' = "listening" /\ NextNotification
  /\ UNCHANGED <<turn, sent, granted, said, usage, completed, server, image>>

\* find() takes the first agent message of those listed with the end of the turn.
Listed == SelectSeq(turn, LAMBDA line : line \in {"draft", "answer"})[1]

\* A usage counts when none of its five numbers is missing; else it is an "other" line.
Measures(line) == line = "usage"

\* A notification of the turn is looked at.  Then the answer is complete, the deadline
\* of the inference has passed, or it listens on.
Takes ==
  /\ step = "listening" /\ waiter \notin {"none", "waiting"}
  /\ said' = CASE waiter \in {"draft", "answer"} -> waiter
               [] waiter = "summarised" -> Listed
               [] OTHER -> said
  /\ usage' = (usage \/ Measures(waiter))
  /\ completed' = (completed \/ waiter \in {"completed", "summarised"})
  /\ IF waiter \in {"failed", "error"} THEN Ends("failed") /\ UNCHANGED <<queue, waiter>>
     ELSE IF said' # "none" /\ completed' /\ usage'
     THEN Ends("answered") /\ UNCHANGED <<queue, waiter>>
     ELSE \/ /\ Ends(IF said' = "none" THEN "failed" ELSE "answered")
             /\ UNCHANGED <<queue, waiter>>
          \/ NextNotification /\ UNCHANGED <<step, server, image>>
  /\ UNCHANGED <<turn, sent, granted>>

\* Waiting is over: an answer whose turn is complete is given without its usage.
GivesUp == Ends(IF said # "none" /\ completed THEN "answered" ELSE "failed")

\* The deadline, or 1.5 s after the end of the turn.
Expires ==
  /\ step = "listening" /\ waiter = "waiting"
  /\ GivesUp
  /\ UNCHANGED <<turn, sent, granted, heard>>

\* #failAll rejects what is awaited, and only that: what is asked for or waited for
\* later waits for its timeout.
Exits ==
  /\ server = "running"
  /\ CASE step \in Asking /\ ~granted -> Ends("failed")
       [] step = "listening" /\ waiter = "waiting" -> GivesUp
       [] OTHER -> server' = "gone" /\ UNCHANGED <<step, image>>
  /\ UNCHANGED <<turn, sent, granted, heard>>

----------------------------------------------------------------------------
InferenceNext ==
  \/ Infers \/ DoesNotStart \/ Responds \/ SelectsNone \/ Refused
  \/ Writes \/ Listens \/ Takes \/ Expires \/ Exits

\* The answer of a turn that was completed is its last agent message, whatever of it was
\* written before the reply to turn/start or in one chunk.  Excepted are turns whose end
\* lists their messages, of which find() takes the first; and every draft of a turn is
\* followed by its answer (Ordered).
AnswerIsFinal ==
  step = "answered" /\ completed => said = "answer" \/ \E i \in 1 .. sent : turn[i] = "summarised"
=============================================================================
