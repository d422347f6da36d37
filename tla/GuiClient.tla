----------------------------- MODULE GuiClient -----------------------------
(***************************************************************************)
(* The graphical client (gui/src/client): the windows CController shows,   *)
(* the send thread that carries a request out (guithread.h), the pool      *)
(* thread that takes its answer for a verdict, and the waiting window that *)
(* polls the verdict (requestingwidget.cpp).                               *)
(*                                                                         *)
(* The GUI thread runs one slot at a time; every access of a slot to what  *)
(* the other threads have too is a step.  What becomes of a request is up  *)
(* to SendRecv and the server: it brings an answer, or none, or is too     *)
(* long and brings what is left of an earlier one.  Two requests at a      *)
(* time, of the send thread and of a logout, share one socket and one      *)
(* buffer; the answer of either is any answer here.                        *)
(***************************************************************************)
EXTENDS Naturals, Sequences

CONSTANTS
    Timeout,        \* m_timeoutMsec in intervals of the timer
    MaxNumber       \* bound

ASSUME GuiAssumption == Timeout \in Nat \ {0} /\ MaxNumber \in Nat

Form   == {"Login", "Register", "Verify"}
WaitingWindow ==
    [Login |-> "Logining", Register |-> "Registering", Verify |-> "Verifying"]
Waits  == {WaitingWindow[f] : f \in Form}

\* The buttons that lead from one window to another, and where success leads.
Switch   == {<<"Login", "Register">>, <<"Register", "Login">>,
             <<"Register", "Verify">>, <<"Verify", "Login">>}
Succeeds == [Login |-> "Main", Register |-> "Verify", Verify |-> "Main"]

\* An account comes with a note when it is logged in already.
Says   == {"yes", "no", "noted"}

VARIABLES
    screen,     \* the window that is shown
    gui,        \* where the slot the GUI thread runs is, "loop" between slots
    form,       \* what the last request was for
    n,          \* its number
    status,     \* s_requestStatus, of all waiting windows
    elapsed,    \* m_elapsedTimes of the one that waits
    func,       \* m_pfunc of the send thread, the request it is of; 0 is NULL
    args,       \* m_vecArgs, of each string the request it is of
    thread,     \* where the send thread is, "off" when it does not run
    sending,    \* the request it sends; 0 is one that nobody asked for
    arrived,    \* answers that wait for the pool thread: [n, says]
    remains,    \* what the buffers answers come in still say of earlier ones
    dead,       \* the process died
    answered,   \* history, what the server said to each request
    alone,      \* history: nothing of an earlier request was on its way
    toolong,    \* history: requests that were too long to be sent
    hasty,      \* history: a button was pressed while the send thread ran
    verdict     \* history: the last one, [n, status, alone]

window  == <<screen, gui, form, n>>
waiter  == <<status, elapsed>>
sender  == <<func, args, thread, sending>>
replies == <<arrived, remains>>
told    == <<answered, toolong>>
press   == <<alone, hasty>>
history == <<told, press, verdict>>
guiVars == <<window, waiter, sender, replies, dead, history>>

Numbers == 1 .. MaxNumber

GuiInit ==
    /\ screen = "Login" /\ gui = "loop" /\ form = "Login" /\ n = 0
    /\ status = "eRequesting" /\ elapsed = 0
    /\ func = 0 /\ args = <<>> /\ thread = "off" /\ sending = 0
    /\ arrived = <<>> /\ remains = {} /\ dead = FALSE
    /\ answered = [i \in 0 .. MaxNumber |-> {}] /\ toolong = {}
    /\ alone = FALSE /\ hasty = FALSE
    /\ verdict = [n |-> 0, status |-> "eTimeout", alone |-> FALSE]

InSlot(from, to) == ~dead /\ gui = from /\ gui' = to

-----------------------------------------------------------------------------
(* Slots of CController.                                                   *)

Show(to) ==
    /\ InSlot("loop", "loop")
    /\ <<screen, to>> \in Switch /\ screen' = to
    /\ UNCHANGED <<form, n, waiter, sender, replies, dead, history>>

\* The request button of a form: showLogining, showRegistering, showVerifying.
Click ==
    /\ InSlot("loop", "first") /\ screen \in Form /\ n < MaxNumber
    /\ screen' = WaitingWindow[screen] /\ form' = screen /\ n' = n + 1
    /\ alone' = (arrived = <<>> /\ thread = "off" /\ args = <<>>)
    /\ hasty' = (hasty \/ thread # "off")
    /\ UNCHANGED <<waiter, sender, replies, dead, told, verdict>>

\* setArgs appends one string, then the other, also to what a thread that still
\* runs has not cleared; in the middle of the clearing nobody knows what happens.
Push(from, to) ==
    /\ InSlot(from, to)
    /\ args' = Append(args, n)
    /\ dead' \in IF thread = "clear" THEN BOOLEAN ELSE {FALSE}
    /\ UNCHANGED <<screen, form, n, waiter, func, thread, sending, replies, history>>

SetArgs == Push("first", "second") \/ Push("second", "func")

\* Only then it sets the function.
SetFunc ==
    /\ InSlot("func", "start")
    /\ func' = n
    /\ UNCHANGED <<screen, form, n, waiter, args, thread, sending, replies, dead, history>>

\* QThread::start does nothing when the thread runs.
StartThread ==
    /\ InSlot("start", "begin")
    /\ thread' = IF thread = "off" THEN "test" ELSE thread
    /\ UNCHANGED <<screen, form, n, waiter, func, args, sending, replies, dead, history>>

\* A mutant of BeginRequest: the verdict on the last one stays.
BeginKeepsStatus ==
    /\ InSlot("begin", "loop")
    /\ status' = status /\ elapsed' = 0
    /\ UNCHANGED <<screen, form, n, sender, replies, dead, history>>
\* beginRequest comes when the request may have its verdict, which it forgets.
BeginRequest ==
    /\ InSlot("begin", "loop")
    /\ status' = "eRequesting" /\ elapsed' = 0
    /\ UNCHANGED <<screen, form, n, sender, replies, dead, history>>

\* A mutant of Tick: the time is not looked at.
TickUntimed ==
    /\ screen \in Waits
    /\ InSlot("loop", IF status = "eRequesting" THEN "loop" ELSE "eTimeout")
    /\ UNCHANGED <<screen, form, n, waiter, sender, replies, dead, history>>
\* updateProgressBar tests the status, which may change before it goes on.
Tick ==
    /\ screen \in Waits /\ elapsed' = elapsed + 1
    /\ InSlot("loop", CASE status # "eRequesting" -> "eTimeout"
                        [] elapsed' < Timeout     -> "loop"
                        [] OTHER                  -> "expire")
    /\ UNCHANGED <<screen, form, n, status, sender, replies, dead, history>>

\* A verdict that came since the test is lost.
Expire ==
    /\ InSlot("expire", "loop")
    /\ status' = "eTimeout"
    /\ UNCHANGED <<screen, form, n, elapsed, sender, replies, dead, history>>

\* endLogining, endRegistering and endVerifying get the status by reference:
\* each of their tests reads it anew.  When none is met, all windows are hidden
\* and none is shown.
Leave(test, s, to) ==
    /\ InSlot(test, "loop") /\ screen' = to
    /\ verdict' = [n |-> n, status |-> s, alone |-> alone]
    /\ UNCHANGED <<form, n, waiter, sender, replies, dead, told, press>>

Meets(test, to) == status = test /\ Leave(test, test, to)

Fails(test, next) ==
    /\ status # test /\ InSlot(test, next)
    /\ UNCHANGED <<screen, form, n, waiter, sender, replies, dead, history>>

End ==
    \/ Meets("eTimeout", form) \/ Fails("eTimeout", "eFail")
    \/ Meets("eFail", form) \/ Fails("eFail", "eSucceed")
    \/ Meets("eSucceed", Succeeds[form])
    \/ status # "eSucceed" /\ Leave("eSucceed", "none", "none")

\* What becomes of request i.  Either nothing is sent, or nothing comes back;
\* or the server says something to it, which may arrive; or it is too long: then
\* jxclient_sendrecv returns 1, and the header of the datagram before and one
\* byte are appended in front of what the buffer of the pool had: any of the
\* earlier answers, or nothing a react knows.
Carry(i) ==
    \/ UNCHANGED <<replies, told>>
    \/ \E says \in Says :
          /\ answered' = [answered EXCEPT ![i] = @ \union {says}]
          /\ \/ UNCHANGED replies
             \/ /\ arrived' = Append(arrived, [n |-> i, says |-> says])
                /\ remains' = remains \union {says}
          /\ UNCHANGED toolong
    \/ \E says \in remains \union {"nothing"} :
          /\ arrived' = Append(arrived, [n |-> i, says |-> says])
          /\ toolong' = toolong \union {i}
          /\ UNCHANGED <<remains, answered>>

\* logout carries its request out on the GUI thread.
Logout ==
    /\ InSlot("loop", "loop") /\ screen = "Main" /\ n < MaxNumber
    /\ n' = n + 1 /\ Carry(n + 1) /\ screen' = "Login"
    /\ UNCHANGED <<form, waiter, sender, dead, press, verdict>>

\* The window is closed: the controller goes, and with it its send thread,
\* which must not run.
Close ==
    /\ InSlot("loop", "closed")
    /\ dead' = (thread # "off")
    /\ UNCHANGED <<screen, form, n, waiter, sender, replies, history>>

GuiStep == SetArgs \/ SetFunc \/ StartThread \/ BeginRequest \/ Expire \/ End

-----------------------------------------------------------------------------
(* The other threads.                                                      *)

Run(from, to) == ~dead /\ gui # "closed" /\ thread = from /\ thread' = to

\* CGuiThread::run asks for the function, and for none, one and two strings.
Check ==
    /\ Run("test", IF func = 0 THEN "off" ELSE "none")
    /\ UNCHANGED <<window, waiter, func, args, sending, replies, dead, history>>

\* Every request function wants two strings: called with none or with one, it
\* takes the client, or an address, for a string, and nobody knows what happens.
Miscall(from, size, to) ==
    /\ Run(from, to)
    /\ dead' \in IF Len(args) = size THEN BOOLEAN ELSE {FALSE}
    /\ UNCHANGED <<window, waiter, func, args, sending, replies, history>>

\* The strings may be those of other requests than the function.
Call ==
    /\ Run("two", IF Len(args) = 2 THEN "send" ELSE "reset")
    /\ sending' = IF args = <<func, func>> THEN func ELSE 0
    /\ UNCHANGED <<window, waiter, func, args, replies, dead, history>>

SendRequest ==
    /\ Run("send", "reset")
    /\ Carry(sending) /\ sending' = 0
    /\ UNCHANGED <<window, waiter, func, args, dead, press, verdict>>

\* m_pfunc = NULL, also a function that has been set meanwhile.
Reset ==
    /\ Run("reset", "clear")
    /\ func' = 0
    /\ UNCHANGED <<window, waiter, args, sending, replies, dead, history>>

\* A mutant of ClearArgs: the strings of the last request stay.
ClearKeepsArgs ==
    /\ Run("clear", "off")
    /\ UNCHANGED <<window, waiter, func, args, sending, replies, dead, history>>
\* m_vecArgs.clear(), also of strings that have been appended meanwhile.
ClearArgs ==
    /\ Run("clear", "off")
    /\ args' = <<>>
    /\ UNCHANGED <<window, waiter, func, sending, replies, dead, history>>

\* The react and s_account_msg_dispatch.  A react that has a note leaves the
\* name of the method out: what its buffer held before decides.
DispatchAnswer ==
    /\ ~dead /\ gui # "closed" /\ arrived # <<>>
    /\ arrived' = Tail(arrived)
    /\ status' \in CASE Head(arrived).says = "yes"     -> {"eSucceed"}
                     [] Head(arrived).says = "no"      -> {"eFail"}
                     [] Head(arrived).says = "noted"   -> {status, "eSucceed", "eFail"}
                     [] Head(arrived).says = "nothing" -> {status}
    /\ UNCHANGED <<window, elapsed, sender, remains, dead, history>>

-----------------------------------------------------------------------------
GuiNext ==
    \/ \E to \in Form : Show(to)
    \/ Click \/ GuiStep \/ Tick \/ Logout \/ Close
    \/ Check \/ Miscall("none", 0, "one") \/ Miscall("one", 1, "two") \/ Call
    \/ SendRequest \/ Reset \/ ClearArgs \/ DispatchAnswer

GuiSpec == GuiInit /\ [][GuiNext]_guiVars

\* A slot runs to its end, and the timer of a waiting window fires.
FairGuiSpec == GuiSpec /\ WF_guiVars(GuiStep) /\ WF_guiVars(Tick)

-----------------------------------------------------------------------------
(* Properties *)

\* When nothing of an earlier request was on its way as the button was pressed,
\* and the request was not too long to be sent, the window that follows shows
\* what the server said to this request: main or verification window only after
\* a yes, back as refused only after a no, or after an answer with a note.
OwnVerdict ==
    verdict.alone /\ verdict.n \notin toolong =>
        /\ verdict.status = "eSucceed" => {"yes", "noted"} \cap answered[verdict.n] # {}
        /\ verdict.status = "eFail"    => {"no", "noted"} \cap answered[verdict.n] # {}

\* The tests of endLogining and its like miss a status that changes between them
\* only when the answer of another request changes it: otherwise one of them is
\* met, and some window is shown.
WindowShown == verdict.alone => verdict.status # "none"

\* Until a button is pressed while the send thread runs, its function is called
\* with the two strings of its request, never with fewer or with others.
CalledAsMeant ==
    ~hasty /\ thread \in {"none", "one", "two"} => func # 0 /\ args = <<func, func>>

\* Nobody waits for ever: a waiting window gives way to another, whatever
\* becomes of the request, also one that was never sent.
WaitingEnds == screen \in Waits ~> screen \notin Waits \/ gui = "closed" \/ dead

\* Known disagreement: the time runs out on a request that has no verdict; the
\* first finds no verdict but its own (requestingwidget.cpp:60).
TimeoutMeansNone == gui \in {"begin", "expire"} /\ n = 1 => status = "eRequesting"

\* Known disagreement: a window leads on only when the server said something to
\* its request, however long that was (clientcontroller.cpp:322).
SucceedsOnAnswer == verdict.alone /\ verdict.status = "eSucceed" => answered[verdict.n] # {}

\* Known disagreement: one of the three statuses ends a request, so that a
\* window is shown (clientcontroller.cpp:309).
AlwaysAWindow == screen # "none"
=============================================================================
