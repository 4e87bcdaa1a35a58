--------------------------- MODULE ServerSessions ---------------------------
(***************************************************************************)
(* The session table of the server (Server/main.go): the global map `users`*)
(* from account names to User objects, and the goroutines that share it    *)
(* without a lock:                                                         *)
(*   - one handler per connection (handleClient), which serves one message *)
(*     at a time and whose deferred Close runs when the stream ends;       *)
(*   - one goroutine per user notified of a shutdown, which sleeps ten     *)
(*     minutes and then closes that user;                                  *)
(*   - the console, the fyne event thread that runs the button callbacks.  *)
(*                                                                         *)
(* Every access to `users` is a step of its own, so that the threads       *)
(* interleave between them; two overlapping accesses, one a write, are the *)
(* data race that the Go runtime may turn into a fatal error (MapFault).   *)
(*                                                                         *)
(* Abstractions.  A connection of Conns is also its User object.  A salt   *)
(* is only known to be set or not: whether the hash of a LOGIN matches is  *)
(* the client's choice, and a LOGIN that does not match changes nothing.   *)
(* User.Key is never assigned anything but an empty slice, so a RECONNECT  *)
(* is accepted exactly when it carries an empty key; one that does not     *)
(* match changes nothing.  Messages that only read are not actions here,   *)
(* but for those the process dies of.                                      *)
(***************************************************************************)
EXTENDS Naturals, FiniteSets

CONSTANTS
  Conns,        \* connections the clients make, each with its User object
  Accounts,     \* the accounts of UsersDB
  NoConn,       \* a key that is absent from `users`
  NoAccount     \* the empty account name ""

ASSUME SessionAssumptions ==
  /\ NoConn \notin Conns
  /\ NoAccount \notin Accounts

VARIABLES
  handler,      \* where the goroutine of each connection is
  writable,     \* the server has not closed its side of the stream
  account,      \* u.Account
  salted,       \* u.Salt is a salt the server issued
  users,        \* the session table
  isOpen,       \* the server accepts requests
  notice,       \* the shutdown goroutine started for each table entry
  console,      \* the button callback being run, and its iteration of users
  up,           \* the server process is alive
  held          \* history: the accounts each User object ever carried

connVars == <<handler, writable, account, salted, held>>
vars == <<connVars, users, isOpen, notice, console, up>>

HandlerStates == {"new", "idle", "lookup", "insert", "erase", "draw",
                  "closing", "lastDraw", "closed"}
NoticeStates  == {"asleep", "drop", "draw"}
ConsoleStates == {"idle", "notify", "force", "draw"}

Unused == [at |-> "unused", conn |-> NoConn]

(* The type invariant: among others, only a listed user, never a nil one,  *)
(* is handed to a notice.                                                  *)
TypeOK ==
  /\ handler  \in [Conns -> HandlerStates]
  /\ writable \in [Conns -> BOOLEAN]
  /\ account  \in [Conns -> Accounts \cup {NoAccount}]
  /\ salted   \in [Conns -> BOOLEAN]
  /\ held     \in [Conns -> SUBSET Accounts]
  /\ users    \in [Accounts -> Conns \cup {NoConn}]
  /\ isOpen   \in BOOLEAN
  /\ notice   \in [Accounts -> [at: NoticeStates, conn: Conns] \cup {Unused}]
  /\ console  \in [at: ConsoleStates, must: SUBSET Accounts, seen: SUBSET Accounts]
  /\ up       \in BOOLEAN

Init ==
  /\ handler  = [c \in Conns |-> "new"]
  /\ writable = [c \in Conns |-> FALSE]
  /\ account  = [c \in Conns |-> NoAccount]
  /\ salted   = [c \in Conns |-> FALSE]
  /\ held     = [c \in Conns |-> {}]
  /\ users    = [a \in Accounts |-> NoConn]
  /\ isOpen   = TRUE
  /\ notice   = [a \in Accounts |-> Unused]
  /\ console  = [at |-> "idle", must |-> {}, seen |-> {}]
  /\ up       = TRUE

Listed == {a \in Accounts : users[a] # NoConn}

-----------------------------------------------------------------------------
(* Steps the definitions below share. *)

Goto(c, from, to) ==
  /\ up
  /\ handler[c] = from
  /\ handler' = [handler EXCEPT ![c] = to]

Carry(c, a) ==
  /\ account' = [account EXCEPT ![c] = a]
  /\ held' = [held EXCEPT ![c] = @ \cup ({a} \ {NoAccount})]

Shut(c) == writable' = [writable EXCEPT ![c] = FALSE]

(* delete(users, a): deleting the absent key "" is a no-op, and an entry   *)
(* that a running iteration has not reached yet is not produced any more.  *)
Delete(a) ==
  /\ users' = [b \in Accounts |-> IF b = a THEN NoConn ELSE users[b]]
  /\ console' = [console EXCEPT !.must = @ \ {a}]

(* A panic or a fatal error of any goroutine ends the process: the table   *)
(* and every goroutine are gone.                                           *)
Crash ==
  /\ up /\ up' = FALSE
  /\ handler'  = [c \in Conns |-> "closed"]
  /\ writable' = [c \in Conns |-> FALSE]
  /\ account'  = [c \in Conns |-> NoAccount]
  /\ salted'   = [c \in Conns |-> FALSE]
  /\ held'     = [c \in Conns |-> {}]
  /\ users'    = [a \in Accounts |-> NoConn]
  /\ isOpen'   = FALSE
  /\ notice'   = [a \in Accounts |-> Unused]
  /\ console'  = [at |-> "idle", must |-> {}, seen |-> {}]

-----------------------------------------------------------------------------
(* The handler of a connection (handleClient and OnMessage). *)

(* The client's first stream arrives, or AcceptStream fails and the        *)
(* deferred Close runs on a connection without a stream.                   *)
Accept(c) ==
  /\ \/ Goto(c, "new", "idle") /\ writable' = [writable EXCEPT ![c] = TRUE]
     \/ Goto(c, "new", "closing") /\ UNCHANGED writable
  /\ UNCHANGED <<account, salted, held, users, isOpen, notice, console, up>>

SaltRequest(c) ==
  /\ Goto(c, "idle", "idle")
  /\ isOpen
  /\ salted' = [salted EXCEPT ![c] = TRUE]
  /\ UNCHANGED <<writable, account, held, users, isOpen, notice, console, up>>

(* Mutant: the test of isOpen is missing. *)
LoginWhenClosed(c, a) ==
  /\ Goto(c, "idle", "insert")
  /\ Carry(c, a)
  /\ UNCHANGED <<writable, salted, users, isOpen, notice, console, up>>

(* A LOGIN whose hash matches, of a salt that was asked for or of none.    *)
Login(c, a) ==
  /\ Goto(c, "idle", "insert")
  /\ isOpen
  /\ Carry(c, a)
  /\ UNCHANGED <<writable, salted, users, isOpen, notice, console, up>>

Insert(c) ==
  /\ Goto(c, "insert", "draw")
  /\ users' = [users EXCEPT ![account[c]] = c]
  /\ UNCHANGED <<writable, account, salted, held, isOpen, notice, console, up>>

(* LOGOUT clears the account before it deletes "the account's" entry.      *)
Logout(c) ==
  /\ Goto(c, "idle", "erase")
  /\ isOpen
  /\ Carry(c, NoAccount)
  /\ salted' = [salted EXCEPT ![c] = FALSE]
  /\ UNCHANGED <<writable, users, isOpen, notice, console, up>>

Erase(c) ==
  /\ Goto(c, "erase", "draw")
  /\ Delete(account[c])
  /\ UNCHANGED <<writable, account, salted, held, isOpen, notice, up>>

Reconnect(c) ==
  /\ Goto(c, "idle", "lookup")
  /\ isOpen
  /\ UNCHANGED <<writable, account, salted, held, users, isOpen, notice, console, up>>

(* The user found under the name lends its account, whatever that is by    *)
(* now; a name that is not listed is a nil User, and the process panics.   *)
Lookup(c, a) ==
  \/ /\ handler[c] = "lookup" /\ users[a] = NoConn
     /\ Crash
  \/ /\ Goto(c, "lookup", "idle")
     /\ users[a] # NoConn
     /\ Carry(c, account[users[a]])
     /\ salted' = [salted EXCEPT ![c] = salted[users[a]]]
     /\ UNCHANGED <<writable, users, isOpen, notice, console, up>>

(* A message that is empty once unzipped, of an open server or a closed    *)
(* one: its type is read at an index it does not have.                     *)
EmptyMessage(c) ==
  /\ handler[c] = "idle"
  /\ Crash

(* A BANK or a SONG of a class or a bank that the catalogue does not have, *)
(* while the server is open, follows a nil pointer.                        *)
UnknownName(c) ==
  /\ handler[c] = "idle"
  /\ isOpen
  /\ Crash

(* The end of buildUI, which iterates users: the message is served.        *)
Draw(c) ==
  /\ Goto(c, "draw", "idle")
  /\ UNCHANGED <<writable, account, salted, held, users, isOpen, notice, console, up>>

(* Reading fails at the end of the client's stream, and the deferred Close *)
(* closes the stream, deletes the account's entry and redraws the console. *)
EndOfStream(c) ==
  /\ Goto(c, "idle", "closing")
  /\ Shut(c)
  /\ UNCHANGED <<account, salted, held, users, isOpen, notice, console, up>>

(* Mutant: Close forgets the table. *)
CloseKeepsEntry(c) ==
  /\ Goto(c, "closing", "lastDraw")
  /\ UNCHANGED <<writable, account, salted, held, users, isOpen, notice, console, up>>

CloseDrop(c) ==
  /\ Goto(c, "closing", "lastDraw")
  /\ Delete(account[c])
  /\ UNCHANGED <<writable, account, salted, held, isOpen, notice, up>>

LastDraw(c) ==
  /\ Goto(c, "lastDraw", "closed")
  /\ UNCHANGED <<writable, account, salted, held, users, isOpen, notice, console, up>>

-----------------------------------------------------------------------------
(* The goroutine that closes a notified user ten minutes later.            *)

(* Mutant: the goroutine deletes the entry but leaves the stream open. *)
WakeKeepsStream(a) ==
  /\ up /\ notice[a].at = "asleep"
  /\ notice' = [notice EXCEPT ![a].at = "drop"]
  /\ UNCHANGED <<connVars, users, isOpen, console, up>>

Wake(a) ==
  /\ up /\ notice[a].at = "asleep"
  /\ Shut(notice[a].conn)
  /\ notice' = [notice EXCEPT ![a].at = "drop"]
  /\ UNCHANGED <<handler, account, salted, held, users, isOpen, console, up>>

NoticeDrop(a) ==
  /\ up /\ notice[a].at = "drop"
  /\ Delete(account[notice[a].conn])
  /\ notice' = [notice EXCEPT ![a].at = "draw"]
  /\ UNCHANGED <<connVars, isOpen, up>>

NoticeDraw(a) ==
  /\ up /\ notice[a].at = "draw"
  /\ notice' = [notice EXCEPT ![a] = Unused]
  /\ UNCHANGED <<connVars, users, isOpen, console, up>>

-----------------------------------------------------------------------------
(* The console.  An iteration over users produces every entry that stays   *)
(* listed (must), and perhaps some that are added meanwhile, once (seen).  *)

Tap(at) ==
  /\ up /\ console.at = "idle"
  /\ console' = [at |-> at, must |-> IF at = "draw" THEN {} ELSE Listed, seen |-> {}]

Toggle ==
  /\ Tap("draw")
  /\ isOpen' = ~isOpen
  /\ UNCHANGED <<connVars, users, notice, up>>

(* Any other button ends in buildUI too: the catalogue's, for instance.    *)
Redraw ==
  /\ Tap("draw")
  /\ UNCHANGED <<connVars, users, isOpen, notice, up>>

(* The bound on notices: a second round only starts after the first.       *)
TapNotify ==
  /\ Tap("notify")
  /\ \A a \in Accounts : notice[a] = Unused
  /\ UNCHANGED <<connVars, users, isOpen, notice, up>>

NotifyNext(a) ==
  /\ up /\ console.at = "notify"
  /\ a \in Listed \ console.seen
  /\ notice' = [notice EXCEPT ![a] = [at |-> "asleep", conn |-> users[a]]]
  /\ console' = [console EXCEPT !.seen = @ \cup {a}]
  /\ UNCHANGED <<connVars, users, isOpen, up>>

TapForce ==
  /\ Tap("force")
  /\ UNCHANGED <<connVars, users, isOpen, notice, up>>

(* Mutant: a forced close deletes the entry but leaves the stream open. *)
ForceKeepsStream(a) ==
  /\ up /\ console.at = "force"
  /\ a \in Listed \ console.seen
  /\ LET gone == account[users[a]] IN
       /\ users' = [b \in Accounts |-> IF b = gone THEN NoConn ELSE users[b]]
       /\ console' = [console EXCEPT !.must = @ \ {gone}, !.seen = @ \cup {a}]
  /\ UNCHANGED <<connVars, isOpen, notice, up>>

ForceNext(a) ==
  /\ up /\ console.at = "force"
  /\ a \in Listed \ console.seen
  /\ Shut(users[a])
  /\ LET gone == account[users[a]] IN
       /\ users' = [b \in Accounts |-> IF b = gone THEN NoConn ELSE users[b]]
       /\ console' = [console EXCEPT !.must = @ \ {gone}, !.seen = @ \cup {a}]
  /\ UNCHANGED <<handler, account, salted, held, isOpen, notice, up>>

(* Mutant: the loop goes on until the table is empty. *)
IterationEndsEmpty ==
  /\ up /\ console.at \in {"notify", "force"}
  /\ Listed = {}
  /\ console' = [at |-> "draw", must |-> {}, seen |-> {}]
  /\ UNCHANGED <<connVars, users, isOpen, notice, up>>

(* The iteration is over, and the deferred buildUI runs.                   *)
IterationEnds ==
  /\ up /\ console.at \in {"notify", "force"}
  /\ console.must \subseteq console.seen
  /\ console' = [at |-> "draw", must |-> {}, seen |-> {}]
  /\ UNCHANGED <<connVars, users, isOpen, notice, up>>

ConsoleDraw ==
  /\ up /\ console.at = "draw"
  /\ console' = [at |-> "idle", must |-> {}, seen |-> {}]
  /\ UNCHANGED <<connVars, users, isOpen, notice, up>>

-----------------------------------------------------------------------------
(* The data race on users.  A thread is about to write the map at the      *)
(* first set of places and to read it at the second; when a write and      *)
(* another access overlap, the Go runtime may end the process.             *)

Writing == Cardinality({c \in Conns : handler[c] \in {"insert", "erase", "closing"}})
         + Cardinality({a \in Accounts : notice[a].at = "drop"})
         + (IF console.at = "force" THEN 1 ELSE 0)

Reading == Cardinality({c \in Conns : handler[c] \in {"draw", "lookup", "lastDraw"}})
         + Cardinality({a \in Accounts : notice[a].at = "draw"})
         + (IF console.at \in {"notify", "draw"} THEN 1 ELSE 0)

MapFault ==
  /\ Writing > 0 /\ Writing + Reading > 1
  /\ Crash

-----------------------------------------------------------------------------
(* What a connection's goroutine does of itself, and what its client asks. *)
HandlerStep(c) ==
  \/ Insert(c) \/ Erase(c) \/ Draw(c) \/ CloseDrop(c) \/ LastDraw(c)
  \/ \E a \in Accounts : Lookup(c, a)
Request(c) ==
  \/ Accept(c) \/ SaltRequest(c) \/ Logout(c) \/ Reconnect(c) \/ EndOfStream(c)
  \/ EmptyMessage(c) \/ UnknownName(c)
  \/ \E a \in Accounts : Login(c, a)
NoticeStep(a) == Wake(a) \/ NoticeDrop(a) \/ NoticeDraw(a)
ConsoleStep ==
  \/ IterationEnds \/ ConsoleDraw
  \/ \E a \in Accounts : NotifyNext(a) \/ ForceNext(a)
AdminTap == Toggle \/ Redraw \/ TapNotify \/ TapForce

Next ==
  \/ \E c \in Conns : HandlerStep(c) \/ Request(c)
  \/ \E a \in Accounts : NoticeStep(a)
  \/ ConsoleStep \/ AdminTap \/ MapFault

Spec == Init /\ [][Next]_vars

(* The Go scheduler runs every runnable goroutine in the end, and a sleep  *)
(* ends; clients and the administrator owe nothing.                        *)
Fairness ==
  /\ \A c \in Conns : WF_vars(HandlerStep(c))
  /\ \A a \in Accounts : WF_vars(NoticeStep(a))
  /\ WF_vars(ConsoleStep)
FairSpec == Spec /\ Fairness

-----------------------------------------------------------------------------
(* Properties. *)

(* The deferred Close of a connection removes its own entry for good: a    *)
(* connection that is gone is not listed under the account it had at the   *)
(* end, so a stale entry can only come from an earlier account of it.      *)
GoneIsNotListed ==
  \A c \in Conns : handler[c] \in {"lastDraw", "closed"} /\ account[c] \in Accounts
                     => users[account[c]] # c

(* The session of an account that no other connection ever carried stays   *)
(* listed until the server closes that session, whatever notices, forced   *)
(* closes, relogins and other users do meanwhile.                          *)
SoleSessionListed ==
  \A c \in Conns : \A a \in Accounts :
    /\ account[c] = a /\ writable[c] /\ handler[c] # "insert"
    /\ \A d \in Conns \ {c} : a \notin held[d]
    => users[a] = c

(* Every ten-minute notice closes the stream of the user it was started    *)
(* for, unless the process is gone first.                                  *)
NoticeCloses ==
  \A a \in Accounts : \A c \in Conns :
    (notice[a] = [at |-> "asleep", conn |-> c]) ~> (~writable[c] \/ ~up)

(* Once the console has closed the server for good, logins that passed the *)
(* test of isOpen before may still list a user, but they run out.          *)
ClosedServerAdmitsNobody ==
  <>[]~isOpen => <>[][Listed' \subseteq Listed]_vars

(* A button callback ends although users change under its iteration.       *)
ConsoleFinishes == (console.at # "idle") ~> (console.at = "idle" \/ ~up)

-----------------------------------------------------------------------------
(* What keeps the safety properties true from step to step. *)

(* The account of a User object is one of those it carried.                *)
AccountHeld == \A c \in Conns : account[c] \in Accounts => account[c] \in held[c]

(* Before the accept, and when LOGOUT deletes the account's entry, there   *)
(* is no account.                                                          *)
NoAccountAround ==
  \A c \in Conns : handler[c] \in {"new", "erase"} => account[c] = NoAccount

(* A stream is open only between the accept and the handler's Close.       *)
OpenWhileServed ==
  \A c \in Conns : writable[c] => handler[c] \notin {"new", "closing", "lastDraw", "closed"}

(* The table and the notices only name connections that were accepted.     *)
EntryAccepted == \A a \in Accounts : users[a] # NoConn => handler[users[a]] # "new"
NoticeAccepted == \A a \in Accounts : notice[a] # Unused => handler[notice[a].conn] # "new"

(* A notice closes the stream before it deletes the entry.                 *)
DropAfterShut == \A a \in Accounts : notice[a].at = "drop" => ~writable[notice[a].conn]

(* The inductive invariant: the entries of users, the streams and notices  *)
(* that refer to each other.                                               *)
IInv ==
  /\ TypeOK
  /\ AccountHeld /\ NoAccountAround /\ OpenWhileServed
  /\ EntryAccepted /\ NoticeAccepted /\ DropAfterShut
  /\ GoneIsNotListed /\ SoleSessionListed

=============================================================================
