---------------------------- MODULE TestClients ----------------------------
(***************************************************************************)
(* The in-memory test clients: what they do to the application they drive. *)
(*                                                                         *)
(* A client releases the application's setup lock while it is open and     *)
(* puts back the value it found: TestClient in its constructor, close()    *)
(* and __del__, AsyncTestClient in __aenter__ and __aexit__.  Either may   *)
(* meet a startup or shutdown hook that raises, and two clients may share  *)
(* an application.                                                         *)
(*                                                                         *)
(* One exchange at a time is followed through the receive channel          *)
(* (_ClientChannel) and the body source over it (ASGIBodySource): a body   *)
(* that is read in chunks, then polls that ask whether the client left.    *)
(***************************************************************************)
EXTENDS Naturals, Sequences

CONSTANTS
    TestUsers,    \* the clients opened on the one application
    SyncUsers,    \* those that are TestClient; the others are AsyncTestClient
    MaxChunks     \* bound: chunks of a request body

ClientsAssumption == SyncUsers \subseteq TestUsers /\ MaxChunks \in Nat

VARIABLES
    lock,     \* app._setup_lock_enabled
    cl,       \* the clients: [st, prior, ran]
    tidy,     \* history: no hook raised, clients closed in reverse order
    opened,   \* history: the open clients, oldest first
    ex        \* the exchange in progress

vars == <<lock, cl, tidy, opened, ex>>

NoExchange == [at |-> "none", left |-> 0, done |-> FALSE, gone |-> FALSE,
               finished |-> FALSE, poll |-> "none"]

Init ==
    /\ lock = TRUE
    /\ cl = [c \in TestUsers |-> [st |-> "new", prior |-> {}, ran |-> FALSE]]
    /\ tidy = TRUE
    /\ opened = <<>>
    /\ ex = NoExchange

Restored(prior) == IF prior = {} THEN lock ELSE CHOOSE b \in prior : TRUE

----------------------------------------------------------------------------
OpenLate(c) ==
    /\ cl[c].st = "new"
    /\ lock' = FALSE
    /\ cl' = [cl EXCEPT ![c] = [st |-> "open", prior |-> {FALSE}, ran |-> TRUE]]
    /\ opened' = Append(opened, c)
    /\ UNCHANGED <<tidy, ex>>

(* The constructor of TestClient, and AsyncTestClient.__aenter__: the lock *)
(* is taken off, then the startup hooks run and may raise.                 *)
Open(c) ==
    /\ cl[c].st = "new"
    /\ lock' = FALSE
    /\ \/ /\ cl' = [cl EXCEPT ![c] = [st |-> "open", prior |-> {lock}, ran |-> TRUE]]
          /\ opened' = Append(opened, c)
          /\ UNCHANGED tidy
       \/ /\ cl' = [cl EXCEPT ![c] = [st |-> "failed", prior |-> {lock}, ran |-> FALSE]]
          /\ tidy' = FALSE
          /\ UNCHANGED opened
    /\ UNCHANGED ex

(* close(), __exit__ and __aexit__: shutdown hooks first; when one raises  *)
(* nothing after it runs, the lock included.                               *)
Close(c) ==
    /\ cl[c].st = "open"
    /\ ex = NoExchange
    /\ \/ /\ lock' = Restored(cl[c].prior)
          /\ cl' = [cl EXCEPT ![c] = [st |-> "closed", prior |-> {}, ran |-> FALSE]]
          /\ tidy' = (tidy /\ opened[Len(opened)] = c)
       \/ /\ cl' = [cl EXCEPT ![c].st = "raised"]
          /\ tidy' = FALSE
          /\ UNCHANGED lock
    /\ opened' = SubSeq(opened, 1, Len(opened) - 1)  \* means nothing once untidy
    /\ UNCHANGED ex

(* The object is dropped.  Only TestClient has a __del__, which restores   *)
(* the lock when close() did not.                                          *)
Collect(c) ==
    /\ cl[c].st \in {"failed", "raised", "closed"}
    /\ cl' = [cl EXCEPT ![c].st = "gone"]
    /\ lock' = IF c \in SyncUsers THEN Restored(cl[c].prior) ELSE lock
    /\ UNCHANGED <<tidy, opened, ex>>

----------------------------------------------------------------------------
(* _ClientChannel.__call__ past the body: the answer a task that is given  *)
(* `turns` turns of the loop gets.  The channel gives up _PEEK_TURNS of    *)
(* them before it says the client has gone, unless the exchange is over.   *)
_PEEK_TURNS == 3

tells_gone_at_once(finished, turns) == TRUE

tells_gone(finished, turns) == finished \/ turns > _PEEK_TURNS

Request(c, n) ==
    /\ cl[c].st = "open"
    /\ ex = NoExchange
    /\ ex' = [NoExchange EXCEPT !.at = "handler", !.left = n]
    /\ UNCHANGED <<lock, cl, tidy, opened>>

(* ASGIBodySource.__anext__ over the channel: a chunk, or the last frame.  *)
Read ==
    /\ ex.at = "handler" /\ ex.poll = "none" /\ ~ex.done
    /\ ex' = IF ex.left > 0 THEN [ex EXCEPT !.left = @ - 1] ELSE [ex EXCEPT !.done = TRUE]
    /\ UNCHANGED <<lock, cl, tidy, opened>>

(* poll_disconnected: a receive() that lives for one turn of the loop.  It *)
(* answers at once when the body has not been read or the answer is known. *)
Poll ==
    /\ ex.at = "handler" /\ ex.poll = "none" /\ ex.done /\ ~ex.gone
    /\ ex' = [ex EXCEPT !.poll = IF tells_gone(ex.finished, 1) THEN "gone" ELSE "quiet"]
    /\ UNCHANGED <<lock, cl, tidy, opened>>

Polled ==
    /\ ex.poll # "none"
    /\ ex' = [ex EXCEPT !.poll = "none", !.gone = (ex.poll = "gone")]
    /\ UNCHANGED <<lock, cl, tidy, opened>>

(* _collect_response: the last body frame of the answer ends the exchange, *)
(* while the handler may go on; its return ends it in any case.            *)
Answer ==
    /\ ex.at = "handler" /\ ~ex.finished
    /\ ex' = [ex EXCEPT !.finished = TRUE]
    /\ UNCHANGED <<lock, cl, tidy, opened>>

Return ==
    /\ ex.at = "handler" /\ ex.poll = "none"
    /\ ex' = NoExchange
    /\ UNCHANGED <<lock, cl, tidy, opened>>

Next ==
    \/ \E c \in TestUsers : Open(c) \/ Close(c) \/ Collect(c)
    \/ \E c \in TestUsers, n \in 0 .. MaxChunks : Request(c, n)
    \/ Read \/ Poll \/ Polled \/ Answer \/ Return

Spec == Init /\ [][Next]_vars

----------------------------------------------------------------------------
NoneOpen == \A c \in TestUsers : cl[c].st # "open"

(* Clients that are closed in the reverse of the order they opened in, and *)
(* whose hooks do not raise, leave the setup lock as they found it: with   *)
(* none open, the application again refuses routes added after it serves.  *)
LockComesBack == (tidy /\ NoneOpen) => lock

(* Why: the oldest open client found the lock on and every other one off,  *)
(* so closing them newest first puts it on with the last.                  *)
Client == [st : {"new", "open", "failed", "raised", "closed", "gone"},
           prior : SUBSET BOOLEAN, ran : BOOLEAN]

TypeOK ==
    /\ lock \in BOOLEAN /\ tidy \in BOOLEAN
    /\ cl \in [TestUsers -> Client]
    /\ opened \in Seq(TestUsers)
    /\ ex \in [at : {"none", "handler"}, left : Nat, done : BOOLEAN, gone : BOOLEAN,
                finished : BOOLEAN, poll : {"none", "gone", "quiet"}]

OldestHoldsLock ==
    tidy => /\ lock <=> opened = <<>>
            /\ \A i \in DOMAIN opened :
                  cl[opened[i]].st = "open" /\ cl[opened[i]].prior = {i = 1}
            /\ \A i, j \in DOMAIN opened : opened[i] = opened[j] => i = j
            /\ \A c \in TestUsers :
                  /\ cl[c].st = "open" => \E i \in DOMAIN opened : opened[i] = c
                  /\ cl[c].st \notin {"failed", "raised"}
                  /\ cl[c].st = "closed" => cl[c].prior = {}

PollsAreTrue == (ex.poll = "gone" \/ ex.gone) => ex.finished

(* Whatever the hooks do, the lock is back once every client is gone:      *)
(* "Hand the app back as it was found" (__aexit__).  AsyncTestClient has   *)
(* no __del__ and clients may close in any order, so it need not be.       *)
LockAlwaysComesBack ==
    (\A c \in TestUsers : cl[c].st \in {"new", "closed", "gone"}) => lock

(* is_disconnected() is false while the answer of a live exchange is being *)
(* produced: the client that has sent its whole body has not gone.         *)
AliveUntilAnswered == ex.gone => ex.finished
============================================================================
