------------------------------ MODULE FeishuApi ------------------------------
(***************************************************************************)
(* The REST client of the Feishu adapter (edge/internal/feishu/api.go,      *)
(* outbound.go).  A call that sends passes the bucket of its group and then *)
(* the global one, each under a lock that is held while one sleeps for a    *)
(* token; a request takes the cached access token, or fetches one while it  *)
(* holds the token's lock; requests that fail are repeated, a 401 drops the *)
(* token and starts over, once.  A message carries a uuid by which the      *)
(* platform recognises a request it has seen.                              *)
(*                                                                         *)
(* The platform is modelled by its answers: it may execute a request whose  *)
(* answer is an error or never comes, and it may revoke the token.          *)
(***************************************************************************)
EXTENDS Naturals

CONSTANTS Calls,
          Sends,        \* the calls that send a message; the others read
          Retries,      \* len(RetryDelays)
          Capacity,     \* of the buckets
          MaxFaults,    \* answers that are errors, deadlines that pass
          MaxRevokes,   \* tokens the platform revokes
          None

VARIABLES
    call,       \* where each call is
    bucket,     \* of the group and of all: who holds its lock, its tokens
    token,      \* the cached token, 0 for none; who holds its lock
    valid,      \* the token the platform accepts
    sent,       \* the uuids the platform has seen, per message
    faults

vars == <<call, bucket, token, valid, sent, faults>>

Buckets == {"group", "all"}
Tokens == 1..(MaxRevokes + 1)
Uuids == Calls \X (0..Retries)      \* as a mutant might choose them
Waiting == [pc |-> "idle", tries |-> 0, again |-> FALSE, token |-> 0, fetches |-> 0,
            late |-> FALSE, result |-> "none"]

Init ==
    /\ call = [c \in Calls |-> Waiting]
    /\ bucket = [b \in Buckets |-> [lock |-> None, tokens |-> Capacity]]
    /\ token = [value |-> 0, lock |-> None]
    /\ valid = 1
    /\ sent = [c \in Calls |-> {}]
    /\ faults = 0
-----------------------------------------------------------------------------
Fault == faults < MaxFaults /\ faults' = faults + 1
At(c, p) == call[c].pc = p
Go(c, p) == call' = [call EXCEPT ![c].pc = p]
Done(c, r) == [call EXCEPT ![c].pc = "done", ![c].result = r]

(* sendMessage passes the bucket of the group, request the global one.      *)
(* Reading and uploading pass neither.                                     *)
Begin(c) ==
    /\ At(c, "idle")
    /\ Go(c, IF c \in Sends THEN "group" ELSE "token")
    /\ UNCHANGED <<bucket, token, valid, sent, faults>>

(* TokenBucket.Acquire.  The lock knows nothing of deadlines, the sleep does. *)
Lock(c, b) ==
    /\ At(c, b) /\ bucket[b].lock = None
    /\ bucket' = [bucket EXCEPT ![b].lock = c]
    /\ UNCHANGED <<call, token, valid, sent, faults>>

Acquire(c, b) ==
    /\ At(c, b) /\ bucket[b].lock = c
    /\ \/ /\ bucket[b].tokens > 0
          /\ bucket' = [bucket EXCEPT ![b] = [lock |-> None, tokens |-> @.tokens - 1]]
          /\ Go(c, IF b = "group" THEN "all" ELSE "token")
       \/ /\ bucket[b].tokens = 0 /\ call[c].late
          /\ bucket' = [bucket EXCEPT ![b].lock = None]
          /\ call' = Done(c, "retryable")
    /\ UNCHANGED <<token, valid, sent, faults>>

Refill(b) ==
    /\ bucket[b].tokens < Capacity
    /\ bucket' = [bucket EXCEPT ![b].tokens = @ + 1]
    /\ UNCHANGED <<call, token, valid, sent, faults>>

(* tenantAccessToken, asked for anew before every try: the cached one, or a *)
(* request for one, with its own retries, under the lock.                  *)
LockToken(c) ==
    /\ At(c, "token") /\ token.lock = None
    /\ IF token.value # 0
       THEN call' = [call EXCEPT ![c].pc = "post", ![c].token = token.value] /\ UNCHANGED token
       ELSE /\ call' = [call EXCEPT ![c].pc = "fetch", ![c].fetches = 0]
            /\ token' = [token EXCEPT !.lock = c]
    /\ UNCHANGED <<bucket, valid, sent, faults>>

FetchFails_KeepsLock(c) ==
    /\ At(c, "fetch")
    /\ \/ /\ IF call[c].late THEN UNCHANGED faults ELSE Fault
          /\ call' = Done(c, "retryable")
       \/ Fault /\ call' = Done(c, "refused")
    /\ UNCHANGED <<token, bucket, valid, sent>>

FetchFails(c) ==
    /\ At(c, "fetch")
    /\ \/ /\ ~call[c].late /\ Fault /\ call[c].fetches < Retries
          /\ call' = [call EXCEPT ![c].fetches = @ + 1]
          /\ UNCHANGED token
       \/ /\ \/ ~call[c].late /\ Fault /\ call[c].fetches = Retries /\ call' = Done(c, "retryable")
             \/ call[c].late /\ UNCHANGED faults /\ call' = Done(c, "retryable")
             \/ Fault /\ call' = Done(c, "refused")
          /\ token' = [token EXCEPT !.lock = None]
    /\ UNCHANGED <<bucket, valid, sent>>

FetchOk(c) ==
    /\ At(c, "fetch") /\ ~call[c].late
    /\ token' = [value |-> valid, lock |-> None]
    /\ call' = [call EXCEPT ![c].pc = "post", ![c].token = valid]
    /\ UNCHANGED <<bucket, valid, sent, faults>>

(* The uuid of a message is chosen once, in sendMessage, not per request    *)
Uuid_PerTry(c) == <<c, call[c].tries>>
Uuid(c) == <<c, 0>>
Execute(c) == sent' = IF c \in Sends THEN [sent EXCEPT ![c] = @ \cup {Uuid(c)}] ELSE sent

PostOk(c) ==
    /\ At(c, "post") /\ call[c].token = valid
    /\ Execute(c)
    /\ call' = Done(c, "ok")
    /\ UNCHANGED <<bucket, token, valid, faults>>

(* 429, 5xx or no answer: executed or not, the same request goes out again, *)
(* until the tries or the time are used up.                                *)
PostFails(c) ==
    /\ At(c, "post")
    /\ \/ ~call[c].late /\ Fault
       \/ call[c].late /\ UNCHANGED faults
    /\ \/ call[c].token = valid /\ Execute(c)
       \/ UNCHANGED sent
    /\ call' = IF call[c].tries < Retries /\ ~call[c].late
               THEN [call EXCEPT ![c].pc = "token", ![c].tries = @ + 1]
               ELSE Done(c, "retryable")
    /\ UNCHANGED <<bucket, token, valid>>

(* Any other 4xx, or a business code, is final *)
PostRefused(c) ==
    /\ At(c, "post") /\ call[c].token = valid /\ Fault
    /\ call' = Done(c, "refused")
    /\ UNCHANGED <<bucket, token, valid, sent>>

Unauthorized(c) ==
    /\ At(c, "post") /\ call[c].token # valid
    /\ call' = IF call[c].again THEN Done(c, "unauthorized")
               ELSE [call EXCEPT ![c].pc = "invalidate"]
    /\ UNCHANGED <<bucket, token, valid, sent, faults>>

(* invalidateToken drops whatever token is cached now *)
Invalidate(c) ==
    /\ At(c, "invalidate") /\ token.lock = None
    /\ token' = [token EXCEPT !.value = 0]
    /\ call' = [call EXCEPT ![c].pc = "token", ![c].again = TRUE, ![c].tries = 0]
    /\ UNCHANGED <<bucket, valid, sent, faults>>

Expire(c) ==
    /\ call[c].pc \notin {"idle", "done"} /\ ~call[c].late /\ Fault
    /\ call' = [call EXCEPT ![c].late = TRUE]
    /\ UNCHANGED <<bucket, token, valid, sent>>

(* The cached token may also reach its end here, before the platform's *)
Revoke ==
    /\ \/ valid <= MaxRevokes /\ valid' = valid + 1 /\ UNCHANGED token
       \/ /\ token.value # 0 /\ token.lock = None /\ UNCHANGED valid
          /\ token' = [token EXCEPT !.value = 0]
    /\ UNCHANGED <<call, bucket, sent, faults>>

Step(c) ==
    \/ Begin(c) \/ \E b \in Buckets : Lock(c, b) \/ Acquire(c, b)
    \/ LockToken(c) \/ FetchFails(c) \/ FetchOk(c)
    \/ PostOk(c) \/ PostFails(c) \/ PostRefused(c) \/ Unauthorized(c) \/ Invalidate(c)

Next == (\E c \in Calls : Step(c) \/ Expire(c)) \/ (\E b \in Buckets : Refill(b)) \/ Revoke

(* Goroutines run, buckets fill, every request is answered or times out.    *)
(* The mutexes need not be fair: a call takes each a bounded number of times. *)
Work == (\E c \in Calls : Step(c)) \/ (\E b \in Buckets : Refill(b))

Spec == Init /\ [][Next]_vars /\ WF_vars(Work)
-----------------------------------------------------------------------------
(* Types; and a lock is held by a call that is in the section it guards *)
TypeOK ==
    /\ call \in [Calls -> [pc : {"idle", "group", "all", "token", "fetch", "post", "invalidate",
                                 "done"},
                           tries : 0..Retries, again : BOOLEAN, token : {0} \cup Tokens,
                           fetches : 0..Retries, late : BOOLEAN,
                           result : {"none", "ok", "retryable", "refused", "unauthorized"}]]
    /\ \A b \in Buckets : /\ bucket[b].tokens \in 0..Capacity
                          /\ bucket[b].lock # None => At(bucket[b].lock, b)
    /\ token.value \in {0} \cup Tokens
    /\ token.lock # None => At(token.lock, "fetch")
    /\ valid \in Tokens /\ faults \in 0..MaxFaults
    /\ sent \in [Calls -> SUBSET Uuids]

(* A message is sent once however often its request is repeated after an    *)
(* error whose request was executed: all tries carry one uuid.             *)
SentOnce == \A c \in Calls : \A u, v \in sent[c] : u = v

(* One revoked token never makes a call fail: who is told 401 drops it and  *)
(* comes back with a token that is valid, although another call may have    *)
(* dropped or fetched one meanwhile.                                       *)
RevocationHeals == valid <= 2 => \A c \in Calls : call[c].result # "unauthorized"

(* Every call ends, one way or the other: no call is left waiting for a     *)
(* lock that a failed one took down with it.                               *)
Settled == \A c \in Calls : call[c].pc = "done"
Settles == []<>Settled
=============================================================================
