------------------------------- MODULE Session -------------------------------
(***************************************************************************)
(* internal/backend/backend.go and internal/tokenstore: the access and     *)
(* refresh tokens in memory and on disk, used, refreshed, replaced by a    *)
(* login and cleared by a logout from goroutines of their own. Client.mu   *)
(* covers one read or one write of the pair, refreshMu a whole refresh;    *)
(* the disk is written after the first is released. Each step is one       *)
(* critical section, one exchange with the backend or one file operation.  *)
(*                                                                         *)
(* The backend is external and does what backend.go:129-134 says of it:    *)
(* refresh tokens rotate, and a second use revokes every session. The n-th *)
(* reply that carries tokens carries access token n and refresh token n.   *)
(***************************************************************************)
EXTENDS Naturals

CONSTANTS
  Callers,      \* goroutines that use the client
  None,         \* the empty token ""
  NoOne,        \* refreshMu is free
  May,          \* what the environment may do: see Happenings
  MaxTokens,    \* bound: token pairs the backend hands out
  MaxCalls,     \* bound: requests, logins and logouts
  MaxRestarts   \* bound: ends of the process

Happenings == {"bare", "loss", "revoke", "write"}

ASSUME SessionAssumption ==
  /\ None \notin Nat /\ NoOne \notin Callers
  /\ May \subseteq Happenings
  /\ MaxTokens \in Nat \ {0} /\ MaxCalls \in Nat /\ MaxRestarts \in Nat

Tokens == 1 .. MaxTokens \cup {None}
Pairs == [access : Tokens, refresh : Tokens]
Empty == [access |-> None, refresh |-> None]

VARIABLES
  pc, op,              \* where each goroutine is, and in which call
  used, rt, got, buf,  \* locals: usedAccess, rt, the reply, the pair to save
  sent,                \* the access token in the request that is out
  tok,                 \* Client.access and Client.refresh
  lock,                \* holder of refreshMu
  disk,                \* tokens.json
  \* the backend
  minted, fresh, live, spent,
  \* bounds, and what has happened (history, for the properties)
  calls, restarts, signedOut, happened

localVars   == <<op, used, rt, got, buf, sent>>
backendVars == <<minted, fresh, live, spent>>
boundVars   == <<calls, restarts>>
historyVars == <<signedOut, happened>>
vars == <<pc, localVars, tok, lock, disk, backendVars, boundVars, historyVars>>

Labels == {"idle", "send", "answer", "lock", "check", "post", "store", "readback", "save",
           "wipe"}
\* The part of refreshTokens that runs under refreshMu.
Locked == {"check", "post", "store", "readback", "save"}

\* "reused": a refresh token was used twice. "lost": the reply to a refresh
\* did not arrive. "strayed": the process ended while the disk was not what
\* memory was. "overlap": a session was changed while another change was not
\* yet on disk. "late": a refresh or a save was under way at a logout.
Mishaps == {"reused", "lost", "strayed", "revoked", "overlap", "late", "write"}

TypeOK ==
  /\ pc \in [Callers -> Labels]
  /\ op \in [Callers -> {"request", "login", "logout"}]
  /\ used \in [Callers -> Tokens] /\ sent \in [Callers -> Tokens] /\ rt \in [Callers -> Tokens]
  /\ got \in [Callers -> Pairs] /\ buf \in [Callers -> Pairs]
  /\ tok \in Pairs /\ disk \in Pairs
  /\ lock \in Callers \cup {NoOne}
  /\ minted \in 0 .. MaxTokens
  /\ fresh \subseteq 1 .. minted /\ live \subseteq 1 .. minted /\ spent \subseteq 1 .. minted
  /\ calls \in 0 .. MaxCalls /\ restarts \in 0 .. MaxRestarts
  /\ signedOut \in BOOLEAN /\ happened \subseteq Mishaps

NoOp == [t \in Callers |-> "request"]
NoToken == [t \in Callers |-> None]
NoPair == [t \in Callers |-> Empty]

\* What main finds on disk: nothing, or the pair of an earlier run.
Saved == [access |-> 1, refresh |-> 1]

Init ==
  /\ pc = [t \in Callers |-> "idle"]
  /\ op = NoOp /\ used = NoToken /\ sent = NoToken /\ rt = NoToken
  /\ got = NoPair /\ buf = NoPair
  /\ lock = NoOne
  /\ \/ tok = Empty /\ minted = 0 /\ fresh = {} /\ live = {}
     \/ tok = Saved /\ minted = 1 /\ fresh = {1} /\ live = {1}
  /\ disk = tok /\ spent = {}
  /\ calls = 0 /\ restarts = 0
  /\ signedOut = (tok = Empty) /\ happened = {}

Goto(t, from, to) == pc[t] = from /\ pc' = [pc EXCEPT ![t] = to]
\* A call returns, and its locals with it.
Forget(t) ==
  /\ op' = [op EXCEPT ![t] = "request"]
  /\ used' = [used EXCEPT ![t] = None] /\ sent' = [sent EXCEPT ![t] = None]
  /\ rt' = [rt EXCEPT ![t] = None]
  /\ got' = [got EXCEPT ![t] = Empty] /\ buf' = [buf EXCEPT ![t] = Empty]
Return(t, from) == Goto(t, from, "idle") /\ Forget(t)
Happens(what) == happened' = happened \cup what
Call(t, what) ==
  /\ calls < MaxCalls /\ calls' = calls + 1 /\ UNCHANGED restarts
  /\ op' = [op EXCEPT ![t] = what]

\* Somebody has changed the pair in memory and not yet written it.
Unsaved == \E t \in Callers : pc[t] \in {"readback", "save", "wipe"}

-----------------------------------------------------------------------------
(* An authenticated request                                                *)

\* doJSONHeaders notes the access token; doOnce reads it again.
Request(t) ==
  /\ Goto(t, "idle", "send")
  /\ Call(t, "request")
  /\ used' = [used EXCEPT ![t] = tok.access]
  /\ UNCHANGED <<rt, got, buf, sent, tok, lock, disk, backendVars, historyVars>>

Send(t) ==
  /\ Goto(t, "send", "answer")
  /\ sent' = [sent EXCEPT ![t] = tok.access]
  /\ UNCHANGED <<op, used, rt, got, buf, tok, lock, disk, backendVars, boundVars, historyVars>>

\* Any outcome but a 401 ends the call.
Answered(t) ==
  /\ Return(t, "answer")
  /\ UNCHANGED <<tok, lock, disk, backendVars, boundVars, historyVars>>

Refused(t) ==
  /\ sent[t] \notin fresh
  /\ Goto(t, "answer", "lock")
  /\ UNCHANGED <<localVars, tok, lock, disk, backendVars, boundVars, historyVars>>

-----------------------------------------------------------------------------
(* refreshTokens                                                           *)

\* Fault: no single flight.
LockUnchecked(t) ==
  /\ Goto(t, "lock", "check")
  /\ lock' = t
  /\ UNCHANGED <<localVars, tok, disk, backendVars, boundVars, historyVars>>

Lock(t) ==
  /\ lock = NoOne
  /\ Goto(t, "lock", "check")
  /\ lock' = t
  /\ UNCHANGED <<localVars, tok, disk, backendVars, boundVars, historyVars>>

\* Fault: the lock is left in a state nobody tests for.
UnlockToNone(t) == lock' = None

Unlock(t) == lock' = NoOne

\* Fault: latecomers refresh again.
ChangedNever(t) == FALSE

\* Another goroutine has refreshed meanwhile. The request is sent once more,
\* here and after a refresh of its own, and whatever comes back is returned:
\* nothing of that is of consequence here.
Changed(t) == tok.access # None /\ tok.access # used[t]

Latecomer(t) ==
  /\ Changed(t)
  /\ Return(t, "check")
  /\ Unlock(t)
  /\ UNCHANGED <<tok, disk, backendVars, boundVars, historyVars>>

\* Fault: an early return without the release.
NothingToRefreshLocked(t) ==
  /\ ~Changed(t) /\ tok.refresh = None
  /\ Return(t, "check")
  /\ UNCHANGED <<tok, lock, disk, backendVars, boundVars, historyVars>>

NothingToRefresh(t) ==
  /\ ~Changed(t) /\ tok.refresh = None
  /\ Return(t, "check")
  /\ Unlock(t)
  /\ UNCHANGED <<tok, disk, backendVars, boundVars, historyVars>>

Check(t) ==
  /\ ~Changed(t) /\ tok.refresh # None
  /\ Goto(t, "check", "post")
  /\ rt' = [rt EXCEPT ![t] = tok.refresh]
  /\ UNCHANGED <<op, used, got, buf, sent, tok, lock, disk, backendVars, boundVars, historyVars>>

\* The backend accepts: it hands out a new pair for the old token, or a new
\* access token and leaves the refresh token alone.
Mint(bare) ==
  /\ minted < MaxTokens /\ minted' = minted + 1
  /\ bare => "bare" \in May
  /\ fresh' = fresh \cup {minted + 1}

Reply(bare) == [access |-> minted + 1, refresh |-> IF bare THEN None ELSE minted + 1]

Accept(t, bare) ==
  /\ rt[t] \in live
  /\ Mint(bare)
  /\ IF bare THEN UNCHANGED <<live, spent>>
     ELSE /\ live' = (live \ {rt[t]}) \cup {minted + 1}
          /\ spent' = spent \cup {rt[t]}

Post(t) ==
  /\ Goto(t, "post", "store")
  /\ \E bare \in BOOLEAN : Accept(t, bare) /\ got' = [got EXCEPT ![t] = Reply(bare)]
  /\ UNCHANGED <<op, used, rt, buf, sent, tok, lock, disk, boundVars, historyVars>>

\* The backend has rotated the token and the client never learns.
PostLost(t) ==
  /\ "loss" \in May
  /\ Return(t, "post")
  /\ Accept(t, FALSE)
  /\ Unlock(t)
  /\ Happens({"lost"})
  /\ UNCHANGED <<tok, disk, boundVars, signedOut>>

PostReused(t) ==
  /\ rt[t] \in spent
  /\ Return(t, "post")
  /\ live' = {} /\ fresh' = {}
  /\ Unlock(t)
  /\ Happens({"reused"})
  /\ UNCHANGED <<tok, disk, minted, spent, boundVars, signedOut>>

\* Refused, or never reached the backend.
PostFails(t) ==
  /\ Return(t, "post")
  /\ Unlock(t)
  /\ UNCHANGED <<tok, disk, backendVars, boundVars, historyVars>>

-----------------------------------------------------------------------------
(* New tokens, into memory and onto disk                                   *)

\* Fault: the rotated refresh token is ignored.
StoredAccessOnly(t) ==
  IF op[t] = "login" THEN got[t] ELSE [tok EXCEPT !.access = got[t].access]

Stored(t) ==
  IF op[t] = "login" \/ got[t].refresh # None THEN got[t]
  ELSE [tok EXCEPT !.access = got[t].access]

Store(t) ==
  /\ Goto(t, "store", "readback")
  /\ tok' = Stored(t)
  /\ signedOut' = (signedOut /\ op[t] # "login")
  /\ Happens(IF Unsaved THEN {"overlap"} ELSE {})
  /\ UNCHANGED <<localVars, lock, disk, backendVars, boundVars>>

\* Fault: what the reply carried is saved, not what the client holds.
ReadBackReply(t) ==
  /\ Goto(t, "readback", "save")
  /\ buf' = [buf EXCEPT ![t] = got[t]]
  /\ UNCHANGED <<op, used, rt, got, sent, tok, lock, disk, backendVars, boundVars, historyVars>>

\* fireOnTokens reads the pair once more, and calls tokenstore.Save.
ReadBack(t) ==
  /\ Goto(t, "readback", "save")
  /\ buf' = [buf EXCEPT ![t] = tok]
  /\ UNCHANGED <<op, used, rt, got, sent, tok, lock, disk, backendVars, boundVars, historyVars>>

\* What follows the save in each of the three calls.
AfterSave(t) ==
  /\ IF op[t] = "logout" THEN Goto(t, "save", "wipe") /\ UNCHANGED localVars
                          ELSE Return(t, "save")
  /\ IF op[t] = "request" THEN Unlock(t) ELSE UNCHANGED lock

Save(t) ==
  /\ AfterSave(t)
  /\ disk' = IF buf[t].refresh = None THEN Empty ELSE buf[t]
  /\ UNCHANGED <<tok, backendVars, boundVars, historyVars>>

\* WriteFile does not open the file, or fails after it has truncated it; its
\* error is ignored.
SaveFails(t) ==
  /\ "write" \in May
  /\ AfterSave(t)
  /\ disk' \in IF buf[t].refresh = None THEN {disk} ELSE {disk, Empty}
  /\ Happens({"write"})
  /\ UNCHANGED <<tok, backendVars, boundVars, signedOut>>

Login(t) ==
  /\ Goto(t, "idle", "store")
  /\ Call(t, "login")
  /\ \E bare \in BOOLEAN : /\ Mint(bare)
                           /\ live' = IF bare THEN live ELSE live \cup {minted + 1}
                           /\ got' = [got EXCEPT ![t] = Reply(bare)]
  /\ UNCHANGED <<used, rt, buf, sent, tok, lock, disk, spent, historyVars>>

\* Fault: the refresh token stays.
LogoutAccessOnly(t) ==
  /\ Goto(t, "idle", "readback")
  /\ Call(t, "logout")
  /\ tok' = [tok EXCEPT !.access = None]
  /\ signedOut' = TRUE
  /\ UNCHANGED <<used, rt, got, buf, sent, lock, disk, backendVars, happened>>

\* ClearTokens; the last thing it does is tokenstore.Clear (OnLogout).
Logout(t) ==
  /\ Goto(t, "idle", "readback")
  /\ Call(t, "logout")
  /\ tok' = Empty
  /\ signedOut' = TRUE
  /\ Happens((IF Unsaved THEN {"overlap"} ELSE {}) \cup
             (IF \E u \in Callers : \/ op[u] = "request" /\ pc[u] \in {"post", "store"}
                                    \/ pc[u] = "save" /\ buf[u] # Empty
              THEN {"late"} ELSE {}))
  /\ UNCHANGED <<used, rt, got, buf, sent, lock, disk, backendVars>>

Wipe(t) ==
  /\ Return(t, "wipe")
  /\ disk' = Empty
  /\ UNCHANGED <<tok, lock, backendVars, boundVars, historyVars>>

WipeFails(t) ==
  /\ "write" \in May
  /\ Return(t, "wipe")
  /\ Happens({"write"})
  /\ UNCHANGED <<tok, lock, disk, backendVars, boundVars, signedOut>>

-----------------------------------------------------------------------------
(* The environment                                                         *)

\* An access token that is in use expires.
Expire ==
  /\ \E a \in fresh : /\ a = tok.access \/ \E t \in Callers : sent[t] = a
                      /\ fresh' = fresh \ {a}
  /\ UNCHANGED <<pc, localVars, tok, lock, disk, minted, live, spent, boundVars, historyVars>>

Revoke ==
  /\ "revoke" \in May /\ live # {}
  /\ live' = {} /\ fresh' = {}
  /\ Happens({"revoked"})
  /\ UNCHANGED <<pc, localVars, tok, lock, disk, minted, spent, boundVars, signedOut>>

\* The process ends, in the middle of a WriteFile perhaps, and starts again:
\* main loads the pair if it holds a refresh token.
Restart ==
  /\ restarts < MaxRestarts /\ restarts' = restarts + 1
  /\ disk' \in {disk} \cup (IF \E t \in Callers : pc[t] = "save" THEN {Empty} ELSE {})
  /\ tok' = disk' /\ lock' = NoOne
  /\ pc' = [t \in Callers |-> "idle"] 
  /\ op' = NoOp /\ used' = NoToken /\ sent' = NoToken /\ rt' = NoToken
  /\ got' = NoPair /\ buf' = NoPair
  /\ signedOut' = (signedOut /\ disk' = Empty)
  /\ Happens(IF disk'.refresh # tok.refresh \/ \E t \in Callers : pc[t] = "store"
             THEN {"strayed"} ELSE {})
  /\ UNCHANGED <<backendVars, calls>>

RequestStep(t) ==
  \/ Send(t) \/ Answered(t) \/ Refused(t) \/ Lock(t)
  \/ Latecomer(t) \/ NothingToRefresh(t) \/ Check(t)
  \/ Post(t) \/ PostLost(t) \/ PostReused(t) \/ PostFails(t)

ChangeStep(t) ==
  Store(t) \/ ReadBack(t) \/ Save(t) \/ SaveFails(t) \/ Wipe(t) \/ WipeFails(t)

Next ==
  \/ \E t \in Callers : \/ Request(t) \/ Login(t) \/ Logout(t)
                        \/ RequestStep(t) \/ ChangeStep(t)
  \/ Expire \/ Revoke \/ Restart

Spec == Init /\ [][Next]_vars

-----------------------------------------------------------------------------
(* Properties                                                              *)

\* The claim of single flight (backend.go:129-134): no refresh token is used
\* twice, whoever gets a 401 when, while replies arrive and the process does
\* not end with the disk behind.
NoReuse == "reused" \in happened => {"lost", "strayed"} \cap happened # {}

\* The user stays logged in: the refresh token in memory is one the backend
\* still honours, or its successor is on the way to memory. Reuse, which
\* revokes every session, would break it, and so would a successor dropped
\* or overwritten by the token it replaces.
SessionSurvives ==
  {"lost", "strayed", "revoked"} \cap happened = {} =>
    \/ tok.refresh = None
    \/ tok.refresh \in live
    \/ \E t \in Callers : pc[t] = "store" /\ rt[t] = tok.refresh

\* A refresh token is spent only when the access token in memory is one the
\* backend has already refused: latecomers take what the first one has got.
NoNeedlessRefresh ==
  [][\A t \in Callers : pc[t] = "check" /\ pc'[t] = "post" => tok.access \notin fresh]_vars

\* What a restart will load is what memory holds, as soon as nobody is about
\* to write it, unless a login or a logout overlapped another change.
DiskFollowsMemory ==
  {"overlap", "write"} \cap happened = {} /\ ~Unsaved => disk.refresh = tok.refresh

\* After a logout both tokens are gone, and when it has returned they are
\* gone from disk too; requests that were under way and had not begun to
\* refresh do not bring them back.
LogoutIsFinal ==
  signedOut /\ {"late", "write"} \cap happened = {} =>
    /\ tok = Empty
    /\ ~Unsaved => disk = Empty

\* refreshMu is held by exactly the goroutine that is refreshing. A path that
\* returned without releasing it would block every later 401 for good, one
\* that released it early would let two refreshes run.
SingleFlight ==
  \A t \in Callers :
    op[t] = "request" /\ pc[t] \in Locked <=> lock = t

-----------------------------------------------------------------------------
(* What a comment says and the code does not do                            *)

\* backend.go:187: ClearTokens "drops any stored tokens (logout) ... so no
\* tokens leak to disk". A refresh that was under way puts its new pair into
\* memory and onto disk when it ends: once every call has returned the user
\* who has logged out is logged in.
LogoutSticks ==
  signedOut /\ (\A t \in Callers : pc[t] = "idle") => tok = Empty
=============================================================================
