---------------------------- MODULE SessionProofs ----------------------------
(***************************************************************************)
(* Theorems about Session for any number of goroutines, tokens, calls and  *)
(* restarts. The invariant has four parts, each with its own step lemma:   *)
(* who is where in which call and who holds refreshMu (ControlInv), which  *)
(* tokens can be where and that a reply on its way is new (TokenInv), which *)
(* tokens the backend honours (RotationInv) and refuses (RefusalInv), and  *)
(* what a logout and a save leave (LogoutInv, DiskInv).                     *)
(***************************************************************************)
EXTENDS Session, TLAPS

\* Which call a goroutine is in, told from where it is.
CallsFit ==
  \A t \in Callers :
    /\ pc[t] \in {"idle", "send", "answer", "lock", "check", "post"} => op[t] = "request"
    /\ pc[t] = "store" => op[t] # "logout"
    /\ pc[t] = "wipe" => op[t] = "logout"

ControlInv == TypeOK /\ CallsFit /\ SingleFlight

\* Tokens minted so far.
Issued == 1 .. minted \cup {None}
\* A reply that is on its way into memory.
InFlight(t) == pc[t] = "store"
\* Refreshing: the old refresh token is about to be used, or has been.
Refreshing(t) == op[t] = "request" /\ pc[t] \in {"post", "store"}

TokensIssued ==
  /\ tok.access \in Issued /\ tok.refresh \in Issued
  /\ disk.access \in Issued /\ disk.refresh \in Issued
  /\ \A t \in Callers :
       /\ used[t] \in Issued /\ sent[t] \in Issued /\ rt[t] \in Issued
       /\ got[t].access \in Issued /\ got[t].refresh \in Issued
       /\ buf[t].access \in Issued /\ buf[t].refresh \in Issued

\* Nobody has seen the tokens of a reply before it is stored.
RepliesUnseen ==
  \A t \in Callers : InFlight(t) =>
    /\ got[t].access # None /\ got[t].access # tok.access
    /\ \A u \in Callers : /\ used[u] # got[t].access
                          /\ InFlight(u) /\ u # t => got[u].access # got[t].access
    /\ got[t].refresh # None =>
         /\ got[t].refresh # tok.refresh
         /\ \A u \in Callers : /\ Refreshing(u) => rt[u] # got[t].refresh
                               /\ InFlight(u) /\ u # t => got[u].refresh # got[t].refresh

TokenInv == TokensIssued /\ RepliesUnseen

\* With no reply lost, nothing revoked and no restart behind the disk.
Unharmed == {"lost", "strayed"} \cap happened = {}

\* The refresh token in memory has not been used, unless its successor is on
\* its way; nor have those about to be used or stored.
NotSpent ==
  Unharmed =>
    /\ tok.refresh \in spent =>
         \E t \in Callers : InFlight(t) /\ op[t] = "request" /\ rt[t] = tok.refresh
    /\ \A t \in Callers :
         /\ pc[t] = "post" => rt[t] \notin spent
         /\ InFlight(t) => got[t].refresh \notin spent
         /\ InFlight(t) /\ op[t] = "request" /\ got[t].refresh = None => rt[t] \notin spent

RotationInv == NotSpent /\ NoReuse

\* The same with what the backend honours.
Honoured ==
  Unharmed /\ "revoked" \notin happened =>
    /\ tok.refresh \in live \cup {None} \/
         \E t \in Callers : InFlight(t) /\ op[t] = "request" /\ rt[t] = tok.refresh
    /\ \A t \in Callers :
         /\ InFlight(t) => got[t].refresh \in live \cup {None}
         /\ InFlight(t) /\ op[t] = "request" /\ got[t].refresh = None => rt[t] \in live

\* Between a 401 and the refresh, the token the goroutine noted is refused if
\* it is still the one in memory.
RefusalInv ==
  \A t \in Callers : used[t] = tok.access /\ used[t] # None =>
    /\ pc[t] = "answer" => sent[t] = used[t]
    /\ pc[t] \in {"lock", "check"} => used[t] \notin fresh

\* After a logout nobody is refreshing and nobody has tokens to save.
LogoutInv ==
  signedOut /\ {"late", "write"} \cap happened = {} =>
    /\ tok = Empty
    /\ \A t \in Callers : /\ pc[t] \in {"post", "store"} => op[t] # "request"
                          /\ pc[t] = "save" => buf[t] = Empty
    /\ ~Unsaved => disk = Empty

Unwritten(t) == pc[t] \in {"readback", "save", "wipe"}

\* One goroutine at a time writes the disk, and it writes what memory holds.
DiskInv ==
  {"overlap", "write"} \cap happened = {} =>
    /\ \A t, u \in Callers : Unwritten(t) /\ Unwritten(u) => t = u
    /\ \A t \in Callers : /\ pc[t] = "save" => buf[t] = tok
                          /\ Unwritten(t) /\ op[t] = "logout" => tok = Empty
    /\ ~Unsaved => disk.refresh = tok.refresh

IInv == ControlInv /\ TokenInv /\ RotationInv /\ Honoured /\ RefusalInv /\ LogoutInv /\ DiskInv

-----------------------------------------------------------------------------
(* Types and control                                                       *)

\* The empty token and the next number are none of the tokens there are.
LEMMA Numbers ==
  ASSUME TypeOK
  PROVE  /\ minted \in Nat /\ minted + 1 # None
         /\ minted + 1 \notin spent /\ minted + 1 \notin live /\ minted + 1 \notin Issued
         /\ None \notin spent /\ None \notin live /\ None \notin fresh
<1>1. /\ minted \in Nat
      /\ spent \subseteq 1 .. minted /\ live \subseteq 1 .. minted /\ fresh \subseteq 1 .. minted
  BY SessionAssumption DEF TypeOK
<1>2. minted + 1 \notin 1 .. minted /\ minted + 1 \in Nat /\ None \notin Nat
  BY <1>1, SessionAssumption
<1>3. None \notin 1 .. minted
  BY <1>1, <1>2
<1>4. minted + 1 # None
  BY <1>2
<1> HIDE DEF TypeOK
<1> QED
  BY <1>1, <1>2, <1>3, <1>4 DEF Issued

LEMMA MintTypes ==
  ASSUME TypeOK, NEW bare \in BOOLEAN, Mint(bare)
  PROVE  /\ minted' \in 0 .. MaxTokens /\ minted' = minted + 1
         /\ fresh' \subseteq 1 .. minted'
         /\ Reply(bare) \in Pairs
BY SessionAssumption DEF TypeOK, Mint, Reply, Pairs, Tokens

LEMMA ForgetTypes ==
  ASSUME TypeOK, NEW t \in Callers, Forget(t) \/ UNCHANGED localVars
  PROVE  /\ op' \in [Callers -> {"request", "login", "logout"}]
         /\ used' \in [Callers -> Tokens] /\ sent' \in [Callers -> Tokens]
         /\ rt' \in [Callers -> Tokens]
         /\ got' \in [Callers -> Pairs] /\ buf' \in [Callers -> Pairs]
<1>1. Empty \in Pairs /\ None \in Tokens
  BY DEF Empty, Pairs, Tokens
<1>2. CASE Forget(t)
  BY <1>1, <1>2 DEF TypeOK, Forget
<1>3. CASE UNCHANGED localVars
  BY <1>3 DEF TypeOK, localVars
<1> QED
  BY <1>2, <1>3

LEMMA AcceptTypes ==
  ASSUME TypeOK, NEW t \in Callers, NEW bare \in BOOLEAN, Accept(t, bare)
  PROVE  /\ minted' \in 0 .. MaxTokens
         /\ fresh' \subseteq 1 .. minted' /\ live' \subseteq 1 .. minted'
         /\ spent' \subseteq 1 .. minted'
         /\ Reply(bare) \in Pairs
<1>1. minted' = minted + 1 /\ minted \in Nat
  BY MintTypes DEF Accept, TypeOK
<1>2. live' \subseteq live \cup {minted + 1} /\ spent' \subseteq spent \cup live
  BY DEF Accept
<1> QED
  BY <1>1, <1>2, MintTypes DEF Accept, TypeOK

LEMMA SaveMoves ==
  ASSUME NEW t \in Callers, Save(t) \/ SaveFails(t)
  PROVE  /\ pc[t] = "save"
         /\ pc' = [pc EXCEPT ![t] = IF op[t] = "logout" THEN "wipe" ELSE "idle"]
         /\ lock' = IF op[t] = "request" THEN NoOne ELSE lock
         /\ IF op[t] = "logout" THEN UNCHANGED localVars ELSE Forget(t)
         /\ tok' = tok /\ UNCHANGED backendVars /\ signedOut' = signedOut
<1> HIDE DEF Forget, localVars, backendVars
<1> QED
  BY DEF Save, SaveFails, AfterSave, Return, Goto, Unlock, historyVars

LEMMA TypeStep == TypeOK /\ [Next]_vars => TypeOK'
<1> SUFFICES ASSUME TypeOK, [Next]_vars PROVE TypeOK'
  OBVIOUS
<1> USE SessionAssumption DEF localVars, backendVars, boundVars, historyVars, Goto, Return, Forget, Happens, Call, Unlock, AfterSave, Mint, Reply, Accept, Stored, NoOp, NoToken, NoPair, TypeOK, Labels, Mishaps, Pairs, Tokens, Empty
<1>1. ASSUME NEW t \in Callers, Request(t) PROVE TypeOK'
  BY <1>1 DEF Request
<1>2. ASSUME NEW t \in Callers, Send(t) PROVE TypeOK'
  BY <1>2 DEF Send
<1>3. ASSUME NEW t \in Callers, Answered(t) PROVE TypeOK'
  BY <1>3 DEF Answered
<1>4. ASSUME NEW t \in Callers, Refused(t) PROVE TypeOK'
  BY <1>4 DEF Refused
<1>5. ASSUME NEW t \in Callers, Lock(t) PROVE TypeOK'
  BY <1>5 DEF Lock
<1>6. ASSUME NEW t \in Callers, Latecomer(t) PROVE TypeOK'
  BY <1>6 DEF Latecomer
<1>7. ASSUME NEW t \in Callers, NothingToRefresh(t) PROVE TypeOK'
  BY <1>7 DEF NothingToRefresh
<1>8. ASSUME NEW t \in Callers, Check(t) PROVE TypeOK'
  BY <1>8 DEF Check
<1>9. ASSUME NEW t \in Callers, Post(t) PROVE TypeOK'
  <2>1. PICK bare \in BOOLEAN : Accept(t, bare) /\ got' = [got EXCEPT ![t] = Reply(bare)]
    BY <1>9 DEF Post
  <2>2. Reply(bare) \in Pairs
    BY <2>1, AcceptTypes
  <2> HIDE DEF Reply, Accept, Pairs
  <2> QED
    BY <1>9, <2>1, <2>2, AcceptTypes DEF Post
<1>10. ASSUME NEW t \in Callers, PostLost(t) PROVE TypeOK'
  <2> HIDE DEF Accept, Forget
  <2> QED
    BY <1>10, AcceptTypes, ForgetTypes DEF PostLost
<1>11. ASSUME NEW t \in Callers, PostReused(t) PROVE TypeOK'
  BY <1>11 DEF PostReused
<1>12. ASSUME NEW t \in Callers, PostFails(t) PROVE TypeOK'
  BY <1>12 DEF PostFails
<1>13. ASSUME NEW t \in Callers, Store(t) PROVE TypeOK'
  BY <1>13 DEF Store
<1>14. ASSUME NEW t \in Callers, ReadBack(t) PROVE TypeOK'
  BY <1>14 DEF ReadBack
<1>15. ASSUME NEW t \in Callers, Save(t) PROVE TypeOK'
  <2>1. disk' \in Pairs
    BY <1>15 DEF Save
  <2>2. Forget(t) \/ UNCHANGED localVars
    BY <1>15 DEF Save
  <2>3. pc' \in [Callers -> Labels] /\ lock' \in Callers \cup {NoOne}
    <3> HIDE DEF Pairs, Tokens, Mishaps, Forget, localVars
    <3> QED
      BY <1>15, SaveMoves
  <2> HIDE DEF Forget, localVars, Pairs, AfterSave
  <2> QED
    BY <1>15, <2>1, <2>2, <2>3, ForgetTypes DEF Save
<1>16. ASSUME NEW t \in Callers, SaveFails(t) PROVE TypeOK'
  <2>1. disk' \in Pairs
    BY <1>16 DEF SaveFails
  <2>2. Forget(t) \/ UNCHANGED localVars
    BY <1>16 DEF SaveFails
  <2>3. pc' \in [Callers -> Labels] /\ lock' \in Callers \cup {NoOne}
    <3> HIDE DEF Pairs, Tokens, Mishaps, Forget, localVars
    <3> QED
      BY <1>16, SaveMoves
  <2> HIDE DEF Forget, localVars, Pairs, AfterSave
  <2> QED
    BY <1>16, <2>1, <2>2, <2>3, ForgetTypes DEF SaveFails
<1>17. ASSUME NEW t \in Callers, Login(t) PROVE TypeOK'
  BY <1>17 DEF Login
<1>18. ASSUME NEW t \in Callers, Logout(t) PROVE TypeOK'
  BY <1>18 DEF Logout
<1>19. ASSUME NEW t \in Callers, Wipe(t) PROVE TypeOK'
  BY <1>19 DEF Wipe
<1>20. ASSUME NEW t \in Callers, WipeFails(t) PROVE TypeOK'
  BY <1>20 DEF WipeFails
<1>21. CASE Expire
  BY <1>21 DEF Expire
<1>22. CASE Revoke
  BY <1>22 DEF Revoke
<1>23. CASE Restart
  BY <1>23 DEF Restart
<1>24. CASE UNCHANGED vars
  BY <1>24 DEF vars
<1> QED
  BY <1>1, <1>2, <1>3, <1>4, <1>5, <1>6, <1>7, <1>8, <1>9, <1>10, <1>11, <1>12,
     <1>13, <1>14, <1>15, <1>16, <1>17, <1>18, <1>19, <1>20, <1>21, <1>22,
     <1>23, <1>24
  DEF Next, RequestStep, ChangeStep

LEMMA ControlStep == TypeOK /\ CallsFit /\ SingleFlight /\ [Next]_vars => (CallsFit /\ SingleFlight)'
<1> SUFFICES ASSUME TypeOK /\ CallsFit /\ SingleFlight, [Next]_vars PROVE (CallsFit /\ SingleFlight)'
  OBVIOUS
<1> USE SessionAssumption DEF localVars, Goto, Return, Forget, Call, Unlock, AfterSave, TypeOK, Labels, Locked, CallsFit, SingleFlight, NoOp
<1>1. ASSUME NEW t \in Callers, Request(t) PROVE (CallsFit /\ SingleFlight)'
  BY <1>1 DEF Request
<1>2. ASSUME NEW t \in Callers, Send(t) PROVE (CallsFit /\ SingleFlight)'
  BY <1>2 DEF Send
<1>3. ASSUME NEW t \in Callers, Answered(t) PROVE (CallsFit /\ SingleFlight)'
  BY <1>3 DEF Answered
<1>4. ASSUME NEW t \in Callers, Refused(t) PROVE (CallsFit /\ SingleFlight)'
  BY <1>4 DEF Refused
<1>5. ASSUME NEW t \in Callers, Lock(t) PROVE (CallsFit /\ SingleFlight)'
  BY <1>5 DEF Lock
<1>6. ASSUME NEW t \in Callers, Latecomer(t) PROVE (CallsFit /\ SingleFlight)'
  BY <1>6 DEF Latecomer
<1>7. ASSUME NEW t \in Callers, NothingToRefresh(t) PROVE (CallsFit /\ SingleFlight)'
  BY <1>7 DEF NothingToRefresh
<1>8. ASSUME NEW t \in Callers, Check(t) PROVE (CallsFit /\ SingleFlight)'
  BY <1>8 DEF Check
<1>9. ASSUME NEW t \in Callers, Post(t) PROVE (CallsFit /\ SingleFlight)'
  BY <1>9 DEF Post
<1>10. ASSUME NEW t \in Callers, PostLost(t) PROVE (CallsFit /\ SingleFlight)'
  BY <1>10 DEF PostLost
<1>11. ASSUME NEW t \in Callers, PostReused(t) PROVE (CallsFit /\ SingleFlight)'
  BY <1>11 DEF PostReused
<1>12. ASSUME NEW t \in Callers, PostFails(t) PROVE (CallsFit /\ SingleFlight)'
  BY <1>12 DEF PostFails
<1>13. ASSUME NEW t \in Callers, Store(t) PROVE (CallsFit /\ SingleFlight)'
  BY <1>13 DEF Store
<1>14. ASSUME NEW t \in Callers, ReadBack(t) PROVE (CallsFit /\ SingleFlight)'
  BY <1>14 DEF ReadBack
<1>15. ASSUME NEW t \in Callers, Save(t) PROVE (CallsFit /\ SingleFlight)'
  BY <1>15 DEF Save
<1>16. ASSUME NEW t \in Callers, SaveFails(t) PROVE (CallsFit /\ SingleFlight)'
  BY <1>16 DEF SaveFails
<1>17. ASSUME NEW t \in Callers, Login(t) PROVE (CallsFit /\ SingleFlight)'
  BY <1>17 DEF Login
<1>18. ASSUME NEW t \in Callers, Logout(t) PROVE (CallsFit /\ SingleFlight)'
  BY <1>18 DEF Logout
<1>19. ASSUME NEW t \in Callers, Wipe(t) PROVE (CallsFit /\ SingleFlight)'
  BY <1>19 DEF Wipe
<1>20. ASSUME NEW t \in Callers, WipeFails(t) PROVE (CallsFit /\ SingleFlight)'
  BY <1>20 DEF WipeFails
<1>21. CASE Expire
  BY <1>21 DEF Expire
<1>22. CASE Revoke
  BY <1>22 DEF Revoke
<1>23. CASE Restart
  BY <1>23 DEF Restart
<1>24. CASE UNCHANGED vars
  BY <1>24 DEF vars
<1> QED
  BY <1>1, <1>2, <1>3, <1>4, <1>5, <1>6, <1>7, <1>8, <1>9, <1>10, <1>11, <1>12,
     <1>13, <1>14, <1>15, <1>16, <1>17, <1>18, <1>19, <1>20, <1>21, <1>22,
     <1>23, <1>24
  DEF Next, RequestStep, ChangeStep

LEMMA IssuedStep == TypeOK /\ TokensIssued /\ [Next]_vars => TokensIssued'
<1> SUFFICES ASSUME TypeOK /\ TokensIssued, [Next]_vars PROVE TokensIssued'
  OBVIOUS
<1> USE SessionAssumption DEF localVars, backendVars, boundVars, historyVars, Goto, Return, Forget, Happens, Call, Unlock, AfterSave, Mint, Reply, Accept, Stored, NoOp, NoToken, NoPair, TypeOK, Pairs, Tokens, Empty, TokensIssued, Issued
<1>1. ASSUME NEW t \in Callers, Request(t) PROVE TokensIssued'
  BY <1>1 DEF Request
<1>2. ASSUME NEW t \in Callers, Send(t) PROVE TokensIssued'
  BY <1>2 DEF Send
<1>3. ASSUME NEW t \in Callers, Answered(t) PROVE TokensIssued'
  BY <1>3 DEF Answered
<1>4. ASSUME NEW t \in Callers, Refused(t) PROVE TokensIssued'
  BY <1>4 DEF Refused
<1>5. ASSUME NEW t \in Callers, Lock(t) PROVE TokensIssued'
  BY <1>5 DEF Lock
<1>6. ASSUME NEW t \in Callers, Latecomer(t) PROVE TokensIssued'
  BY <1>6 DEF Latecomer
<1>7. ASSUME NEW t \in Callers, NothingToRefresh(t) PROVE TokensIssued'
  BY <1>7 DEF NothingToRefresh
<1>8. ASSUME NEW t \in Callers, Check(t) PROVE TokensIssued'
  BY <1>8 DEF Check
<1>9. ASSUME NEW t \in Callers, Post(t) PROVE TokensIssued'
  BY <1>9 DEF Post
<1>10. ASSUME NEW t \in Callers, PostLost(t) PROVE TokensIssued'
  BY <1>10 DEF PostLost
<1>11. ASSUME NEW t \in Callers, PostReused(t) PROVE TokensIssued'
  BY <1>11 DEF PostReused
<1>12. ASSUME NEW t \in Callers, PostFails(t) PROVE TokensIssued'
  BY <1>12 DEF PostFails
<1>13. ASSUME NEW t \in Callers, Store(t) PROVE TokensIssued'
  BY <1>13 DEF Store
<1>14. ASSUME NEW t \in Callers, ReadBack(t) PROVE TokensIssued'
  BY <1>14 DEF ReadBack
<1>15. ASSUME NEW t \in Callers, Save(t) PROVE TokensIssued'
  <2>1. \A u \in Callers :
          /\ used'[u] \in {used[u], None} /\ sent'[u] \in {sent[u], None} /\ rt'[u] \in {rt[u], None}
          /\ got'[u] \in {got[u], Empty} /\ buf'[u] \in {buf[u], Empty}
    BY <1>15, SaveMoves
  <2>2. tok' = tok /\ minted' = minted
    BY <1>15 DEF Save
  <2>3. disk' \in {Empty, buf[t]}
    BY <1>15 DEF Save
  <2> HIDE DEF TypeOK, Pairs, Tokens
  <2> QED
    BY <2>1, <2>2, <2>3
<1>16. ASSUME NEW t \in Callers, SaveFails(t) PROVE TokensIssued'
  BY <1>16 DEF SaveFails
<1>17. ASSUME NEW t \in Callers, Login(t) PROVE TokensIssued'
  BY <1>17 DEF Login
<1>18. ASSUME NEW t \in Callers, Logout(t) PROVE TokensIssued'
  BY <1>18 DEF Logout
<1>19. ASSUME NEW t \in Callers, Wipe(t) PROVE TokensIssued'
  BY <1>19 DEF Wipe
<1>20. ASSUME NEW t \in Callers, WipeFails(t) PROVE TokensIssued'
  BY <1>20 DEF WipeFails
<1>21. CASE Expire
  BY <1>21 DEF Expire
<1>22. CASE Revoke
  BY <1>22 DEF Revoke
<1>23. CASE Restart
  BY <1>23 DEF Restart
<1>24. CASE UNCHANGED vars
  BY <1>24 DEF vars
<1> QED
  BY <1>1, <1>2, <1>3, <1>4, <1>5, <1>6, <1>7, <1>8, <1>9, <1>10, <1>11, <1>12,
     <1>13, <1>14, <1>15, <1>16, <1>17, <1>18, <1>19, <1>20, <1>21, <1>22,
     <1>23, <1>24
  DEF Next, RequestStep, ChangeStep

LEMMA UnseenStep == ControlInv /\ TokensIssued /\ RepliesUnseen /\ [Next]_vars => RepliesUnseen'
<1> SUFFICES ASSUME ControlInv /\ TokensIssued /\ RepliesUnseen, [Next]_vars PROVE RepliesUnseen'
  OBVIOUS
<1> USE SessionAssumption DEF localVars, backendVars, boundVars, historyVars, Goto, Return, Forget, Happens, Call, Unlock, AfterSave, Mint, Reply, Accept, Stored, NoOp, NoToken, NoPair, TypeOK, Pairs, Tokens, Empty, TokensIssued, Issued, RepliesUnseen, InFlight, Refreshing, ControlInv, CallsFit, SingleFlight, Locked
<1>1. ASSUME NEW t \in Callers, Request(t) PROVE RepliesUnseen'
  BY <1>1 DEF Request
<1>2. ASSUME NEW t \in Callers, Send(t) PROVE RepliesUnseen'
  BY <1>2 DEF Send
<1>3. ASSUME NEW t \in Callers, Answered(t) PROVE RepliesUnseen'
  BY <1>3 DEF Answered
<1>4. ASSUME NEW t \in Callers, Refused(t) PROVE RepliesUnseen'
  BY <1>4 DEF Refused
<1>5. ASSUME NEW t \in Callers, Lock(t) PROVE RepliesUnseen'
  BY <1>5 DEF Lock
<1>6. ASSUME NEW t \in Callers, Latecomer(t) PROVE RepliesUnseen'
  BY <1>6 DEF Latecomer
<1>7. ASSUME NEW t \in Callers, NothingToRefresh(t) PROVE RepliesUnseen'
  BY <1>7 DEF NothingToRefresh
<1>8. ASSUME NEW t \in Callers, Check(t) PROVE RepliesUnseen'
  BY <1>8 DEF Check
<1>9. ASSUME NEW t \in Callers, Post(t) PROVE RepliesUnseen'
  BY <1>9 DEF Post
<1>10. ASSUME NEW t \in Callers, PostLost(t) PROVE RepliesUnseen'
  BY <1>10 DEF PostLost
<1>11. ASSUME NEW t \in Callers, PostReused(t) PROVE RepliesUnseen'
  BY <1>11 DEF PostReused
<1>12. ASSUME NEW t \in Callers, PostFails(t) PROVE RepliesUnseen'
  BY <1>12 DEF PostFails
<1>13. ASSUME NEW t \in Callers, Store(t) PROVE RepliesUnseen'
  BY <1>13 DEF Store
<1>14. ASSUME NEW t \in Callers, ReadBack(t) PROVE RepliesUnseen'
  BY <1>14 DEF ReadBack
<1>15. ASSUME NEW t \in Callers, Save(t) PROVE RepliesUnseen'
  <2>1. CASE op[t] = "logout"
    BY <1>15, <2>1 DEF Save
  <2>2. CASE op[t] # "logout"
    <3>1. \A u \in Callers : /\ InFlight(u)' => InFlight(u) /\ got'[u] = got[u]
                             /\ used'[u] \in {used[u], None}
                             /\ Refreshing(u)' => Refreshing(u) /\ rt'[u] = rt[u]
      BY <1>15, <2>2 DEF Save
    <3>2. tok' = tok
      BY <1>15 DEF Save
    <3> QED
      BY <3>1, <3>2
  <2> QED
    BY <2>1, <2>2
<1>16. ASSUME NEW t \in Callers, SaveFails(t) PROVE RepliesUnseen'
  <2>1. CASE op[t] = "logout"
    BY <1>16, <2>1 DEF SaveFails
  <2>2. CASE op[t] # "logout"
    <3>1. \A u \in Callers : /\ InFlight(u)' => InFlight(u) /\ got'[u] = got[u]
                             /\ used'[u] \in {used[u], None}
                             /\ Refreshing(u)' => Refreshing(u) /\ rt'[u] = rt[u]
      BY <1>16, <2>2 DEF SaveFails
    <3>2. tok' = tok
      BY <1>16 DEF SaveFails
    <3> QED
      BY <3>1, <3>2
  <2> QED
    BY <2>1, <2>2
<1>17. ASSUME NEW t \in Callers, Login(t) PROVE RepliesUnseen'
  <2>1. PICK bare \in BOOLEAN : got' = [got EXCEPT ![t] = Reply(bare)]
    BY <1>17 DEF Login
  <2>2. /\ minted + 1 \notin Issued /\ minted + 1 # None
        /\ \A u \in Callers : u # t => InFlight(u)' = InFlight(u) /\ got'[u] = got[u]
        /\ \A u \in Callers : Refreshing(u)' => Refreshing(u)
        /\ used' = used /\ rt' = rt /\ tok' = tok
    BY <1>17, <2>1 DEF Login
  <2>3. got'[t].access = minted + 1 /\ got'[t].refresh \in {minted + 1, None}
    BY <2>1
  <2> QED
    BY <1>17, <2>2, <2>3 DEF Login
<1>18. ASSUME NEW t \in Callers, Logout(t) PROVE RepliesUnseen'
  BY <1>18 DEF Logout
<1>19. ASSUME NEW t \in Callers, Wipe(t) PROVE RepliesUnseen'
  BY <1>19 DEF Wipe
<1>20. ASSUME NEW t \in Callers, WipeFails(t) PROVE RepliesUnseen'
  BY <1>20 DEF WipeFails
<1>21. CASE Expire
  BY <1>21 DEF Expire
<1>22. CASE Revoke
  BY <1>22 DEF Revoke
<1>23. CASE Restart
  BY <1>23 DEF Restart
<1>24. CASE UNCHANGED vars
  BY <1>24 DEF vars
<1> QED
  BY <1>1, <1>2, <1>3, <1>4, <1>5, <1>6, <1>7, <1>8, <1>9, <1>10, <1>11, <1>12,
     <1>13, <1>14, <1>15, <1>16, <1>17, <1>18, <1>19, <1>20, <1>21, <1>22,
     <1>23, <1>24
  DEF Next, RequestStep, ChangeStep

LEMMA RefusalStep == ControlInv /\ TokenInv /\ RefusalInv /\ [Next]_vars => RefusalInv'
<1> SUFFICES ASSUME ControlInv /\ TokenInv /\ RefusalInv, [Next]_vars PROVE RefusalInv'
  OBVIOUS
<1> USE SessionAssumption DEF localVars, backendVars, boundVars, historyVars, Goto, Return, Forget, Happens, Call, Unlock, AfterSave, Mint, Reply, Accept, Stored, NoOp, NoToken, NoPair, TypeOK, Pairs, Tokens, Empty, TokenInv, TokensIssued, Issued, RepliesUnseen, InFlight, Refreshing, RefusalInv, Changed, ControlInv, CallsFit
<1>1. ASSUME NEW t \in Callers, Request(t) PROVE RefusalInv'
  BY <1>1 DEF Request
<1>2. ASSUME NEW t \in Callers, Send(t) PROVE RefusalInv'
  BY <1>2 DEF Send
<1>3. ASSUME NEW t \in Callers, Answered(t) PROVE RefusalInv'
  BY <1>3 DEF Answered
<1>4. ASSUME NEW t \in Callers, Refused(t) PROVE RefusalInv'
  BY <1>4 DEF Refused
<1>5. ASSUME NEW t \in Callers, Lock(t) PROVE RefusalInv'
  BY <1>5 DEF Lock
<1>6. ASSUME NEW t \in Callers, Latecomer(t) PROVE RefusalInv'
  BY <1>6 DEF Latecomer
<1>7. ASSUME NEW t \in Callers, NothingToRefresh(t) PROVE RefusalInv'
  BY <1>7 DEF NothingToRefresh
<1>8. ASSUME NEW t \in Callers, Check(t) PROVE RefusalInv'
  BY <1>8 DEF Check
<1>9. ASSUME NEW t \in Callers, Post(t) PROVE RefusalInv'
  BY <1>9 DEF Post
<1>10. ASSUME NEW t \in Callers, PostLost(t) PROVE RefusalInv'
  BY <1>10 DEF PostLost
<1>11. ASSUME NEW t \in Callers, PostReused(t) PROVE RefusalInv'
  BY <1>11 DEF PostReused
<1>12. ASSUME NEW t \in Callers, PostFails(t) PROVE RefusalInv'
  BY <1>12 DEF PostFails
<1>13. ASSUME NEW t \in Callers, Store(t) PROVE RefusalInv'
  BY <1>13 DEF Store
<1>14. ASSUME NEW t \in Callers, ReadBack(t) PROVE RefusalInv'
  BY <1>14 DEF ReadBack
<1>15. ASSUME NEW t \in Callers, Save(t) PROVE RefusalInv'
  BY <1>15 DEF Save
<1>16. ASSUME NEW t \in Callers, SaveFails(t) PROVE RefusalInv'
  BY <1>16 DEF SaveFails
<1>17. ASSUME NEW t \in Callers, Login(t) PROVE RefusalInv'
  BY <1>17 DEF Login
<1>18. ASSUME NEW t \in Callers, Logout(t) PROVE RefusalInv'
  BY <1>18 DEF Logout
<1>19. ASSUME NEW t \in Callers, Wipe(t) PROVE RefusalInv'
  BY <1>19 DEF Wipe
<1>20. ASSUME NEW t \in Callers, WipeFails(t) PROVE RefusalInv'
  BY <1>20 DEF WipeFails
<1>21. CASE Expire
  BY <1>21 DEF Expire
<1>22. CASE Revoke
  BY <1>22 DEF Revoke
<1>23. CASE Restart
  BY <1>23 DEF Restart
<1>24. CASE UNCHANGED vars
  BY <1>24 DEF vars
<1> QED
  BY <1>1, <1>2, <1>3, <1>4, <1>5, <1>6, <1>7, <1>8, <1>9, <1>10, <1>11, <1>12,
     <1>13, <1>14, <1>15, <1>16, <1>17, <1>18, <1>19, <1>20, <1>21, <1>22,
     <1>23, <1>24
  DEF Next, RequestStep, ChangeStep

LEMMA LogoutStep == ControlInv /\ LogoutInv /\ [Next]_vars => LogoutInv'
<1> SUFFICES ASSUME ControlInv /\ LogoutInv, [Next]_vars PROVE LogoutInv'
  OBVIOUS
<1> USE SessionAssumption DEF localVars, backendVars, boundVars, historyVars, Goto, Return, Forget, Happens, Call, Unlock, AfterSave, Mint, Reply, Accept, Stored, NoOp, NoToken, NoPair, TypeOK, Pairs, Tokens, Empty, LogoutInv, Unsaved, ControlInv, CallsFit, Mishaps
<1>1. ASSUME NEW t \in Callers, Request(t) PROVE LogoutInv'
  BY <1>1 DEF Request
<1>2. ASSUME NEW t \in Callers, Send(t) PROVE LogoutInv'
  BY <1>2 DEF Send
<1>3. ASSUME NEW t \in Callers, Answered(t) PROVE LogoutInv'
  BY <1>3 DEF Answered
<1>4. ASSUME NEW t \in Callers, Refused(t) PROVE LogoutInv'
  BY <1>4 DEF Refused
<1>5. ASSUME NEW t \in Callers, Lock(t) PROVE LogoutInv'
  BY <1>5 DEF Lock
<1>6. ASSUME NEW t \in Callers, Latecomer(t) PROVE LogoutInv'
  BY <1>6 DEF Latecomer
<1>7. ASSUME NEW t \in Callers, NothingToRefresh(t) PROVE LogoutInv'
  BY <1>7 DEF NothingToRefresh
<1>8. ASSUME NEW t \in Callers, Check(t) PROVE LogoutInv'
  BY <1>8 DEF Check
<1>9. ASSUME NEW t \in Callers, Post(t) PROVE LogoutInv'
  BY <1>9 DEF Post
<1>10. ASSUME NEW t \in Callers, PostLost(t) PROVE LogoutInv'
  BY <1>10 DEF PostLost
<1>11. ASSUME NEW t \in Callers, PostReused(t) PROVE LogoutInv'
  BY <1>11 DEF PostReused
<1>12. ASSUME NEW t \in Callers, PostFails(t) PROVE LogoutInv'
  BY <1>12 DEF PostFails
<1>13. ASSUME NEW t \in Callers, Store(t) PROVE LogoutInv'
  <2> SUFFICES ASSUME signedOut', {"late", "write"} \cap happened' = {}
               PROVE  LogoutInv'
    OBVIOUS
  <2>1. signedOut /\ {"late", "write"} \cap happened = {} /\ op[t] # "login" /\ pc[t] = "store"
    BY <1>13 DEF Store
  <2>2. op[t] = "request"
    BY <2>1
  <2> QED
    BY <2>1, <2>2
<1>14. ASSUME NEW t \in Callers, ReadBack(t) PROVE LogoutInv'
  BY <1>14 DEF ReadBack
<1>15. ASSUME NEW t \in Callers, Save(t) PROVE LogoutInv'
  <2> SUFFICES ASSUME signedOut', {"late", "write"} \cap happened' = {}
               PROVE  LogoutInv'
    OBVIOUS
  <2>1. signedOut /\ {"late", "write"} \cap happened = {} /\ buf[t] = Empty
    BY <1>15, SaveMoves DEF Save
  <2>2. tok' = Empty /\ disk' = Empty
    BY <1>15, <2>1 DEF Save
  <2>3. \A u \in Callers : u # t => pc'[u] = pc[u] /\ op'[u] = op[u] /\ buf'[u] = buf[u]
    <3> HIDE DEF Pairs, Tokens, Mishaps
    <3>1. UNCHANGED localVars \/ Forget(t)
      BY <1>15, SaveMoves
    <3>2. pc' = [pc EXCEPT ![t] = IF op[t] = "logout" THEN "wipe" ELSE "idle"]
      BY <1>15, SaveMoves
    <3> QED
      BY <3>1, <3>2
  <2>4. pc'[t] \in {"wipe", "idle"}
    <3>1. pc \in [Callers -> Labels]
      OBVIOUS
    <3> HIDE DEF TypeOK, Pairs, Tokens, Mishaps, Forget, localVars, LogoutInv, CallsFit, Labels
    <3> QED
      BY <3>1, <1>15, SaveMoves
  <2> HIDE DEF TypeOK, Pairs, Tokens, Forget, AfterSave
  <2> QED
    BY <2>1, <2>2, <2>3, <2>4
<1>16. ASSUME NEW t \in Callers, SaveFails(t) PROVE LogoutInv'
  BY <1>16 DEF SaveFails
<1>17. ASSUME NEW t \in Callers, Login(t) PROVE LogoutInv'
  BY <1>17 DEF Login
<1>18. ASSUME NEW t \in Callers, Logout(t) PROVE LogoutInv'
  BY <1>18 DEF Logout
<1>19. ASSUME NEW t \in Callers, Wipe(t) PROVE LogoutInv'
  BY <1>19 DEF Wipe
<1>20. ASSUME NEW t \in Callers, WipeFails(t) PROVE LogoutInv'
  BY <1>20 DEF WipeFails
<1>21. CASE Expire
  BY <1>21 DEF Expire
<1>22. CASE Revoke
  BY <1>22 DEF Revoke
<1>23. CASE Restart
  BY <1>23 DEF Restart
<1>24. CASE UNCHANGED vars
  BY <1>24 DEF vars
<1> QED
  BY <1>1, <1>2, <1>3, <1>4, <1>5, <1>6, <1>7, <1>8, <1>9, <1>10, <1>11, <1>12,
     <1>13, <1>14, <1>15, <1>16, <1>17, <1>18, <1>19, <1>20, <1>21, <1>22,
     <1>23, <1>24
  DEF Next, RequestStep, ChangeStep

LEMMA DiskStep == ControlInv /\ DiskInv /\ [Next]_vars => DiskInv'
<1> SUFFICES ASSUME ControlInv /\ DiskInv, [Next]_vars PROVE DiskInv'
  OBVIOUS
<1> USE SessionAssumption DEF localVars, backendVars, boundVars, historyVars, Goto, Return, Forget, Happens, Call, Unlock, AfterSave, Mint, Reply, Accept, Stored, NoOp, NoToken, NoPair, TypeOK, Pairs, Tokens, Empty, DiskInv, Unsaved, Unwritten, ControlInv, CallsFit, Mishaps
<1>1. ASSUME NEW t \in Callers, Request(t) PROVE DiskInv'
  BY <1>1 DEF Request
<1>2. ASSUME NEW t \in Callers, Send(t) PROVE DiskInv'
  BY <1>2 DEF Send
<1>3. ASSUME NEW t \in Callers, Answered(t) PROVE DiskInv'
  BY <1>3 DEF Answered
<1>4. ASSUME NEW t \in Callers, Refused(t) PROVE DiskInv'
  BY <1>4 DEF Refused
<1>5. ASSUME NEW t \in Callers, Lock(t) PROVE DiskInv'
  BY <1>5 DEF Lock
<1>6. ASSUME NEW t \in Callers, Latecomer(t) PROVE DiskInv'
  BY <1>6 DEF Latecomer
<1>7. ASSUME NEW t \in Callers, NothingToRefresh(t) PROVE DiskInv'
  BY <1>7 DEF NothingToRefresh
<1>8. ASSUME NEW t \in Callers, Check(t) PROVE DiskInv'
  BY <1>8 DEF Check
<1>9. ASSUME NEW t \in Callers, Post(t) PROVE DiskInv'
  BY <1>9 DEF Post
<1>10. ASSUME NEW t \in Callers, PostLost(t) PROVE DiskInv'
  BY <1>10 DEF PostLost
<1>11. ASSUME NEW t \in Callers, PostReused(t) PROVE DiskInv'
  BY <1>11 DEF PostReused
<1>12. ASSUME NEW t \in Callers, PostFails(t) PROVE DiskInv'
  BY <1>12 DEF PostFails
<1>13. ASSUME NEW t \in Callers, Store(t) PROVE DiskInv'
  <2> SUFFICES ASSUME {"overlap", "write"} \cap happened' = {}
               PROVE  DiskInv'
    OBVIOUS
  <2>1. ~Unsaved /\ pc' = [pc EXCEPT ![t] = "readback"] /\ op' = op /\ op[t] # "logout"
    BY <1>13 DEF Store
  <2>2. \A u \in Callers : Unwritten(u)' => u = t
    BY <2>1
  <2>3. Unsaved'
    BY <2>1
  <2> QED
    BY <2>1, <2>2, <2>3
<1>14. ASSUME NEW t \in Callers, ReadBack(t) PROVE DiskInv'
  BY <1>14 DEF ReadBack
<1>15. ASSUME NEW t \in Callers, Save(t) PROVE DiskInv'
  <2> SUFFICES ASSUME {"overlap", "write"} \cap happened = {}
               PROVE  DiskInv'
    BY <1>15 DEF Save
  <2>1. \A u \in Callers \ {t} : ~Unwritten(u) /\ ~Unwritten(u)'
    BY <1>15 DEF Save
  <2>2. disk'.refresh = tok.refresh /\ tok' = tok
    BY <1>15 DEF Save
  <2>3. CASE op[t] = "logout"
    BY <1>15, <2>1, <2>2, <2>3 DEF Save
  <2>4. CASE op[t] # "logout"
    BY <1>15, <2>1, <2>2, <2>4 DEF Save
  <2> QED
    BY <2>3, <2>4
<1>16. ASSUME NEW t \in Callers, SaveFails(t) PROVE DiskInv'
  BY <1>16 DEF SaveFails
<1>17. ASSUME NEW t \in Callers, Login(t) PROVE DiskInv'
  BY <1>17 DEF Login
<1>18. ASSUME NEW t \in Callers, Logout(t) PROVE DiskInv'
  BY <1>18 DEF Logout
<1>19. ASSUME NEW t \in Callers, Wipe(t) PROVE DiskInv'
  BY <1>19 DEF Wipe
<1>20. ASSUME NEW t \in Callers, WipeFails(t) PROVE DiskInv'
  BY <1>20 DEF WipeFails
<1>21. CASE Expire
  BY <1>21 DEF Expire
<1>22. CASE Revoke
  BY <1>22 DEF Revoke
<1>23. CASE Restart
  BY <1>23 DEF Restart
<1>24. CASE UNCHANGED vars
  BY <1>24 DEF vars
<1> QED
  BY <1>1, <1>2, <1>3, <1>4, <1>5, <1>6, <1>7, <1>8, <1>9, <1>10, <1>11, <1>12,
     <1>13, <1>14, <1>15, <1>16, <1>17, <1>18, <1>19, <1>20, <1>21, <1>22,
     <1>23, <1>24
  DEF Next, RequestStep, ChangeStep

LEMMA SpentStep == ControlInv /\ TokenInv /\ NotSpent /\ [Next]_vars => NotSpent'
<1> SUFFICES ASSUME ControlInv /\ TokenInv /\ NotSpent, [Next]_vars PROVE NotSpent'
  OBVIOUS
<1> USE SessionAssumption DEF localVars, backendVars, boundVars, historyVars, Goto, Return, Forget, Happens, Call, Unlock, AfterSave, Mint, Reply, Accept, Stored, NoOp, NoToken, NoPair, TypeOK, Pairs, Tokens, Empty, TokenInv, TokensIssued, Issued, RepliesUnseen, InFlight, Refreshing, NotSpent, Unharmed, ControlInv, CallsFit, SingleFlight, Locked, Mishaps
<1>1. ASSUME NEW t \in Callers, Request(t) PROVE NotSpent'
  BY <1>1 DEF Request
<1>2. ASSUME NEW t \in Callers, Send(t) PROVE NotSpent'
  BY <1>2 DEF Send
<1>3. ASSUME NEW t \in Callers, Answered(t) PROVE NotSpent'
  BY <1>3 DEF Answered
<1>4. ASSUME NEW t \in Callers, Refused(t) PROVE NotSpent'
  BY <1>4 DEF Refused
<1>5. ASSUME NEW t \in Callers, Lock(t) PROVE NotSpent'
  BY <1>5 DEF Lock
<1>6. ASSUME NEW t \in Callers, Latecomer(t) PROVE NotSpent'
  BY <1>6 DEF Latecomer
<1>7. ASSUME NEW t \in Callers, NothingToRefresh(t) PROVE NotSpent'
  BY <1>7 DEF NothingToRefresh
<1>8. ASSUME NEW t \in Callers, Check(t) PROVE NotSpent'
  BY <1>8 DEF Check
<1>9. ASSUME NEW t \in Callers, Post(t) PROVE NotSpent'
  <2> SUFFICES ASSUME Unharmed PROVE NotSpent'
    BY <1>9 DEF Post
  <2>1. PICK bare \in BOOLEAN : Accept(t, bare) /\ got' = [got EXCEPT ![t] = Reply(bare)]
    BY <1>9 DEF Post
  <2>2. minted + 1 \notin spent /\ minted + 1 # rt[t] /\ None \notin spent /\ None # minted + 1
    <3>1. rt[t] \in Issued
      OBVIOUS
    <3> QED
      BY <3>1, Numbers
  <2>3. rt[t] \in live /\ rt[t] \notin spent /\ op[t] = "request" /\ pc[t] = "post"
    BY <1>9, <2>1 DEF Post
  <2>4. \A u \in Callers : op[u] = "request" /\ pc[u] \in {"post", "store"} => u = t
    BY <1>9 DEF Post
  <2>5. /\ pc'[t] = "store" /\ rt' = rt /\ tok' = tok /\ op' = op
        /\ \A u \in Callers : u # t => pc'[u] = pc[u] /\ got'[u] = got[u]
    BY <1>9, <2>1 DEF Post
  <2>6. \A u \in Callers : u # t /\ InFlight(u) =>
          got[u].refresh \notin spent /\ got[u].refresh # rt[t]
    <3> SUFFICES ASSUME NEW u \in Callers, u # t, InFlight(u)
                 PROVE  got[u].refresh \notin spent /\ got[u].refresh # rt[t]
      OBVIOUS
    <3>1. rt[t] # None
      BY <2>3, Numbers
    <3>2. got[u].refresh # None => rt[t] # got[u].refresh
      BY <2>3
    <3> QED
      BY <3>1, <3>2
  <2>7. CASE bare
    <3>1. spent' = spent /\ got'[t].refresh = None
      BY <2>1, <2>7
    <3> QED
      BY <2>2, <2>3, <2>4, <2>5, <2>6, <3>1
  <2>8. CASE ~bare
    <3>1. spent' = spent \cup {rt[t]} /\ got'[t].refresh = minted + 1
      BY <2>1, <2>8
    <3> QED
      BY <2>2, <2>3, <2>4, <2>5, <2>6, <3>1
  <2> QED
    BY <2>7, <2>8
<1>10. ASSUME NEW t \in Callers, PostLost(t) PROVE NotSpent'
  BY <1>10 DEF PostLost
<1>11. ASSUME NEW t \in Callers, PostReused(t) PROVE NotSpent'
  BY <1>11 DEF PostReused
<1>12. ASSUME NEW t \in Callers, PostFails(t) PROVE NotSpent'
  BY <1>12 DEF PostFails
<1>13. ASSUME NEW t \in Callers, Store(t) PROVE NotSpent'
  BY <1>13 DEF Store
<1>14. ASSUME NEW t \in Callers, ReadBack(t) PROVE NotSpent'
  BY <1>14 DEF ReadBack
<1>15. ASSUME NEW t \in Callers, Save(t) PROVE NotSpent'
  BY <1>15 DEF Save
<1>16. ASSUME NEW t \in Callers, SaveFails(t) PROVE NotSpent'
  <2>1. /\ spent' = spent /\ tok' = tok /\ happened' = happened \cup {"write"}
        /\ pc[t] = "save" /\ pc'[t] \in {"idle", "wipe"}
        /\ \A u \in Callers : u # t =>
             pc'[u] = pc[u] /\ op'[u] = op[u] /\ got'[u] = got[u] /\ rt'[u] = rt[u]
    BY <1>16 DEF SaveFails
  <2> HIDE DEF TypeOK, Pairs, Tokens, TokenInv, TokensIssued, RepliesUnseen
  <2> QED
    BY <2>1
<1>17. ASSUME NEW t \in Callers, Login(t) PROVE NotSpent'
  <2>1. PICK bare \in BOOLEAN : got' = [got EXCEPT ![t] = Reply(bare)]
    BY <1>17 DEF Login
  <2>2. got'[t].refresh \notin spent
    <3>1. got'[t].refresh \in {minted + 1, None}
      BY <2>1
    <3> QED
      BY <3>1, Numbers
  <2>3. /\ spent' = spent /\ rt' = rt /\ tok' = tok /\ happened' = happened
        /\ op'[t] = "login" /\ pc'[t] = "store"
        /\ \A u \in Callers : u # t => pc'[u] = pc[u] /\ op'[u] = op[u] /\ got'[u] = got[u]
    BY <1>17, <2>1 DEF Login
  <2>4. pc[t] = "idle"
    BY <1>17 DEF Login
  <2> HIDE DEF Reply, TypeOK, Pairs, Tokens, TokenInv, TokensIssued, RepliesUnseen
  <2> QED
    BY <2>2, <2>3, <2>4
<1>18. ASSUME NEW t \in Callers, Logout(t) PROVE NotSpent'
  <2>1. /\ spent' = spent /\ rt' = rt /\ got' = got
        /\ op'[t] = "logout" /\ pc'[t] = "readback"
        /\ \A u \in Callers : u # t => pc'[u] = pc[u] /\ op'[u] = op[u]
    BY <1>18 DEF Logout
  <2>2. tok'.refresh = None /\ None \notin spent
    BY <1>18, Numbers DEF Logout
  <2>3. Unharmed' => Unharmed
    BY <1>18 DEF Logout
  <2> HIDE DEF TypeOK, Pairs, Tokens, TokenInv, TokensIssued, RepliesUnseen
  <2> QED
    BY <2>1, <2>2, <2>3
<1>19. ASSUME NEW t \in Callers, Wipe(t) PROVE NotSpent'
  BY <1>19 DEF Wipe
<1>20. ASSUME NEW t \in Callers, WipeFails(t) PROVE NotSpent'
  BY <1>20 DEF WipeFails
<1>21. CASE Expire
  BY <1>21 DEF Expire
<1>22. CASE Revoke
  BY <1>22 DEF Revoke
<1>23. CASE Restart
  BY <1>23 DEF Restart
<1>24. CASE UNCHANGED vars
  BY <1>24 DEF vars
<1> QED
  BY <1>1, <1>2, <1>3, <1>4, <1>5, <1>6, <1>7, <1>8, <1>9, <1>10, <1>11, <1>12,
     <1>13, <1>14, <1>15, <1>16, <1>17, <1>18, <1>19, <1>20, <1>21, <1>22,
     <1>23, <1>24
  DEF Next, RequestStep, ChangeStep

LEMMA HonouredStep == ControlInv /\ TokenInv /\ RotationInv /\ Honoured /\ [Next]_vars => Honoured'
<1> SUFFICES ASSUME ControlInv /\ TokenInv /\ RotationInv /\ Honoured, [Next]_vars PROVE Honoured'
  OBVIOUS
<1> USE SessionAssumption DEF localVars, backendVars, boundVars, historyVars, Goto, Return, Forget, Happens, Call, Unlock, AfterSave, Mint, Reply, Accept, Stored, NoOp, NoToken, NoPair, TypeOK, Pairs, Tokens, Empty, TokenInv, TokensIssued, Issued, RepliesUnseen, InFlight, Refreshing, RotationInv, NotSpent, Honoured, Unharmed, ControlInv, CallsFit, SingleFlight, Locked, Mishaps
<1>1. ASSUME NEW t \in Callers, Request(t) PROVE Honoured'
  BY <1>1 DEF Request
<1>2. ASSUME NEW t \in Callers, Send(t) PROVE Honoured'
  BY <1>2 DEF Send
<1>3. ASSUME NEW t \in Callers, Answered(t) PROVE Honoured'
  BY <1>3 DEF Answered
<1>4. ASSUME NEW t \in Callers, Refused(t) PROVE Honoured'
  BY <1>4 DEF Refused
<1>5. ASSUME NEW t \in Callers, Lock(t) PROVE Honoured'
  BY <1>5 DEF Lock
<1>6. ASSUME NEW t \in Callers, Latecomer(t) PROVE Honoured'
  BY <1>6 DEF Latecomer
<1>7. ASSUME NEW t \in Callers, NothingToRefresh(t) PROVE Honoured'
  BY <1>7 DEF NothingToRefresh
<1>8. ASSUME NEW t \in Callers, Check(t) PROVE Honoured'
  BY <1>8 DEF Check
<1>9. ASSUME NEW t \in Callers, Post(t) PROVE Honoured'
  BY <1>9 DEF Post
<1>10. ASSUME NEW t \in Callers, PostLost(t) PROVE Honoured'
  BY <1>10 DEF PostLost
<1>11. ASSUME NEW t \in Callers, PostReused(t) PROVE Honoured'
  BY <1>11 DEF PostReused
<1>12. ASSUME NEW t \in Callers, PostFails(t) PROVE Honoured'
  BY <1>12 DEF PostFails
<1>13. ASSUME NEW t \in Callers, Store(t) PROVE Honoured'
  BY <1>13 DEF Store
<1>14. ASSUME NEW t \in Callers, ReadBack(t) PROVE Honoured'
  BY <1>14 DEF ReadBack
<1>15. ASSUME NEW t \in Callers, Save(t) PROVE Honoured'
  <2>1. live' = live /\ tok' = tok /\ happened' = happened
    BY <1>15 DEF Save
  <2>2. pc[t] = "save" /\ pc'[t] \in {"idle", "wipe"}
    BY <1>15 DEF Save
  <2>3. \A u \in Callers : u # t => /\ pc'[u] = pc[u] /\ op'[u] = op[u]
                                    /\ got'[u] = got[u] /\ rt'[u] = rt[u]
    BY <1>15 DEF Save
  <2> HIDE DEF TypeOK, Pairs, Tokens, TokenInv, TokensIssued, RepliesUnseen
  <2> QED
    BY <2>1, <2>2, <2>3
<1>16. ASSUME NEW t \in Callers, SaveFails(t) PROVE Honoured'
  BY <1>16 DEF SaveFails
<1>17. ASSUME NEW t \in Callers, Login(t) PROVE Honoured'
  BY <1>17 DEF Login
<1>18. ASSUME NEW t \in Callers, Logout(t) PROVE Honoured'
  BY <1>18 DEF Logout
<1>19. ASSUME NEW t \in Callers, Wipe(t) PROVE Honoured'
  BY <1>19 DEF Wipe
<1>20. ASSUME NEW t \in Callers, WipeFails(t) PROVE Honoured'
  BY <1>20 DEF WipeFails
<1>21. CASE Expire
  BY <1>21 DEF Expire
<1>22. CASE Revoke
  BY <1>22 DEF Revoke
<1>23. CASE Restart
  BY <1>23 DEF Restart
<1>24. CASE UNCHANGED vars
  BY <1>24 DEF vars
<1> QED
  BY <1>1, <1>2, <1>3, <1>4, <1>5, <1>6, <1>7, <1>8, <1>9, <1>10, <1>11, <1>12,
     <1>13, <1>14, <1>15, <1>16, <1>17, <1>18, <1>19, <1>20, <1>21, <1>22,
     <1>23, <1>24
  DEF Next, RequestStep, ChangeStep

LEMMA ReuseStep == NoReuse /\ NotSpent /\ [Next]_vars => NoReuse'
<1> SUFFICES ASSUME NoReuse, NotSpent, [Next]_vars PROVE NoReuse'
  OBVIOUS
<1>1. ASSUME NEW t \in Callers, PostReused(t) PROVE NoReuse'
  <2>1. ~Unharmed
    BY <1>1 DEF PostReused, Return, Goto, NotSpent
  <2> QED
    BY <1>1, <2>1 DEF PostReused, Happens, Unharmed, NoReuse
<1>2. CASE happened \subseteq happened' /\ ("reused" \in happened' => "reused" \in happened)
  BY <1>2 DEF NoReuse
<1>3. ASSUME ~ \E t \in Callers : PostReused(t)
      PROVE  happened \subseteq happened' /\ ("reused" \in happened' => "reused" \in happened)
  BY <1>3 DEF Next, RequestStep, ChangeStep, vars, historyVars, Happens, Request, Send, Answered,
              Refused, Lock, Latecomer, NothingToRefresh, Check, Post, PostLost, PostFails, Store,
              ReadBack, Save, SaveFails, Login, Logout, Wipe, WipeFails, Expire, Revoke, Restart
<1> QED
  BY <1>1, <1>2, <1>3

-----------------------------------------------------------------------------
(* The invariant                                                           *)

LEMMA InitInvariant == Init => IInv
<1> SUFFICES ASSUME Init PROVE IInv
  OBVIOUS
<1> USE SessionAssumption DEF Init, Empty, Saved, NoOp, NoToken, NoPair
<1>1. TypeOK
  <2>1. Empty \in Pairs /\ Saved \in Pairs /\ None \in Tokens
    BY DEF Pairs, Tokens
  <2> HIDE DEF Pairs, Empty, Saved
  <2>2. tok \in Pairs /\ disk \in Pairs
    BY <2>1
  <2>3. /\ minted \in 0 .. MaxTokens
        /\ fresh \subseteq 1 .. minted /\ live \subseteq 1 .. minted /\ spent \subseteq 1 .. minted
    OBVIOUS
  <2> QED
    BY <2>1, <2>2, <2>3 DEF TypeOK, Labels, Mishaps
<1>2. CallsFit /\ SingleFlight
  BY DEF CallsFit, SingleFlight, Locked
<1>3. TokensIssued
  BY DEF TokensIssued, Issued
<1>4. RepliesUnseen /\ NotSpent /\ NoReuse /\ RefusalInv
  BY DEF RepliesUnseen, NotSpent, NoReuse, RefusalInv, InFlight
<1>5. Honoured
  BY DEF Honoured, InFlight
<1>6. LogoutInv /\ DiskInv
  BY DEF LogoutInv, DiskInv, Unwritten, Unsaved
<1> QED
  BY <1>1, <1>2, <1>3, <1>4, <1>5, <1>6 DEF IInv, ControlInv, TokenInv, RotationInv

\* What every step keeps.
THEOREM SessionInvariant == Spec => []IInv
<1>1. IInv /\ [Next]_vars => IInv'
  BY TypeStep, ControlStep, IssuedStep, UnseenStep, SpentStep, ReuseStep, HonouredStep,
     RefusalStep, LogoutStep, DiskStep
  DEF IInv, ControlInv, TokenInv, RotationInv
<1> QED
  BY <1>1, InitInvariant, PTL DEF Spec

\* Every state is one the code's variables can hold.
THEOREM SessionTypeOK == Spec => []TypeOK
<1>1. IInv => TypeOK  BY DEF IInv, ControlInv
<1> QED  BY <1>1, SessionInvariant, PTL

\* refreshMu is held by the refreshing goroutine and by nobody else.
THEOREM SessionSingleFlight == Spec => []SingleFlight
<1>1. IInv => SingleFlight  BY DEF IInv, ControlInv
<1> QED  BY <1>1, SessionInvariant, PTL

\* No refresh token is used twice while replies arrive and the disk keeps up
\* with the process, however many goroutines get a 401 together.
THEOREM SessionNoReuse == Spec => []NoReuse
<1>1. IInv => NoReuse  BY DEF IInv, RotationInv
<1> QED  BY <1>1, SessionInvariant, PTL

\* The refresh token in memory stays one the backend honours.
THEOREM SessionSurvivesAlways == Spec => []SessionSurvives
<1>1. IInv => SessionSurvives
  BY DEF IInv, Honoured, SessionSurvives, Unharmed, InFlight
<1> QED  BY <1>1, SessionInvariant, PTL

\* A refresh is spent only on an access token the backend has refused.
THEOREM SessionNoNeedlessRefresh == Spec => NoNeedlessRefresh
<1> DEFINE A == \A t \in Callers : pc[t] = "check" /\ pc'[t] = "post" => tok.access \notin fresh
<1>1. IInv /\ [Next]_vars => [A]_vars
  <2> SUFFICES ASSUME IInv, Next, NEW t \in Callers, pc[t] = "check", pc'[t] = "post"
               PROVE  tok.access \notin fresh
    BY DEF vars
  <2>1. pc \in [Callers -> Labels]
    BY DEF IInv, ControlInv, TypeOK
  <2>2. Check(t)
    <3> USE <2>1 DEF Goto, Return
    <3>1. ~ \E u \in Callers : Request(u) \/ Login(u) \/ Logout(u) \/ Store(u) \/ ReadBack(u)
      BY DEF Request, Login, Logout, Store, ReadBack
    <3>2. ~ \E u \in Callers : Save(u) \/ SaveFails(u) \/ Wipe(u) \/ WipeFails(u)
      BY DEF Save, SaveFails, AfterSave, Wipe, WipeFails
    <3>3. ~ \E u \in Callers : Send(u) \/ Answered(u) \/ Refused(u) \/ Lock(u) \/ Latecomer(u)
      BY DEF Send, Answered, Refused, Lock, Latecomer
    <3>4. ~ \E u \in Callers : \/ NothingToRefresh(u) \/ Post(u) \/ PostLost(u)
                               \/ PostReused(u) \/ PostFails(u)
      BY DEF NothingToRefresh, Post, PostLost, PostReused, PostFails
    <3>5. ~(Expire \/ Revoke \/ Restart)
      BY DEF Expire, Revoke, Restart
    <3>6. PICK u \in Callers : Check(u)
      BY <3>1, <3>2, <3>3, <3>4, <3>5 DEF Next, RequestStep, ChangeStep
    <3> QED
      BY <3>6 DEF Check
  <2>3. CASE tok.access = None
    BY <2>3, Numbers DEF IInv, ControlInv
  <2>4. CASE tok.access # None
    <3>1. tok.access = used[t]
      BY <2>2, <2>4 DEF Check, Changed
    <3> QED
      BY <3>1, <2>4 DEF IInv, RefusalInv
  <2> QED
    BY <2>3, <2>4
<1> QED  BY <1>1, SessionInvariant, PTL DEF Spec, NoNeedlessRefresh

\* What a restart will load is what memory holds.
THEOREM SessionDiskFollowsMemory == Spec => []DiskFollowsMemory
<1>1. IInv => DiskFollowsMemory  BY DEF IInv, DiskInv, DiskFollowsMemory
<1> QED  BY <1>1, SessionInvariant, PTL

\* A logout that no refresh and no save overlaps is final.
THEOREM SessionLogoutIsFinal == Spec => []LogoutIsFinal
<1>1. IInv => LogoutIsFinal  BY DEF IInv, LogoutInv, LogoutIsFinal
<1> QED  BY <1>1, SessionInvariant, PTL
=============================================================================
