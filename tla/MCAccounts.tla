----------------------------- MODULE MCAccounts -----------------------------
(* Accounts, Access and Chats for TLC: a behaviour is about one aspect of an account, *)
(* about what its caller may call, or about a conversation; the modules share no state. *)
EXTENDS Accounts, MCAccess, Chats, TLC

CONSTANTS r1, r2, s1

MCRequest == {r1, r2}
MCSession == {s1}

Symmetry == Permutations(MCRequest)

VARIABLE aspect

\* The rows an aspect leaves as they were created.
Still(a) ==
  CASE a = "guessing" -> roleRow' /\ docs' = docs /\ user'.pwd = 0
                         /\ \A s \in Session : session'[s] = Free
    [] a = "sessions" -> roleRow' /\ docs' = docs /\ limit' = limit
                         /\ user'.tries = 0 /\ user'.resetTries = 0
    [] a = "records"  -> limit' = limit /\ user'.pwd = 0
                         /\ user'.tries = 0 /\ user'.resetTries = 0 /\ ~user'.reset

\* The other modules at rest.
NoAccess == AccessInit /\ grants = {}
Unborn == Init /\ user.role = "STAFF"

MCInit == /\ ChatsInit
          /\ \/ /\ Init /\ NoAccess
                /\ aspect \in {"guessing", "sessions", "records"}
                /\ aspect = "guessing" => user.role = "REGISTERED_USER"
                /\ aspect = "records" => user.role # "REGISTERED_USER"
             \/ AccessInit /\ Unborn /\ aspect = "access"
             \/ NoAccess /\ Unborn /\ aspect = "chat"

MCNext == /\ UNCHANGED aspect
          /\ \/ /\ aspect \notin {"access", "chat"}
                /\ Next /\ Still(aspect) /\ UNCHANGED <<accessVars, chatVars>>
             \/ aspect = "access" /\ AccessNext /\ UNCHANGED <<vars, chatVars>>
             \/ aspect = "chat" /\ ChatsNext /\ UNCHANGED <<vars, accessVars>>

MCSpec == MCInit /\ [][MCNext]_<<vars, accessVars, chatVars, aspect>>
=============================================================================
