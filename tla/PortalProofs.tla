----------------------------- MODULE PortalProofs -----------------------------
(***************************************************************************)
(* Theorems about CliSession, and about MCPortal: every part keeps, beside *)
(* the others, the specification its own theorems are about.               *)
(***************************************************************************)
EXTENDS MCPortal, ReadsProofs, HelmReleaseProofs

(***************************************************************************)
(* CliSession: the types                                                   *)
(***************************************************************************)

\* A step that only says how a command goes on or ends keeps these types.
LEMMA GotoTypes ==
    ASSUME CliTypeOK, NEW c \in Cmd, NEW where \in PCs, Goto(c, where)
    PROVE  pc' \in [Cmd -> PCs] /\ outcome' \in [Cmd -> Outcomes]
  BY DEF CliTypeOK, Goto

LEMMA TellTypes ==
    ASSUME CliTypeOK, NEW c \in Cmd, NEW what \in Outcomes, Tell(c, what)
    PROVE  pc' \in [Cmd -> PCs] /\ outcome' \in [Cmd -> Outcomes]
  BY DEF CliTypeOK, Tell, PCs

LEMMA ReadTypes ==
    ASSUME CliTypeOK, NEW c \in Cmd, NEW fresh \in PCs, NEW stale \in PCs,
           ReadToken(c, fresh, stale)
    PROVE  /\ pc' \in [Cmd -> PCs] /\ outcome' \in [Cmd -> Outcomes]
           /\ tok' \in [Cmd -> StoredToken]
<1>1. {"not logged in", "unreadable"} \subseteq Outcomes
  BY DEF Outcomes
<1>2. CASE token = NoFile /\ UNCHANGED tok
            /\ Tell(c, IF pc[c] = "start" THEN "not logged in" ELSE "unreadable")
  BY <1>1, <1>2, TellTypes DEF CliTypeOK
<1>3. CASE Tell(c, "unreadable") /\ UNCHANGED tok
  BY <1>1, <1>3, TellTypes DEF CliTypeOK
<1>4. CASE token \in StoredToken /\ tok' = [tok EXCEPT ![c] = token]
            /\ Goto(c, IF IsExpired(token) THEN stale ELSE fresh)
  BY <1>4, GotoTypes DEF CliTypeOK
<1> QED
  BY <1>2, <1>3, <1>4 DEF ReadToken

\* What the provider answers is a token, while it has serial numbers left.
LEMMA NewTokenType ==
    ASSUME CliTypeOK, NEW t \in StoredToken, issued[t.login] < MaxRefresh
    PROVE  /\ refreshed(t) \in StoredToken /\ refreshed(t).login = t.login
           /\ refreshed(t).refresh = IF rotates THEN issued[t.login] + 1 ELSE 0
           /\ issued[t.login] + 1 \in Serial
<1>1. t.login \in Login /\ issued[t.login] \in Serial
  BY DEF CliTypeOK, StoredToken
<1>2. issued[t.login] + 1 \in Serial /\ 0 \in Serial
  BY <1>1, CliConstants DEF Serial
<1>3. refreshed(t) = [login |-> t.login, access |-> issued[t.login] + 1,
                      refresh |-> IF rotates THEN issued[t.login] + 1 ELSE 0]
  BY DEF refreshed, NewToken
<1> QED
  BY <1>1, <1>2, <1>3 DEF StoredToken

LEMMA FirstToken == NoToken \in StoredToken
<1>1. 1 \in Login /\ 0 \in Serial
  BY CliConstants DEF Login, Serial
<1> QED
  BY <1>1 DEF NoToken, StoredToken

LEMMA CliInitTypes == CliInit => CliTypeOK
<1> SUFFICES ASSUME CliInit PROVE CliTypeOK
  OBVIOUS
<1>1. 1 \in Login /\ 1 \in 0..MaxLogin /\ 0 \in Serial
  BY CliConstants DEF Login, Serial
<1> QED
  BY <1>1, FirstToken DEF CliInit, CliTypeOK, PCs, Outcomes, Answers

LEMMA HangUpTypes ==
    ASSUME CliTypeOK, NEW c \in Cmd, HangUp(c) PROVE answer' \in [Cmd -> Answers]
  BY DEF CliTypeOK, HangUp, Answers

LEMMA CliStepTypes ==
    ASSUME CliTypeOK, NEW c \in Cmd, CommandStep(c) PROVE CliTypeOK'
<1> DEFINE Others == /\ token' \in StoredToken \cup {NoFile, Emptied, Garbage} /\ inode' \in Nat
                     /\ asked' \in [Cmd -> CmdAsked] /\ fd' \in [Cmd -> Nat]
                     /\ expired' \subseteq Login \X Serial
                     /\ environment' \in Cmd \cup {"none"} /\ rotates' \in BOOLEAN
                     /\ killed' \in BOOLEAN /\ overlapped' \in BOOLEAN
                     /\ owner' \in 0..MaxLogin /\ contested' \in BOOLEAN
                     /\ answer' \in [Cmd -> Answers]
<1> DEFINE Held == tok' \in [Cmd -> StoredToken] /\ issued' \in [Login -> Serial]
                   /\ logins' \in 0..MaxLogin /\ orphaned' \subseteq Login
<1> DEFINE Stand == pc' \in [Cmd -> PCs] /\ outcome' \in [Cmd -> Outcomes]
<1>1. SUFFICES Others /\ Held /\ Stand
  BY DEF CliTypeOK
<1>2. \A x \in {"ok", "usage", "not logged in", "unreadable",
                "conflict", "refused", "failed", "killed"} : x \in Outcomes
  BY DEF Outcomes
<1>3. \A x \in {"refresh", "write", "fill", "run", "call", "sent"} : x \in PCs
  BY DEF PCs
<1>4. tok[c] \in StoredToken /\ tok[c].login \in Login
  BY DEF CliTypeOK, StoredToken
<1>5. CASE PreRun(c)
  <2>1. Others /\ issued' \in [Login -> Serial] /\ logins' \in 0..MaxLogin /\ orphaned' \subseteq Login
    BY <1>5 DEF PreRun, disk, idp, CliTypeOK
  <2> QED
    BY <1>3, <1>5, <2>1, ReadTypes DEF PreRun
<1>6. CASE RefreshToken(c)
  <2>1. Others /\ logins' \in 0..MaxLogin
    BY <1>6 DEF RefreshToken, disk, CliTypeOK
  <2>2. CASE issued[tok[c].login] < MaxRefresh
              /\ issued' = [issued EXCEPT ![tok[c].login] = @ + 1]
              /\ Goto(c, "write") /\ tok' = [tok EXCEPT ![c] = refreshed(tok[c])]
              /\ UNCHANGED orphaned
    BY <1>3, <1>4, <2>1, <2>2, GotoTypes, NewTokenType DEF CliTypeOK
  <2>3. CASE issued[tok[c].login] < MaxRefresh
              /\ issued' = [issued EXCEPT ![tok[c].login] = @ + 1]
              /\ Tell(c, "not logged in") /\ orphaned' = orphaned \cup {tok[c].login}
              /\ UNCHANGED tok
    BY <1>2, <1>4, <2>1, <2>3, TellTypes, NewTokenType DEF CliTypeOK
  <2>4. CASE Tell(c, "not logged in") /\ UNCHANGED <<tok, issued, orphaned>>
    BY <1>2, <2>1, <2>4, TellTypes DEF CliTypeOK
  <2> QED
    BY <1>6, <2>2, <2>3, <2>4 DEF RefreshToken
<1>7. CASE runLogin(c)
  <2>1. Others /\ issued' \in [Login -> Serial] /\ orphaned' \subseteq Login
    BY <1>7 DEF runLogin, disk, CliTypeOK
  <2>2. CASE logins < MaxLogin /\ logins' = logins + 1 /\ Goto(c, "write")
              /\ tok' = [tok EXCEPT ![c] = [login |-> logins', access |-> 0, refresh |-> 0]]
    <3>1. logins' \in 0..MaxLogin /\ logins' \in Login /\ 0 \in Serial
      BY <2>2, CliConstants DEF CliTypeOK, Login, Serial
    <3>2. [login |-> logins', access |-> 0, refresh |-> 0] \in StoredToken
      BY <3>1 DEF StoredToken
    <3> QED
      BY <1>3, <2>1, <2>2, <3>1, <3>2, GotoTypes DEF CliTypeOK
  <2>3. CASE Tell(c, "failed") /\ UNCHANGED <<tok, logins>>
    BY <1>2, <2>1, <2>3, TellTypes DEF CliTypeOK
  <2> QED
    BY <1>7, <2>2, <2>3 DEF runLogin
<1>8. CASE OpenToken(c)
  <2>1. Others /\ Held
    BY <1>8 DEF OpenToken, OpenTruncated, idp, CliTypeOK
  <2> QED
    BY <1>3, <1>8, <2>1, GotoTypes DEF OpenToken
<1>9. CASE FillToken(c)
  <2>1. Others
    <3>1. /\ token' \in StoredToken \cup {NoFile, Emptied, Garbage}
          /\ owner' \in 0..MaxLogin /\ contested' \in BOOLEAN
      <4>1. token' \in StoredToken \cup {NoFile, Emptied, Garbage}
        BY <1>4, <1>9 DEF FillToken, CliTypeOK
      <4>2. tok[c].login \in 0..MaxLogin
        BY <1>4, CliConstants DEF Login
      <4>3. owner' = tok[c].login \/ owner' = owner
        BY <1>9 DEF FillToken
      <4>4. contested' \in BOOLEAN
        BY <1>9 DEF FillToken, CliTypeOK
      <4> QED
        BY <4>1, <4>2, <4>3, <4>4 DEF CliTypeOK
    <3> QED
      BY <1>9, <3>1 DEF FillToken, CliTypeOK, idp
  <2>2. Held
    BY <1>9 DEF FillToken, idp, CliTypeOK
  <2>3. Stand
    <3>1. Tell(c, "ok") \/ Goto(c, "run")
      BY <1>9 DEF FillToken
    <3> QED
      BY <1>2, <1>3, <3>1, GotoTypes, TellTypes
  <2> QED
    BY <2>1, <2>2, <2>3
<1>10. CASE Logout(c)
  <2>1. Others /\ Held
    BY <1>10, CliConstants DEF Logout, DeleteToken, idp, CliTypeOK
  <2> QED
    BY <1>2, <1>10, <2>1, TellTypes DEF Logout
<1>11. CASE Run(c)
  <2>1. Others /\ issued' \in [Login -> Serial] /\ logins' \in 0..MaxLogin /\ orphaned' \subseteq Login
    BY <1>11 DEF Run, disk, idp, CliTypeOK
  <2>2. CASE Tell(c, "usage") /\ UNCHANGED tok
    BY <1>2, <2>1, <2>2, TellTypes DEF CliTypeOK
  <2>3. CASE ReadToken(c, "call", "call")
    BY <1>3, <2>1, <2>3, ReadTypes
  <2> QED
    BY <1>11, <2>2, <2>3 DEF Run
<1>12. CASE Call(c)
  <2>1. Others /\ Held
    BY <1>12 DEF Call, Answers, disk, idp, CliTypeOK
  <2> QED
    BY <1>3, <1>12, <2>1, GotoTypes DEF Call
<1>13. CASE Report(c)
  <2>1. Others /\ Held
    BY <1>13, HangUpTypes DEF Report, disk, idp, CliTypeOK
  <2>2. Success(c) \in Outcomes /\ answer[c] \in Answers
    BY <1>2 DEF Success, CliTypeOK
  <2>3. \E x \in Outcomes : Tell(c, x)
    BY <1>2, <1>13, <2>2 DEF Report, NoAnswer, Answers, Outcomes
  <2> QED
    BY <2>1, <2>3, TellTypes
<1>14. CASE Kill(c)
  <2>1. Others /\ Held
    BY <1>4, <1>14, HangUpTypes DEF Kill, CliTypeOK
  <2> QED
    BY <1>2, <1>14, <2>1, TellTypes DEF Kill
<1> QED
  BY <1>5, <1>6, <1>7, <1>8, <1>9, <1>10, <1>11, <1>12, <1>13, <1>14 DEF CommandStep

\* The clock of the provider.
LEMMA ExpireTypes == ASSUME CliTypeOK, Expire PROVE CliTypeOK'
<1>1. \A l \in 1..logins : l \in Login
  BY CliConstants DEF CliTypeOK, Login
<1>2. expired' \subseteq Login \X Serial
  BY <1>1 DEF Expire, CliTypeOK
<1> QED
  BY <1>2 DEF Expire, CliTypeOK, disk

\* The API.
LEMMA ServeTypes == ASSUME CliTypeOK, NEW c \in Cmd, Serve(c) PROVE CliTypeOK'
<1>1. answer' \in [Cmd -> Answers]
  BY DEF Serve, CliTypeOK, Answers
<1>2. environment' \in Cmd \cup {"none"}
  BY DEF Serve, CliTypeOK
<1> QED
  BY <1>1, <1>2 DEF Serve, CliTypeOK, disk, idp

\* The file, the commands and the provider keep their types.
THEOREM CliTypes == CliSpec => []CliTypeOK
<1>1. CliTypeOK /\ [CliNext]_cliVars => CliTypeOK'
  <2> SUFFICES ASSUME CliTypeOK, [CliNext]_cliVars PROVE CliTypeOK'
    OBVIOUS
  <2>1. CASE UNCHANGED cliVars
    BY <2>1 DEF cliVars, CliTypeOK
  <2> QED
    BY <2>1, CliStepTypes, ServeTypes, ExpireTypes DEF CliNext
<1> QED
  BY <1>1, CliInitTypes, PTL DEF CliSpec

(***************************************************************************)
(* Tokens: who holds the newest of a login                                 *)
(***************************************************************************)

Writing(c) == pc[c] \in {"write", "fill"}

\* No token is of a login that has not been.
LoginsCounted ==
    /\ token \in StoredToken => token.login <= logins
    /\ \A c \in Cmd : tok[c].login <= logins
    /\ \A l \in Login : l > logins => issued[l] = 0

\* A provider that keeps refresh tokens knows one of each login.
KeptTokens ==
    ~rotates =>
        /\ token \in StoredToken => token.refresh = 0
        /\ \A c \in Cmd : tok[c].refresh = 0

\* No token is newer than those given out.
NoneAhead ==
    /\ token \in StoredToken => token.refresh <= issued[token.login]
    /\ \A c \in Cmd : tok[c].refresh <= issued[tok[c].login]

\* A command that is about to write holds the newest token of its login and is
\* alone to do so; once it has the file open, no older one is in it.
OneHeir ==
    rotates =>
        \A c \in Cmd : Writing(c) =>
            /\ tok[c].refresh = issued[tok[c].login]
            /\ token \in StoredToken /\ token.login = tok[c].login =>
                  token.refresh < issued[token.login] /\ pc[c] = "write"
            /\ \A d \in Cmd \ {c} : tok[d].login = tok[c].login =>
                  tok[d].refresh < issued[tok[d].login]

TokenSide ==
    CliTypeOK /\ LoginsCounted /\ KeptTokens /\ NoneAhead /\ OneHeir /\ TokensNotLost

LEMMA TokenParts ==
    ASSUME CliTypeOK
    PROVE  /\ \A c \in Cmd : /\ tok[c] \in StoredToken /\ tok[c].login \in Login
                             /\ tok[c].login \in Nat /\ tok[c].refresh \in Nat
           /\ token \in StoredToken =>
                 token.login \in Login /\ token.login \in Nat /\ token.refresh \in Nat
           /\ \A l \in Login : issued[l] \in Nat
           /\ logins \in Nat
<1>1. Login \subseteq Nat /\ Serial \subseteq Nat
  BY CliConstants DEF Login, Serial
<1>2. \A t \in StoredToken : t.login \in Login /\ t.refresh \in Serial
  BY DEF StoredToken
<1>3. tok \in [Cmd -> StoredToken] /\ issued \in [Login -> Serial]
  BY DEF CliTypeOK
<1>4. logins \in Nat
  BY CliConstants DEF CliTypeOK
<1> QED
  BY <1>1, <1>2, <1>3, <1>4

\* A command that does not come to write, and leaves in the file what was there
\* or nothing: it may take the token of the file into its hands, and loses the one
\* it was to write.
Calm(c) ==
    /\ token' = token \/ token' \notin StoredToken
    /\ UNCHANGED <<issued, logins, rotates>>
    /\ orphaned \subseteq orphaned'
    /\ \A d \in Cmd \ {c} : pc'[d] = pc[d] /\ tok'[d] = tok[d]
    /\ ~Writing(c)' /\ (Writing(c) => tok[c].login \in orphaned')
    /\ tok'[c] = tok[c] \/ (token \in StoredToken /\ tok'[c] = token)

LEMMA CalmKeeps ==
    ASSUME TokenSide, CliTypeOK', NEW c \in Cmd, Calm(c) PROVE TokenSide'
<1>1. LoginsCounted' /\ KeptTokens' /\ NoneAhead'
  BY DEF TokenSide, LoginsCounted, KeptTokens, NoneAhead, Calm
<1>2. OneHeir'
  <2> SUFFICES ASSUME rotates, NEW d \in Cmd, Writing(d)'
               PROVE  /\ tok'[d].refresh = issued'[tok'[d].login]
                      /\ token' \in StoredToken /\ token'.login = tok'[d].login =>
                            token'.refresh < issued'[token'.login] /\ pc'[d] = "write"
                      /\ \A e \in Cmd \ {d} : tok'[e].login = tok'[d].login =>
                            tok'[e].refresh < issued'[tok'[e].login]
    BY DEF OneHeir, Calm
  <2>1. d # c /\ Writing(d) /\ tok'[d] = tok[d] /\ pc'[d] = pc[d]
    BY DEF Calm, Writing
  <2>2. /\ tok[d].refresh = issued[tok[d].login]
        /\ token \in StoredToken /\ token.login = tok[d].login =>
              token.refresh < issued[token.login] /\ pc[d] = "write"
        /\ \A e \in Cmd \ {d} : tok[e].login = tok[d].login =>
              tok[e].refresh < issued[tok[e].login]
    BY <2>1 DEF TokenSide, OneHeir
  <2> QED
    BY <2>1, <2>2 DEF Calm
<1>3. TokensNotLost'
  <2> SUFFICES ASSUME token' \in StoredToken
               PROVE  \/ token.refresh = CurrentRefresh(token.login)
                      \/ token.login \in orphaned'
                      \/ \E d \in Cmd : /\ Writing(d)' /\ tok'[d].login = token.login
                                         /\ tok'[d].refresh = CurrentRefresh(token.login)
    BY DEF TokensNotLost, CurrentRefresh, Calm, Writing
  <2>1. token' = token
    BY DEF Calm
  <2>2. CASE token.refresh = CurrentRefresh(token.login) \/ token.login \in orphaned
    BY <2>2 DEF Calm
  <2>3. ASSUME NEW d \in Cmd, Writing(d), tok[d].login = token.login,
               tok[d].refresh = CurrentRefresh(token.login)
        PROVE  \/ token.login \in orphaned'
               \/ Writing(d)' /\ tok'[d] = tok[d]
    BY <2>3 DEF Calm, Writing
  <2> QED
    BY <2>1, <2>2, <2>3 DEF TokenSide, TokensNotLost, Writing
<1> QED
  BY <1>1, <1>2, <1>3 DEF TokenSide

\* The newest token of a login is renewed by who has it, whether the answer
\* reaches him or not.
Renewal(c) ==
    /\ pc[c] = "refresh" /\ tok[c].refresh = CurrentRefresh(tok[c].login)
    /\ issued[tok[c].login] < MaxRefresh
    /\ issued' = [issued EXCEPT ![tok[c].login] = @ + 1]
    /\ UNCHANGED <<token, logins, rotates>>
    /\ \/ /\ Goto(c, "write") /\ tok' = [tok EXCEPT ![c] = refreshed(tok[c])]
          /\ UNCHANGED orphaned
       \/ /\ Tell(c, "not logged in") /\ orphaned' = orphaned \cup {tok[c].login}
          /\ UNCHANGED tok

LEMMA RenewKeeps ==
    ASSUME TokenSide, CliTypeOK', NEW c \in Cmd, Renewal(c) PROVE TokenSide'
<1> DEFINE l == tok[c].login
<1>0. /\ \A d \in Cmd : tok[d].login \in Login /\ tok[d].login \in Nat /\ tok[d].refresh \in Nat
      /\ token \in StoredToken =>
            token.login \in Login /\ token.login \in Nat /\ token.refresh \in Nat
      /\ \A m \in Login : issued[m] \in Nat /\ m \in Nat
      /\ logins \in Nat /\ MaxRefresh \in Nat
      /\ NoneAhead /\ LoginsCounted /\ KeptTokens /\ OneHeir /\ TokensNotLost
  BY TokenParts, CliConstants DEF TokenSide, Login
<1>1. /\ l \in Login /\ l \in Nat /\ issued[l] \in Nat /\ l <= logins
      /\ issued'[l] = issued[l] + 1 /\ \A m \in Login \ {l} : issued'[m] = issued[m]
  BY TokenParts DEF TokenSide, LoginsCounted, CliTypeOK, Renewal
<1>2. \A d \in Cmd \ {c} : tok'[d] = tok[d] /\ pc'[d] = pc[d]
  BY DEF TokenSide, CliTypeOK, Goto, Tell, Renewal
<1>3. tok'[c].login = l
      /\ \/ tok'[c] = tok[c] /\ ~Writing(c)' /\ l \in orphaned'
         \/ Writing(c)' /\ tok'[c].refresh = IF rotates THEN issued[l] + 1 ELSE 0
  BY NewTokenType, TokenParts DEF TokenSide, CliTypeOK, Goto, Tell, Writing, Renewal
<1>a. UNCHANGED <<token, logins, rotates>> /\ orphaned \subseteq orphaned'
  BY DEF Renewal
<1>4. rotates => \A d \in Cmd : Writing(d) => tok[d].login # l
  <2> SUFFICES ASSUME rotates, NEW d \in Cmd, Writing(d), tok[d].login = l PROVE FALSE
    OBVIOUS
  <2>1. d # c
    BY DEF Writing, Renewal
  <2>2. tok[c].refresh < issued[l]
    BY <2>1 DEF TokenSide, OneHeir
  <2>3. tok[c].refresh = issued[l]
    BY DEF CurrentRefresh, Renewal
  <2> QED
    BY <1>1, <2>2, <2>3
<1>5. LoginsCounted'
  <2>1. \A m \in Login : m > logins => m # l
    BY <1>0, <1>1
  <2>2. \A d \in Cmd : tok'[d].login = tok[d].login
    BY <1>2, <1>3
  <2> QED
    BY <1>0, <1>1, <2>1, <2>2, <1>a DEF LoginsCounted
<1>6. KeptTokens'
  BY <1>2, <1>3, <1>a DEF TokenSide, KeptTokens
<1>7. NoneAhead'
  <2>1. token \in StoredToken => token.refresh <= issued'[token.login]
    BY <1>0, <1>1 DEF NoneAhead
  <2>2. ASSUME NEW d \in Cmd PROVE tok'[d].refresh <= issued'[tok'[d].login]
    <3>1. tok[d].refresh <= issued'[tok[d].login]
      BY <1>0, <1>1 DEF NoneAhead
    <3>2. CASE d = c /\ tok'[c] # tok[c]
      BY <1>1, <1>3, <3>2
    <3> QED
      BY <1>2, <3>1, <3>2
  <2> QED
    BY <2>1, <2>2, <1>a DEF NoneAhead
<1>8. OneHeir'
  <2> SUFFICES ASSUME rotates, NEW d \in Cmd, Writing(d)'
               PROVE  /\ tok'[d].refresh = issued'[tok'[d].login]
                      /\ token \in StoredToken /\ token.login = tok'[d].login =>
                            token.refresh < issued'[token.login] /\ pc'[d] = "write"
                      /\ \A e \in Cmd \ {d} : tok'[e].login = tok'[d].login =>
                            tok'[e].refresh < issued'[tok'[e].login]
    BY <1>a DEF OneHeir
  <2>1. CASE d = c
    <3>1. pc'[c] = "write" /\ tok'[c].refresh = issued'[l]
      BY <1>1, <1>3, <2>1 DEF TokenSide, CliTypeOK, Goto, Tell, Writing, Renewal
    <3>2. token \in StoredToken /\ token.login = l => token.refresh < issued'[l]
      BY <1>0, <1>1 DEF NoneAhead
    <3>3. \A e \in Cmd \ {c} : tok[e].login = l => tok[e].refresh < issued'[l]
      <4> SUFFICES ASSUME NEW e \in Cmd \ {c}, tok[e].login = l PROVE tok[e].refresh < issued'[l]
        OBVIOUS
      <4>1. tok[e].refresh <= issued[l] /\ tok[e].refresh \in Nat
        BY <1>0 DEF NoneAhead
      <4> QED
        BY <1>1, <4>1
    <3> QED
      BY <1>2, <1>3, <2>1, <3>1, <3>2, <3>3
  <2>2. CASE d # c
    <3>1. Writing(d) /\ tok'[d] = tok[d] /\ pc'[d] = pc[d] /\ tok[d].login # l
      BY <1>2, <1>4, <2>2 DEF Writing
    <3>2. issued'[tok[d].login] = issued[tok[d].login]
      BY <1>1, <3>1, TokenParts DEF TokenSide
    <3>3. /\ tok[d].refresh = issued[tok[d].login]
          /\ token \in StoredToken /\ token.login = tok[d].login =>
                token.refresh < issued[token.login] /\ pc[d] = "write"
          /\ \A e \in Cmd \ {d} : tok[e].login = tok[d].login =>
                tok[e].refresh < issued[tok[e].login]
      BY <3>1 DEF TokenSide, OneHeir
    <3>4. \A e \in Cmd \ {d} : tok'[e].login = tok[d].login => e # c
      BY <1>3, <3>1
    <3>5. \A e \in Cmd \ {d} : tok'[e].login = tok[d].login => tok'[e] = tok[e]
      BY <1>2, <3>4
    <3> QED
      BY <3>1, <3>2, <3>3, <3>5
  <2> QED
    BY <2>1, <2>2
<1>9. TokensNotLost'
  <2> SUFFICES ASSUME token \in StoredToken
               PROVE  \/ token.refresh = CurrentRefresh(token.login)'
                      \/ token.login \in orphaned'
                      \/ \E d \in Cmd : /\ Writing(d)' /\ tok'[d].login = token.login
                                         /\ tok'[d].refresh = CurrentRefresh(token.login)'
    BY <1>a DEF TokensNotLost, CurrentRefresh, Writing
  <2>1. CASE ~rotates
    BY <1>a, <2>1 DEF TokenSide, KeptTokens, CurrentRefresh
  <2>2. CASE rotates /\ token.login = l
    BY <1>1, <1>3, <1>a, <2>2 DEF CurrentRefresh
  <2>3. CASE rotates /\ token.login # l
    <3>1. CurrentRefresh(token.login)' = CurrentRefresh(token.login)
      BY <1>0, <1>1, <1>a, <2>3 DEF CurrentRefresh
    <3>3. ASSUME NEW d \in Cmd, Writing(d), tok[d].login = token.login
          PROVE  Writing(d)' /\ tok'[d] = tok[d]
      BY <1>2, <2>3, <3>3 DEF Writing
    <3> QED
      BY <1>a, <3>1, <3>3 DEF TokenSide, TokensNotLost, Writing
  <2> QED
    BY <2>1, <2>2, <2>3
<1> QED
  BY <1>5, <1>6, <1>7, <1>8, <1>9 DEF TokenSide

\* A new login is one nobody has a token of.
NewLogin(c) ==
    /\ logins' = logins + 1
    /\ tok' = [tok EXCEPT ![c] = [login |-> logins', access |-> 0, refresh |-> 0]]
    /\ Goto(c, "write")
    /\ UNCHANGED <<token, issued, rotates, orphaned>>

LEMMA NewLoginKeeps ==
    ASSUME TokenSide, CliTypeOK', NEW c \in Cmd, pc[c] = "start", NewLogin(c) PROVE TokenSide'
<1>0. /\ \A d \in Cmd : tok[d].login \in Login /\ tok[d].login \in Nat /\ tok[d].refresh \in Nat
      /\ token \in StoredToken => token.login \in Login /\ token.login \in Nat
      /\ \A m \in Login : issued[m] \in Nat /\ m \in Nat
      /\ logins \in Nat
      /\ NoneAhead /\ LoginsCounted /\ KeptTokens /\ OneHeir /\ TokensNotLost
  BY TokenParts DEF TokenSide, Login
<1>1. /\ \A d \in Cmd \ {c} : tok'[d] = tok[d] /\ pc'[d] = pc[d]
      /\ tok'[c].login = logins + 1 /\ tok'[c].refresh = 0 /\ pc'[c] = "write"
      /\ logins' = logins + 1 /\ tok'[c] \in StoredToken
  BY DEF TokenSide, CliTypeOK, NewLogin, Goto
<1>2. UNCHANGED <<token, issued, rotates, orphaned>>
  BY DEF NewLogin
<1>3. logins + 1 \in Login /\ logins + 1 > logins
  BY <1>0, <1>1 DEF StoredToken
<1>4. issued[logins + 1] = 0
  BY <1>0, <1>3 DEF LoginsCounted
<1>5. /\ \A d \in Cmd \ {c} : tok[d].login # logins + 1
      /\ token \in StoredToken => token.login # logins + 1
  BY <1>0 DEF LoginsCounted
<1>6. LoginsCounted'
  <2>1. \A m \in Login : m > logins + 1 => m > logins
    BY <1>0
  <2>2. \A d \in Cmd : tok[d].login <= logins + 1
    BY <1>0 DEF LoginsCounted
  <2>3. token \in StoredToken => token.login <= logins + 1
    BY <1>0 DEF LoginsCounted
  <2>4. \A d \in Cmd : tok'[d].login <= logins + 1
    BY <1>0, <1>1, <2>2
  <2> QED
    BY <1>0, <1>1, <1>2, <2>1, <2>3, <2>4 DEF LoginsCounted
<1>7. KeptTokens' /\ NoneAhead'
  BY <1>0, <1>1, <1>2, <1>4 DEF KeptTokens, NoneAhead
<1>8. OneHeir'
  <2> SUFFICES ASSUME rotates, NEW d \in Cmd, Writing(d)'
               PROVE  /\ tok'[d].refresh = issued[tok'[d].login]
                      /\ token \in StoredToken /\ token.login = tok'[d].login =>
                            token.refresh < issued[token.login] /\ pc'[d] = "write"
                      /\ \A e \in Cmd \ {d} : tok'[e].login = tok'[d].login =>
                            tok'[e].refresh < issued[tok'[e].login]
    BY <1>2 DEF OneHeir
  <2>1. CASE d = c
    BY <1>1, <1>4, <1>5, <2>1
  <2>2. CASE d # c
    <3>1. Writing(d) /\ tok'[d] = tok[d] /\ pc'[d] = pc[d] /\ tok[d].login # logins + 1
      BY <1>1, <1>5, <2>2 DEF Writing
    <3>2. /\ tok[d].refresh = issued[tok[d].login]
          /\ token \in StoredToken /\ token.login = tok[d].login =>
                token.refresh < issued[token.login] /\ pc[d] = "write"
          /\ \A e \in Cmd \ {d} : tok[e].login = tok[d].login =>
                tok[e].refresh < issued[tok[e].login]
      BY <1>0, <3>1 DEF OneHeir
    <3>3. \A e \in Cmd \ {d} : tok'[e].login = tok[d].login => tok'[e] = tok[e]
      BY <1>1, <3>1
    <3> QED
      BY <3>1, <3>2, <3>3
  <2> QED
    BY <2>1, <2>2
<1>9. TokensNotLost'
  <2>1. \A d \in Cmd : Writing(d) => d # c /\ Writing(d)' /\ tok'[d] = tok[d]
    BY <1>1 DEF Writing
  <2> QED
    BY <1>0, <1>2, <2>1 DEF TokensNotLost, CurrentRefresh, Writing
<1> QED
  BY <1>6, <1>7, <1>8, <1>9 DEF TokenSide

\* Who opens the file empties it: no older token of his login is in it.
LEMMA OpenKeeps ==
    ASSUME TokenSide, CliTypeOK', NEW c \in Cmd, OpenToken(c) PROVE TokenSide'
<1>1. token' \notin StoredToken
  BY FilesDiffer DEF OpenToken, OpenTruncated
<1>2. UNCHANGED <<tok, issued, rotates, logins, orphaned>>
  BY DEF OpenToken, idp
<1>3. \A d \in Cmd : Writing(d)' = Writing(d)
  BY DEF OpenToken, Goto, Writing, TokenSide, CliTypeOK
<1>4. LoginsCounted' /\ KeptTokens' /\ NoneAhead' /\ TokensNotLost'
  BY <1>1, <1>2 DEF TokenSide, LoginsCounted, KeptTokens, NoneAhead, TokensNotLost
<1>5. OneHeir'
  BY <1>1, <1>2, <1>3 DEF TokenSide, OneHeir
<1> QED
  BY <1>4, <1>5 DEF TokenSide

\* Who writes his token to the file leaves the newest of his login there; if the
\* file was taken away, the file has no token of his login.
LEMMA FillKeeps ==
    ASSUME TokenSide, CliTypeOK', NEW c \in Cmd, FillToken(c) PROVE TokenSide'
<1>0. NoneAhead /\ LoginsCounted /\ KeptTokens /\ OneHeir /\ TokensNotLost
  BY DEF TokenSide
<1>1. UNCHANGED <<tok, issued, rotates, logins, orphaned>>
  BY DEF FillToken, idp
<1>2. /\ pc[c] = "fill" /\ Writing(c) /\ ~Writing(c)'
      /\ \A d \in Cmd \ {c} : Writing(d)' = Writing(d) /\ pc'[d] = pc[d]
  BY DEF FillToken, Goto, Tell, Writing, TokenSide, CliTypeOK
<1>3. token' = token \/ token' = tok[c] \/ token' \notin StoredToken
  BY FilesDiffer DEF FillToken
<1>4. rotates =>
        /\ tok[c].refresh = issued[tok[c].login]
        /\ ~(token \in StoredToken /\ token.login = tok[c].login)
        /\ \A d \in Cmd : Writing(d) /\ tok[d].login = tok[c].login => d = c
  <2> SUFFICES ASSUME rotates
               PROVE  /\ tok[c].refresh = issued[tok[c].login]
                      /\ ~(token \in StoredToken /\ token.login = tok[c].login)
                      /\ \A d \in Cmd \ {c} : Writing(d) => tok[d].login # tok[c].login
    OBVIOUS
  <2>1. /\ tok[c].refresh = issued[tok[c].login]
        /\ token \in StoredToken => token.login # tok[c].login
        /\ \A d \in Cmd \ {c} : tok[d].login = tok[c].login =>
              tok[d].refresh < issued[tok[d].login]
    BY <1>0, <1>2 DEF OneHeir
  <2>2. \A d \in Cmd : Writing(d) => tok[d].refresh = issued[tok[d].login]
    BY <1>0 DEF OneHeir
  <2>3. \A d \in Cmd : tok[d].refresh \in Nat
    BY TokenParts DEF TokenSide
  <2>4. ASSUME NEW d \in Cmd \ {c}, Writing(d), tok[d].login = tok[c].login PROVE FALSE
    BY <2>1, <2>2, <2>3, <2>4
  <2> QED
    BY <2>1, <2>4
<1>5. LoginsCounted' /\ KeptTokens' /\ NoneAhead'
  BY <1>0, <1>1, <1>3 DEF LoginsCounted, KeptTokens, NoneAhead
<1>6. OneHeir'
  <2> SUFFICES ASSUME rotates, NEW d \in Cmd \ {c}, Writing(d),
                      token' \in StoredToken, token'.login = tok[d].login
               PROVE  token'.refresh < issued[token'.login] /\ pc[d] = "write"
    BY <1>0, <1>1, <1>2 DEF OneHeir
  <2>1. token' # tok[c]
    BY <1>4
  <2> QED
    BY <1>0, <1>3, <2>1 DEF OneHeir
<1>7. TokensNotLost'
  <2> SUFFICES ASSUME token' \in StoredToken
               PROVE  \/ token'.refresh = CurrentRefresh(token'.login)
                      \/ token'.login \in orphaned
                      \/ \E d \in Cmd : /\ Writing(d)' /\ tok[d].login = token'.login
                                         /\ tok[d].refresh = CurrentRefresh(token'.login)
    BY <1>1 DEF TokensNotLost, CurrentRefresh, Writing
  <2>1. CASE ~rotates
    BY <1>0, <1>1, <1>5, <2>1 DEF KeptTokens, CurrentRefresh
  <2>2. CASE rotates /\ token' = tok[c]
    BY <1>4, <2>2 DEF CurrentRefresh
  <2>3. CASE rotates /\ token' = token
    <3>1. token.login # tok[c].login
      BY <1>4, <2>3
    <3> QED
      BY <1>0, <1>2, <2>3, <3>1 DEF TokensNotLost, Writing
  <2> QED
    BY <1>3, <2>1, <2>2, <2>3
<1> QED
  BY <1>5, <1>6, <1>7 DEF TokenSide

\* A step that touches no token.
LEMMA TokensRest ==
    ASSUME TokenSide, CliTypeOK', UNCHANGED <<token, tok, pc, issued, logins, rotates, orphaned>>
    PROVE  TokenSide'
<1>1. LoginsCounted' /\ KeptTokens' /\ NoneAhead'
  BY DEF TokenSide, LoginsCounted, KeptTokens, NoneAhead
<1>2. OneHeir' /\ TokensNotLost'
  BY DEF TokenSide, OneHeir, TokensNotLost, Writing, CurrentRefresh
<1> QED
  BY <1>1, <1>2 DEF TokenSide

\* Reading the file is calm, unless who reads is about to write.
LEMMA ReadIsCalm ==
    ASSUME CliTypeOK, NEW c \in Cmd, ~Writing(c), NEW fresh \in PCs \ {"write", "fill"},
           NEW stale \in PCs \ {"write", "fill"}, ReadToken(c, fresh, stale),
           UNCHANGED disk, UNCHANGED idp
    PROVE  Calm(c)
<1>1. UNCHANGED <<token, issued, logins, rotates, orphaned>>
  BY DEF disk, idp
<1>2. CASE UNCHANGED tok /\ \E what : Tell(c, what)
  <2>1. pc'[c] = "done" /\ \A d \in Cmd \ {c} : pc'[d] = pc[d]
    BY <1>2 DEF Tell, CliTypeOK
  <2> QED
    BY <1>1, <1>2, <2>1 DEF Calm, Writing
<1>3. CASE token \in StoredToken /\ tok' = [tok EXCEPT ![c] = token]
            /\ Goto(c, IF IsExpired(token) THEN stale ELSE fresh)
  <2>1. pc'[c] \notin {"write", "fill"} /\ \A d \in Cmd \ {c} : pc'[d] = pc[d]
    BY <1>3 DEF Goto, CliTypeOK
  <2>2. tok'[c] = token /\ \A d \in Cmd \ {c} : tok'[d] = tok[d]
    BY <1>3 DEF CliTypeOK
  <2> QED
    BY <1>1, <1>3, <2>1, <2>2 DEF Calm, Writing
<1> QED
  BY <1>2, <1>3 DEF ReadToken

\* So is ending.
LEMMA EndIsCalm ==
    ASSUME CliTypeOK, NEW c \in Cmd, NEW what, Tell(c, what),
           token' = token \/ token' \notin StoredToken,
           UNCHANGED <<tok, issued, logins, rotates>>, orphaned \subseteq orphaned',
           Writing(c) => tok[c].login \in orphaned'
    PROVE  Calm(c)
<1>1. pc'[c] = "done" /\ \A d \in Cmd \ {c} : pc'[d] = pc[d]
  BY DEF Tell, CliTypeOK
<1> QED
  BY <1>1 DEF Calm, Writing

LEMMA StepKeepsTokens ==
    ASSUME TokenSide, CliTypeOK', NEW c \in Cmd, CommandStep(c) PROVE TokenSide'
<1>1. CliTypeOK
  BY DEF TokenSide
<1>2. CASE PreRun(c)
  <2>1. ~Writing(c) /\ ReadToken(c, "run", "refresh") /\ UNCHANGED disk /\ UNCHANGED idp
    BY <1>2 DEF PreRun, At, Writing
  <2> QED
    BY <1>1, <2>1, ReadIsCalm, CalmKeeps DEF PCs
<1>3. CASE RefreshToken(c)
  <2>1. pc[c] = "refresh" /\ UNCHANGED <<token, logins, rotates>> /\ ~Writing(c)
    BY <1>3 DEF RefreshToken, disk, Writing
  <2>2. CASE Tell(c, "not logged in") /\ UNCHANGED <<tok, issued, orphaned>>
    BY <1>1, <2>1, <2>2, EndIsCalm, CalmKeeps
  <2> QED
    BY <1>3, <2>1, <2>2, RenewKeeps DEF RefreshToken, Renewal
<1>4. CASE runLogin(c)
  <2>1. /\ UNCHANGED <<token, issued, rotates, orphaned>>
        /\ pc[c] = "start" /\ ~Writing(c)
    BY <1>4 DEF runLogin, disk, At, Writing
  <2>2. CASE Tell(c, "failed") /\ UNCHANGED <<tok, logins>>
    BY <1>1, <2>1, <2>2, EndIsCalm, CalmKeeps
  <2> QED
    BY <1>4, <2>1, <2>2, NewLoginKeeps DEF runLogin, NewLogin
<1>5. CASE Logout(c)
  <2>1. /\ Tell(c, "ok") /\ token' \notin StoredToken /\ ~Writing(c)
        /\ UNCHANGED <<tok, issued, logins, rotates, orphaned>>
    BY <1>5, FilesDiffer DEF Logout, DeleteToken, idp, At, Writing
  <2> QED
    BY <1>1, <2>1, EndIsCalm, CalmKeeps
<1>6. CASE Run(c)
  <2>1. ~Writing(c) /\ UNCHANGED disk /\ UNCHANGED idp
    BY <1>6 DEF Run, Writing
  <2>2. CASE Tell(c, "usage") /\ UNCHANGED tok
    BY <1>1, <2>1, <2>2, EndIsCalm, CalmKeeps DEF disk, idp
  <2>3. CASE ReadToken(c, "call", "call")
    BY <1>1, <2>1, <2>3, ReadIsCalm, CalmKeeps DEF PCs
  <2> QED
    BY <1>6, <2>2, <2>3 DEF Run
<1>7. CASE Call(c)
  <2>1. /\ ~Writing(c) /\ ~Writing(c)'
        /\ UNCHANGED <<token, tok, issued, logins, rotates, orphaned>>
        /\ \A d \in Cmd \ {c} : pc'[d] = pc[d]
    BY <1>1, <1>7 DEF Call, Goto, disk, idp, Writing, CliTypeOK
  <2>2. Calm(c)
    BY <2>1 DEF Calm
  <2> QED
    BY <2>2, CalmKeeps
<1>8. CASE Report(c)
  <2>1. /\ ~Writing(c) /\ UNCHANGED <<token, tok, issued, logins, rotates, orphaned>>
        /\ \E what : Tell(c, what)
    BY <1>8 DEF Report, NoAnswer, disk, idp, Writing
  <2> QED
    BY <1>1, <2>1, EndIsCalm, CalmKeeps
<1>9. CASE Kill(c)
  <2>1. /\ Tell(c, "killed") /\ UNCHANGED <<token, tok, issued, logins, rotates>>
        /\ orphaned \subseteq orphaned' /\ (Writing(c) => tok[c].login \in orphaned')
    BY <1>9 DEF Kill, Writing
  <2> QED
    BY <1>1, <2>1, EndIsCalm, CalmKeeps
<1> QED
  BY <1>2, <1>3, <1>4, <1>5, <1>6, <1>7, <1>8, <1>9, OpenKeeps, FillKeeps DEF CommandStep

\* The newest refresh token of a login has one holder, in the file or on its way
\* there.
THEOREM TokensInvariant == CliSpec => []TokenSide
<1>1. CliInit => TokenSide
  <2> SUFFICES ASSUME CliInit PROVE TokenSide
    OBVIOUS
  <2>1. CliTypeOK
    BY CliInitTypes
  <2>2. /\ NoToken.login = 1 /\ NoToken.refresh = 0 /\ 1 \in Login
        /\ token = NoToken /\ logins = 1 /\ \A c \in Cmd : tok[c] = NoToken
        /\ \A l \in Login : issued[l] = 0
    BY CliConstants DEF CliInit, NoToken, Login
  <2>3. LoginsCounted /\ KeptTokens /\ NoneAhead /\ TokensNotLost
    BY <2>2 DEF LoginsCounted, KeptTokens, NoneAhead, TokensNotLost, CurrentRefresh
  <2>4. OneHeir
    BY DEF CliInit, OneHeir, Writing
  <2> QED
    BY <2>1, <2>2, <2>3, <2>4 DEF TokenSide
<1>2. TokenSide /\ CliTypeOK' /\ [CliNext]_cliVars => TokenSide'
  <2> SUFFICES ASSUME TokenSide, CliTypeOK', [CliNext]_cliVars PROVE TokenSide'
    OBVIOUS
  <2>1. CASE Expire \/ (\E c \in Cmd : Serve(c)) \/ UNCHANGED cliVars
    <3>1. UNCHANGED <<token, tok, pc, issued, logins, rotates, orphaned>>
      BY <2>1 DEF Expire, Serve, disk, idp, cliVars
    <3> QED
      BY <3>1, TokensRest
  <2> QED
    BY <2>1, StepKeepsTokens DEF CliNext
<1> QED
  BY <1>1, <1>2, CliTypes, PTL DEF CliSpec

(***************************************************************************)
(* The file: who has it open                                               *)
(***************************************************************************)

\* Two that have one file open were seen to; so was he whose open file another
\* has filled.
FillersKnown ==
    /\ \A c \in Cmd, d \in Cmd :
          c # d /\ pc[c] = "fill" /\ pc[d] = "fill" /\ fd[c] = fd[d] => overlapped
    /\ \A c \in Cmd : pc[c] = "fill" /\ fd[c] = inode /\ token \in StoredToken => overlapped

FileSide == CliTypeOK /\ FillersKnown /\ TornExplained

\* A command that leaves the file as it is, or removes it, and opens none.
Apart(c) ==
    /\ UNCHANGED <<inode, fd, overlapped>>
    /\ token' = token \/ token' = NoFile
    /\ killed => killed'
    /\ pc[c] = "fill" /\ fd[c] = inode /\ token = Emptied => killed'
    /\ \A d \in Cmd : pc'[d] = "fill" => pc[d] = "fill"
    /\ \A d \in Cmd \ {c} : pc[d] = "fill" => pc'[d] = "fill"

LEMMA ApartKeeps ==
    ASSUME FileSide, CliTypeOK', NEW c \in Cmd, Apart(c) PROVE FileSide'
<1>1. NoFile \notin StoredToken /\ NoFile # Emptied /\ NoFile # Garbage
  BY FilesDiffer
<1>2. FillersKnown'
  BY <1>1 DEF FileSide, FillersKnown, Apart
<1>3. TornExplained'
  BY <1>1 DEF FileSide, TornExplained, Apart
<1> QED
  BY <1>2, <1>3 DEF FileSide

LEMMA OpenKeepsFile ==
    ASSUME FileSide, CliTypeOK', NEW c \in Cmd, OpenToken(c) PROVE FileSide'
<1>1. /\ token' = Emptied /\ Emptied \notin StoredToken /\ Emptied # Garbage
      /\ pc'[c] = "fill" /\ fd'[c] = inode'
      /\ \A d \in Cmd \ {c} : pc'[d] = pc[d] /\ fd'[d] = fd[d]
      /\ overlapped => overlapped'
      /\ (\E d \in Cmd \ {c} : pc[d] = "fill" /\ fd[d] = inode') => overlapped'
  BY FilesDiffer DEF OpenToken, OpenTruncated, Goto, FileSide, CliTypeOK
<1>2. FillersKnown'
  BY <1>1 DEF FileSide, FillersKnown
<1>3. TornExplained'
  BY <1>1 DEF TornExplained
<1> QED
  BY <1>2, <1>3 DEF FileSide

LEMMA FillKeepsFile ==
    ASSUME FileSide, CliTypeOK', NEW c \in Cmd, FillToken(c) PROVE FileSide'
<1>1. /\ pc[c] = "fill" /\ pc'[c] # "fill"
      /\ \A d \in Cmd \ {c} : pc'[d] = pc[d]
      /\ UNCHANGED <<inode, fd, killed, overlapped>>
  BY DEF FillToken, Goto, Tell, FileSide, CliTypeOK
<1>2. tok[c] \in StoredToken /\ tok[c] # Emptied /\ tok[c] # Garbage /\ Emptied # Garbage
      /\ Emptied # NoFile /\ Garbage # NoFile
  BY FilesDiffer DEF FileSide, CliTypeOK
<1>3. CASE Unlinked(c)
  <2>1. token' = token /\ (token # NoFile => fd[c] # inode)
    BY <1>3 DEF FillToken, Unlinked
  <2>2. FillersKnown'
    BY <1>1, <2>1 DEF FileSide, FillersKnown
  <2>3. TornExplained'
    BY <1>1, <1>2, <2>1 DEF FileSide, TornExplained
  <2> QED
    BY <2>2, <2>3 DEF FileSide
<1>4. CASE ~Unlinked(c)
  <2>1. /\ fd[c] = inode /\ token # NoFile
        /\ token' \in IF token = Emptied THEN {tok[c]} ELSE {tok[c], Garbage}
    BY <1>4 DEF FillToken, Unlinked
  <2>2. FillersKnown'
    <3>1. \A d \in Cmd : pc'[d] = "fill" /\ fd[d] = inode => overlapped
      BY <1>1, <2>1 DEF FileSide, FillersKnown
    <3> QED
      BY <1>1, <3>1 DEF FileSide, FillersKnown
  <2>3. token' # Emptied
    BY <1>2, <2>1
  <2>4. token' = Garbage => overlapped
    <3> SUFFICES ASSUME token' = Garbage PROVE overlapped
      OBVIOUS
    <3>1. token # Emptied
      BY <1>2, <2>1
    <3>2. token = Garbage \/ token \in StoredToken
      BY <2>1, <3>1 DEF FileSide, CliTypeOK
    <3> QED
      BY <1>1, <2>1, <3>2 DEF FileSide, FillersKnown, TornExplained
  <2> QED
    BY <1>1, <2>2, <2>3, <2>4 DEF FileSide, TornExplained
<1> QED
  BY <1>3, <1>4

LEMMA StepKeepsFile ==
    ASSUME FileSide, CliTypeOK', NEW c \in Cmd, CommandStep(c) PROVE FileSide'
<1>1. CliTypeOK
  BY DEF FileSide
<1>2. \A where : Goto(c, where) /\ where # "fill" =>
          /\ \A d \in Cmd : pc'[d] = "fill" => pc[d] = "fill"
          /\ \A d \in Cmd \ {c} : pc[d] = "fill" => pc'[d] = "fill"
  BY <1>1 DEF Goto, CliTypeOK
<1>3. \A what : Tell(c, what) =>
          /\ \A d \in Cmd : pc'[d] = "fill" => pc[d] = "fill"
          /\ \A d \in Cmd \ {c} : pc[d] = "fill" => pc'[d] = "fill"
  BY <1>1 DEF Tell, CliTypeOK
<1>4. \A fresh, stale : ReadToken(c, fresh, stale) /\ fresh # "fill" /\ stale # "fill" =>
          /\ \A d \in Cmd : pc'[d] = "fill" => pc[d] = "fill"
          /\ \A d \in Cmd \ {c} : pc[d] = "fill" => pc'[d] = "fill"
  BY <1>2, <1>3 DEF ReadToken
<1>5. CASE PreRun(c)
  <2>1. Apart(c)
    BY <1>4, <1>5 DEF PreRun, At, disk, Apart
  <2> QED
    BY <2>1, ApartKeeps
<1>6. CASE RefreshToken(c)
  <2>1. pc[c] = "refresh" /\ UNCHANGED <<token, inode, fd, killed, overlapped>>
        /\ (Goto(c, "write") \/ Tell(c, "not logged in"))
    BY <1>6 DEF RefreshToken, disk
  <2> QED
    BY <1>2, <1>3, <2>1, ApartKeeps DEF Apart
<1>7. CASE runLogin(c)
  <2>1. pc[c] = "start" /\ UNCHANGED <<token, inode, fd, killed, overlapped>>
        /\ (Goto(c, "write") \/ Tell(c, "failed"))
    BY <1>7 DEF runLogin, disk, At
  <2> QED
    BY <1>2, <1>3, <2>1, ApartKeeps DEF Apart
<1>8. CASE Logout(c)
  <2>1. Apart(c)
    BY <1>3, <1>8 DEF Logout, DeleteToken, At, Apart
  <2> QED
    BY <2>1, ApartKeeps
<1>9. CASE Run(c)
  <2>1. pc[c] = "run" /\ UNCHANGED <<token, inode, fd, killed, overlapped>>
        /\ (Tell(c, "usage") \/ ReadToken(c, "call", "call"))
    BY <1>9 DEF Run, disk
  <2> QED
    BY <1>3, <1>4, <2>1, ApartKeeps DEF Apart
<1>10. CASE Call(c) \/ Report(c)
  <2>1. pc[c] \in {"call", "sent"} /\ UNCHANGED <<token, inode, fd, killed, overlapped>>
        /\ (Goto(c, "sent") \/ \E what : Tell(c, what))
    BY <1>10 DEF Call, Report, NoAnswer, disk
  <2> QED
    BY <1>2, <1>3, <2>1, ApartKeeps DEF Apart
<1>11. CASE Kill(c)
  <2>1. Apart(c)
    BY <1>3, <1>11 DEF Kill, Apart
  <2> QED
    BY <2>1, ApartKeeps
<1> QED
  BY <1>5, <1>6, <1>7, <1>8, <1>9, <1>10, <1>11, OpenKeepsFile, FillKeepsFile DEF CommandStep

\* Who has the file open is known, and with it why it cannot be read.
THEOREM FileInvariant == CliSpec => []FileSide
<1>1. CliInit => FileSide
  <2> SUFFICES ASSUME CliInit PROVE FileSide
    OBVIOUS
  <2>1. CliTypeOK
    BY CliInitTypes
  <2>2. token \in StoredToken /\ \A c \in Cmd : pc[c] = "start"
    BY FirstToken DEF CliInit
  <2> QED
    BY <2>1, <2>2, FilesDiffer DEF FileSide, FillersKnown, TornExplained
<1>2. FileSide /\ CliTypeOK' /\ [CliNext]_cliVars => FileSide'
  <2> SUFFICES ASSUME FileSide, CliTypeOK', [CliNext]_cliVars PROVE FileSide'
    OBVIOUS
  <2>1. CASE Expire \/ (\E c \in Cmd : Serve(c)) \/ UNCHANGED cliVars
    <3>1. UNCHANGED <<token, inode, pc, fd, killed, overlapped>>
      BY <2>1 DEF Expire, Serve, disk, cliVars
    <3> QED
      BY <3>1 DEF FileSide, FillersKnown, TornExplained
  <2> QED
    BY <2>1, StepKeepsFile DEF CliNext
<1> QED
  BY <1>1, <1>2, CliTypes, PTL DEF CliSpec

(***************************************************************************)
(* The last login                                                          *)
(***************************************************************************)

\* Since an uncontested login or logout no other command than a login has come
\* to hold a token of another login to write.
WritersOfOwner ==
    ~contested => \A c \in Writers : asked[c].kind # "login" => tok[c].login = owner

OwnerSide == CliTypeOK /\ WritersOfOwner /\ LastLoginDecides

\* A command that writes nothing, and comes to be a writer, if it does, with a
\* token from the file, or as a login.
Bystander(c) ==
    /\ UNCHANGED <<token, asked, owner, contested>>
    /\ \A d \in Cmd \ {c} : pc'[d] = pc[d] /\ tok'[d] = tok[d]
    /\ \/ c \notin Writers'
       \/ asked[c].kind = "login"
       \/ token \in StoredToken /\ tok'[c] = token
       \/ c \in Writers /\ tok'[c].login = tok[c].login

LEMMA BystanderKeeps ==
    ASSUME OwnerSide, CliTypeOK', NEW c \in Cmd, Bystander(c) PROVE OwnerSide'
<1>1. LastLoginDecides'
  BY DEF OwnerSide, LastLoginDecides, Bystander
<1>2. WritersOfOwner'
  <2> SUFFICES ASSUME ~contested, NEW d \in Writers', asked[d].kind # "login"
               PROVE  tok'[d].login = owner
    BY DEF WritersOfOwner, Bystander
  <2>1. CASE d = c
    BY <2>1 DEF OwnerSide, WritersOfOwner, LastLoginDecides, Bystander
  <2>2. CASE d # c
    <3>1. d \in Writers /\ tok'[d] = tok[d]
      BY <2>2 DEF Bystander, Writers
    <3> QED
      BY <3>1 DEF OwnerSide, WritersOfOwner
  <2> QED
    BY <2>1, <2>2
<1> QED
  BY <1>1, <1>2 DEF OwnerSide

LEMMA FillKeepsOwner ==
    ASSUME OwnerSide, CliTypeOK', NEW c \in Cmd, FillToken(c) PROVE OwnerSide'
<1>1. /\ c \in Writers /\ Writers' = Writers \ {c} /\ UNCHANGED <<asked, tok>>
  BY DEF FillToken, Goto, Tell, Writers, OwnerSide, CliTypeOK
<1>2. CASE asked[c].kind = "login" /\ ~Unlinked(c)
  <2>1. owner' = tok[c].login /\ contested' = (Writers # {c})
        /\ (token' = tok[c] \/ token' = Garbage)
    BY <1>2 DEF FillToken
  <2>2. LastLoginDecides'
    BY <2>1, FilesDiffer DEF LastLoginDecides
  <2>3. WritersOfOwner'
    BY <1>1, <2>1 DEF WritersOfOwner
  <2> QED
    BY <2>2, <2>3 DEF OwnerSide
<1>3. CASE ~(asked[c].kind = "login" /\ ~Unlinked(c))
  <2>1. UNCHANGED <<owner, contested>>
    BY <1>3 DEF FillToken
  <2>2. WritersOfOwner'
    BY <1>1, <2>1 DEF OwnerSide, WritersOfOwner
  <2>3. LastLoginDecides'
    <3>1. token' = token \/ (asked[c].kind # "login" /\ (token' = tok[c] \/ token' = Garbage))
      BY <1>3 DEF FillToken
    <3>2. CASE token' = token
      BY <2>1, <3>2 DEF OwnerSide, LastLoginDecides
    <3>3. CASE asked[c].kind # "login" /\ token' = tok[c]
      BY <1>1, <2>1, <3>3 DEF OwnerSide, WritersOfOwner, LastLoginDecides
    <3>4. CASE token' = Garbage
      BY <3>4, FilesDiffer DEF LastLoginDecides
    <3> QED
      BY <3>1, <3>2, <3>3, <3>4
  <2> QED
    BY <2>2, <2>3 DEF OwnerSide
<1> QED
  BY <1>2, <1>3

LEMMA StepKeepsOwner ==
    ASSUME OwnerSide, CliTypeOK', NEW c \in Cmd, CommandStep(c) PROVE OwnerSide'
<1>1. CliTypeOK
  BY DEF OwnerSide
<1>2. \A where : Goto(c, where) => pc'[c] = where /\ \A d \in Cmd \ {c} : pc'[d] = pc[d]
  BY <1>1 DEF Goto, CliTypeOK
<1>3. \A what : Tell(c, what) => pc'[c] = "done" /\ \A d \in Cmd \ {c} : pc'[d] = pc[d]
  BY <1>1 DEF Tell, CliTypeOK
<1>4. \A t : tok' = [tok EXCEPT ![c] = t] =>
          tok'[c] = t /\ \A d \in Cmd \ {c} : tok'[d] = tok[d]
  BY <1>1 DEF CliTypeOK
<1>5. \A fresh, stale : ReadToken(c, fresh, stale) =>
          /\ \A d \in Cmd \ {c} : pc'[d] = pc[d] /\ tok'[d] = tok[d]
          /\ pc'[c] = "done" \/ (token \in StoredToken /\ tok'[c] = token)
  BY <1>2, <1>3, <1>4 DEF ReadToken
<1>6. CASE PreRun(c)
  <2>1. Bystander(c)
    BY <1>5, <1>6 DEF PreRun, disk, Bystander, Writers
  <2> QED
    BY <2>1, BystanderKeeps
<1>7. CASE RefreshToken(c)
  <2>1. pc[c] = "refresh" /\ UNCHANGED <<token, asked, owner, contested>>
    BY <1>7 DEF RefreshToken, disk
  <2>2. CASE issued[tok[c].login] < MaxRefresh /\ Goto(c, "write")
              /\ tok' = [tok EXCEPT ![c] = refreshed(tok[c])]
    <3>1. refreshed(tok[c]).login = tok[c].login
      BY <1>1, <2>2, NewTokenType DEF CliTypeOK
    <3>2. Bystander(c)
      BY <1>2, <1>4, <2>1, <2>2, <3>1 DEF Bystander, Writers
    <3> QED
      BY <3>2, BystanderKeeps
  <2>3. CASE Tell(c, "not logged in") /\ UNCHANGED tok
    <3>1. Bystander(c)
      BY <1>3, <2>1, <2>3 DEF Bystander, Writers
    <3> QED
      BY <3>1, BystanderKeeps
  <2> QED
    BY <1>7, <2>2, <2>3 DEF RefreshToken
<1>8. CASE runLogin(c)
  <2>1. asked[c].kind = "login" /\ UNCHANGED <<token, asked, owner, contested>>
    BY <1>8 DEF runLogin, At, disk
  <2>2. \A d \in Cmd \ {c} : pc'[d] = pc[d] /\ tok'[d] = tok[d]
    BY <1>2, <1>3, <1>4, <1>8 DEF runLogin
  <2> QED
    BY <2>1, <2>2, BystanderKeeps DEF Bystander
<1>9. CASE OpenToken(c)
  <2>1. UNCHANGED <<tok, asked, owner, contested>> /\ token' \notin StoredToken
    BY <1>9, FilesDiffer DEF OpenToken, OpenTruncated
  <2>2. Writers' = Writers
    BY <1>2, <1>9 DEF OpenToken, Writers
  <2> QED
    BY <2>1, <2>2 DEF OwnerSide, WritersOfOwner, LastLoginDecides
<1>10. CASE Logout(c)
  <2>1. /\ UNCHANGED asked /\ token' \notin StoredToken
        /\ contested' = (Writers # {}) /\ Writers' \subseteq Writers
    BY <1>3, <1>10, FilesDiffer DEF Logout, DeleteToken, Writers
  <2> QED
    BY <2>1 DEF OwnerSide, WritersOfOwner, LastLoginDecides
<1>11. CASE Run(c)
  <2>1. /\ pc[c] = "run" /\ UNCHANGED <<token, asked, owner, contested>>
        /\ \/ Tell(c, "usage") /\ UNCHANGED tok
           \/ ReadToken(c, "call", "call")
    BY <1>11 DEF Run, disk
  <2>2. Bystander(c)
    BY <1>3, <1>5, <2>1 DEF Bystander, Writers
  <2> QED
    BY <2>2, BystanderKeeps
<1>12. CASE Call(c) \/ Report(c) \/ Kill(c)
  <2>1. /\ UNCHANGED <<token, asked, tok, owner, contested>>
        /\ (Goto(c, "sent") \/ \E what : Tell(c, what))
    BY <1>12 DEF Call, Report, NoAnswer, Kill, disk
  <2>2. Bystander(c)
    BY <1>2, <1>3, <2>1 DEF Bystander, Writers
  <2> QED
    BY <2>2, BystanderKeeps
<1> QED
  BY <1>6, <1>7, <1>8, <1>9, <1>10, <1>11, <1>12, FillKeepsOwner DEF CommandStep

\* What an uncontested login or logout left is all that others write.
THEOREM OwnerInvariant == CliSpec => []OwnerSide
<1>1. CliInit => OwnerSide
  <2> SUFFICES ASSUME CliInit PROVE OwnerSide
    OBVIOUS
  <2>1. Writers = {} /\ token.login = owner
    BY DEF CliInit, Writers, NoToken
  <2> QED
    BY <2>1, CliInitTypes DEF OwnerSide, WritersOfOwner, LastLoginDecides
<1>2. OwnerSide /\ CliTypeOK' /\ [CliNext]_cliVars => OwnerSide'
  <2> SUFFICES ASSUME OwnerSide, CliTypeOK', [CliNext]_cliVars PROVE OwnerSide'
    OBVIOUS
  <2>1. CASE Expire \/ (\E c \in Cmd : Serve(c)) \/ UNCHANGED cliVars
    <3>1. UNCHANGED <<token, asked, pc, tok, owner, contested>>
      BY <2>1 DEF Expire, Serve, disk, cliVars
    <3> QED
      BY <3>1 DEF OwnerSide, WritersOfOwner, LastLoginDecides, Writers
  <2> QED
    BY <2>1, StepKeepsOwner DEF CliNext
<1> QED
  BY <1>1, <1>2, CliTypes, PTL DEF CliSpec

\* Whatever the commands do side by side and whoever is killed, what token.json
\* holds, good or bad, has one of three explanations (internal/cli/token.go).
THEOREM TokenFileHasReasons == CliSpec => []TokenFileExplained
<1>1. TokenSide /\ FileSide /\ OwnerSide => TokenFileExplained
  BY DEF TokenSide, FileSide, OwnerSide, TokenFileExplained
<1> QED
  BY <1>1, TokensInvariant, FileInvariant, OwnerInvariant, PTL

(***************************************************************************)
(* What commands report                                                    *)
(***************************************************************************)

Creator(c) == asked[c].kind = "env create"

\* What is known of a command before and after its call.  Nothing is said before the
\* end, no call is made before its step, and one that is still on its way has a
\* sender who waits, failed or was killed.
Quiet(c) ==
    /\ pc[c] # "done" => outcome[c] = "none"
    /\ pc[c] \notin {"sent", "done"} => answer[c] = "none"
    /\ pc[c] = "sent" => answer[c] # "none"
    /\ outcome[c] \notin {"none", "failed", "killed"} => answer[c] = "none"

\* And of env create: it calls with good flags, the environment is its own only
\* when its call has arrived, and the answer it is given is so.
Truthful(c) ==
    Creator(c) =>
        /\ pc[c] \in {"call", "sent"} => asked[c].good
        /\ environment = c => pc[c] \in {"sent", "done"} /\ answer[c] # "sent"
        /\ pc[c] = "sent" =>
              /\ answer[c] = "ok" => environment = c
              /\ environment = c => answer[c] \in {"ok", "failed"}
              /\ answer[c] = "conflict" => environment \notin {"none", c}
        /\ outcome[c] = "ok" => environment = c
        /\ environment = c => outcome[c] \in {"none", "ok", "failed", "killed"}
        /\ outcome[c] = "conflict" => environment \notin {"none", c}

ReportSide == CliTypeOK /\ \A c \in Cmd : Quiet(c) /\ Truthful(c)

\* A step of one command leaves alone what is known of the others, unless it is
\* the call that makes the environment.
Alone(c) ==
    /\ UNCHANGED <<asked, environment>>
    /\ \A d \in Cmd \ {c} : pc'[d] = pc[d] /\ outcome'[d] = outcome[d] /\ answer'[d] = answer[d]

LEMMA AloneKeeps ==
    ASSUME ReportSide, CliTypeOK', NEW c \in Cmd, Alone(c), Quiet(c)', Truthful(c)'
    PROVE  ReportSide'
<1>1. \A d \in Cmd \ {c} : Quiet(d)'
  BY DEF ReportSide, Quiet, Alone
<1>2. ASSUME NEW d \in Cmd \ {c} PROVE Truthful(d)'
  <2>1. /\ pc'[d] = pc[d] /\ outcome'[d] = outcome[d] /\ answer'[d] = answer[d]
        /\ asked' = asked /\ environment' = environment
    BY DEF Alone
  <2>2. Truthful(d)
    BY DEF ReportSide
  <2> QED
    BY <2>1, <2>2 DEF Truthful, Creator
<1> QED
  BY <1>1, <1>2 DEF ReportSide

\* Before its call a command goes on, or ends with something other than a success
\* or a conflict of env create.
LEMMA GoneAside ==
    ASSUME ReportSide, CliTypeOK', NEW c \in Cmd, pc[c] \notin {"sent", "done"},
           UNCHANGED <<asked, environment, answer>>, NEW where, Goto(c, where),
           where \notin {"sent", "done"}, where = "call" => (Creator(c) => asked[c].good)
    PROVE  ReportSide'
<1>1. /\ pc'[c] = where /\ outcome' = outcome
      /\ \A d \in Cmd \ {c} : pc'[d] = pc[d]
  BY DEF Goto, ReportSide, CliTypeOK
<1>2. Quiet(c)' /\ Truthful(c)'
  BY <1>1 DEF ReportSide, Quiet, Truthful, Creator
<1> QED
  BY <1>1, <1>2, AloneKeeps DEF Alone

LEMMA ToldAside ==
    ASSUME ReportSide, CliTypeOK', NEW c \in Cmd, pc[c] \notin {"sent", "done"},
           UNCHANGED <<asked, environment, answer>>, NEW what, Tell(c, what),
           Creator(c) => what \notin {"ok", "conflict"}
    PROVE  ReportSide'
<1>1. /\ pc'[c] = "done" /\ outcome'[c] = what
      /\ \A d \in Cmd \ {c} : pc'[d] = pc[d] /\ outcome'[d] = outcome[d]
  BY DEF Tell, ReportSide, CliTypeOK
<1>2. Quiet(c)' /\ Truthful(c)'
  BY <1>1 DEF ReportSide, Quiet, Truthful, Creator
<1> QED
  BY <1>1, <1>2, AloneKeeps DEF Alone

LEMMA ReadAside ==
    ASSUME ReportSide, CliTypeOK', NEW c \in Cmd, pc[c] \notin {"sent", "done"},
           UNCHANGED <<asked, environment, answer>>, NEW fresh, NEW stale,
           ReadToken(c, fresh, stale), {fresh, stale} \cap {"sent", "done"} = {},
           "call" \in {fresh, stale} => (Creator(c) => asked[c].good)
    PROVE  ReportSide'
<1>1. CASE \E what \in {"not logged in", "unreadable"} : Tell(c, what)
  BY <1>1, ToldAside
<1>2. CASE Goto(c, IF IsExpired(token) THEN stale ELSE fresh)
  BY <1>2, GoneAside
<1> QED
  BY <1>1, <1>2 DEF ReadToken

\* Who ends, whether it has called or not, leaves no answer behind, and a call on
\* its way only if it failed or was killed.
LEMMA EndKeeps ==
    ASSUME ReportSide, CliTypeOK', NEW c \in Cmd, pc[c] # "done",
           UNCHANGED <<asked, environment>>, NEW what, Tell(c, what), HangUp(c),
           \/ what \in {"failed", "killed"}
           \/ /\ pc[c] = "sent" /\ answer[c] \notin {"none", "sent"}
              /\ what = IF answer[c] = "ok" THEN Success(c) ELSE answer[c]
    PROVE  ReportSide'
<1>1. /\ pc'[c] = "done" /\ outcome'[c] = what
      /\ answer'[c] = (IF answer[c] = "sent" THEN "sent" ELSE "none")
      /\ \A d \in Cmd \ {c} : pc'[d] = pc[d] /\ outcome'[d] = outcome[d] /\ answer'[d] = answer[d]
  BY DEF Tell, HangUp, ReportSide, CliTypeOK
<1>2. Quiet(c)'
  BY <1>1 DEF Quiet
<1>3. Truthful(c)'
  <2> SUFFICES ASSUME Creator(c)
               PROVE  /\ environment = c => answer'[c] # "sent"
                      /\ what = "ok" => environment = c
                      /\ environment = c => what \in {"none", "ok", "failed", "killed"}
                      /\ what = "conflict" => environment \notin {"none", c}
    BY <1>1 DEF Truthful, Creator
  <2>1. CASE what \in {"failed", "killed"}
    BY <1>1, <2>1 DEF ReportSide, Truthful
  <2>2. CASE pc[c] = "sent" /\ what = IF answer[c] = "ok" THEN Success(c) ELSE answer[c]
    BY <1>1, <2>2 DEF ReportSide, Truthful, Success
  <2> QED
    BY <2>1, <2>2
<1> QED
  BY <1>1, <1>2, <1>3, AloneKeeps DEF Alone

\* A call that is served while its command waits, or after.
LEMMA ServeKeeps ==
    ASSUME ReportSide, CliTypeOK', NEW c \in Cmd, Serve(c) PROVE ReportSide'
<1>1. /\ answer[c] = "sent" /\ UNCHANGED <<asked, pc, outcome>>
      /\ \A d \in Cmd \ {c} : answer'[d] = answer[d]
  BY DEF Serve, ReportSide, CliTypeOK
<1>2. Quiet(c) /\ Truthful(c) /\ "none" \notin Cmd
  BY CliConstants DEF ReportSide
<1>3. PICK a \in Answers \ {"none", "sent"} :
        /\ answer'[c] = IF pc[c] = "sent" THEN a ELSE "none"
        /\ \/ /\ a = "conflict" => Creator(c) /\ environment # "none"
              /\ a = "ok" => ~Creator(c)
              /\ UNCHANGED environment
           \/ /\ Creator(c) /\ environment = "none" /\ a \in {"ok", "failed"}
              /\ environment' = c
  BY DEF Serve, Creator, ReportSide, CliTypeOK
<1>4. Quiet(c)'
  BY <1>1, <1>2, <1>3 DEF Quiet
<1>5. CASE UNCHANGED environment
  <2>1. Truthful(c)'
    BY <1>1, <1>2, <1>3, <1>5 DEF Truthful, Creator
  <2> QED
    BY <1>1, <1>4, <1>5, <2>1, AloneKeeps DEF Alone
<1>6. CASE Creator(c) /\ environment = "none" /\ a \in {"ok", "failed"} /\ environment' = c
  <2>1. pc[c] \in {"sent", "done"} /\ outcome[c] \in {"none", "failed", "killed"}
    BY <1>1, <1>2 DEF Quiet
  <2>2. Truthful(c)'
    BY <1>1, <1>2, <1>3, <1>6, <2>1 DEF Truthful, Creator
  <2>3. \A d \in Cmd \ {c} : Quiet(d)'
    BY <1>1 DEF ReportSide, Quiet
  <2>4. \A d \in Cmd \ {c} : Truthful(d)'
    BY <1>1, <1>2, <1>6 DEF ReportSide, Truthful, Creator
  <2> QED
    BY <1>4, <2>2, <2>3, <2>4 DEF ReportSide
<1> QED
  BY <1>3, <1>5, <1>6

LEMMA StepKeepsReports ==
    ASSUME ReportSide, CliTypeOK', NEW c \in Cmd, CommandStep(c) PROVE ReportSide'
<1>1. CASE PreRun(c)
  <2>1. /\ pc[c] \notin {"sent", "done"} /\ UNCHANGED <<asked, environment, answer>>
        /\ ReadToken(c, "run", "refresh")
    BY <1>1 DEF PreRun, At
  <2> QED
    BY <2>1, ReadAside
<1>2. CASE RefreshToken(c) \/ runLogin(c)
  <2>1. /\ pc[c] \notin {"sent", "done"} /\ UNCHANGED <<asked, environment, answer>>
        /\ Goto(c, "write") \/ \E what \in {"not logged in", "failed"} : Tell(c, what)
    BY <1>2 DEF RefreshToken, runLogin, At
  <2> QED
    BY <2>1, GoneAside, ToldAside
<1>3. CASE OpenToken(c)
  <2>1. /\ pc[c] \notin {"sent", "done"} /\ UNCHANGED <<asked, environment, answer>>
        /\ Goto(c, "fill")
    BY <1>3 DEF OpenToken
  <2> QED
    BY <2>1, GoneAside
<1>4. CASE FillToken(c) \/ Logout(c)
  <2>1. /\ pc[c] \notin {"sent", "done"} /\ UNCHANGED <<asked, environment, answer>>
        /\ (~Creator(c) /\ Tell(c, "ok")) \/ Goto(c, "run")
    BY <1>4 DEF FillToken, Logout, At, Creator
  <2> QED
    BY <2>1, GoneAside, ToldAside
<1>5. CASE Run(c)
  <2>1. /\ pc[c] \notin {"sent", "done"} /\ UNCHANGED <<asked, environment, answer>>
        /\ \/ Tell(c, "usage")
           \/ (Creator(c) => asked[c].good) /\ ReadToken(c, "call", "call")
    BY <1>5 DEF Run, CheckedAfter, Creator
  <2> QED
    BY <2>1, ToldAside, ReadAside
<1>6. CASE Call(c)
  <2>1. /\ pc[c] = "call" /\ pc'[c] = "sent" /\ answer'[c] = "sent"
        /\ UNCHANGED <<asked, environment, outcome>>
        /\ \A d \in Cmd \ {c} : pc'[d] = pc[d] /\ answer'[d] = answer[d]
    BY <1>6 DEF Call, Goto, ReportSide, CliTypeOK
  <2>2. Quiet(c)' /\ Truthful(c)'
    BY <2>1 DEF ReportSide, Quiet, Truthful, Creator
  <2> QED
    BY <2>1, <2>2, AloneKeeps DEF Alone
<1>7. CASE Report(c)
  <2>1. pc[c] = "sent" /\ UNCHANGED <<asked, environment>> /\ HangUp(c)
    BY <1>7 DEF Report
  <2>2. CASE Tell(c, "failed")
    BY <2>1, <2>2, EndKeeps
  <2>3. CASE answer[c] # "sent" /\ Tell(c, IF answer[c] = "ok" THEN Success(c) ELSE answer[c])
    BY <2>1, <2>3, EndKeeps DEF ReportSide, Quiet
  <2> QED
    BY <1>7, <2>2, <2>3 DEF Report, NoAnswer
<1>8. CASE Kill(c)
  <2>1. pc[c] # "done" /\ UNCHANGED <<asked, environment>> /\ Tell(c, "killed") /\ HangUp(c)
    BY <1>8 DEF Kill
  <2> QED
    BY <2>1, EndKeeps
<1> QED
  BY <1>1, <1>2, <1>3, <1>4, <1>5, <1>6, <1>7, <1>8 DEF CommandStep

\* What env create says of the environment is so and stays so, whoever else creates
\* it, whenever its call arrives, and wherever the command gives up or is killed,
\* between the call's effect and its answer too (internal/cli/env_create.go).
THEOREM ReportsAreHonest == CliSpec => []HonestReports
<1>1. CliInit => ReportSide
  <2> SUFFICES ASSUME CliInit PROVE ReportSide
    OBVIOUS
  <2>1. \A c \in Cmd : pc[c] = "start" /\ outcome[c] = "none" /\ answer[c] = "none"
                       /\ environment # c
    BY CliConstants DEF CliInit
  <2> QED
    BY <2>1, CliInitTypes DEF ReportSide, Quiet, Truthful
<1>2. ReportSide /\ CliTypeOK' /\ [CliNext]_cliVars => ReportSide'
  <2> SUFFICES ASSUME ReportSide, CliTypeOK', [CliNext]_cliVars PROVE ReportSide'
    OBVIOUS
  <2>1. CASE Expire \/ UNCHANGED cliVars
    <3>1. UNCHANGED <<asked, pc, outcome, environment, answer>>
      BY <2>1 DEF Expire, cliVars
    <3> QED
      BY <3>1 DEF ReportSide, Quiet, Truthful, Creator
  <2> QED
    BY <2>1, StepKeepsReports, ServeKeeps DEF CliNext
<1>3. ReportSide => HonestReports
  BY DEF ReportSide, HonestReports, Truthful, Creator
<1> QED
  BY <1>1, <1>2, <1>3, CliTypes, PTL DEF CliSpec

(***************************************************************************)
(* The parts together                                                      *)
(***************************************************************************)

\* What the others do is a stutter to a part.
THEOREM PartsKeepTheirSpecs ==
    Spec => StatsSpec /\ HistSpec /\ HelmSpec /\ KustSpec /\ TagsSpec /\ CliSpec
<1>1. Init => StatsInit /\ HistInit /\ HelmInit /\ KustInit /\ TagsInit /\ CliInit
  BY DEF Init
<1> DEFINE vars == <<part, statsVars, histVars, helmVars, images, tagVars, cliVars>>
<1>2. [Next]_vars => [StatsNext]_statsVars
  BY DEF Next
<1>3. [Next]_vars => [HistNext]_histVars
  BY DEF Next
<1>4. [Next]_vars => [HelmNext]_helmVars
  BY DEF Next
<1>5. [Next]_vars => [KustNext]_images
  BY DEF Next
<1>6. [Next]_vars => [TagsNext]_tagVars
  BY DEF Next
<1>7. [Next]_vars => [CliNext]_cliVars
  BY DEF Next
<1> QED
  BY <1>1, <1>2, <1>3, <1>4, <1>5, <1>6, <1>7, PTL
  DEF Spec, StatsSpec, HistSpec, HelmSpec, KustSpec, TagsSpec, CliSpec

\* The variables of all parts keep their types, whichever part moves.
THEOREM PortalTypes == Spec => []PortalTypeOK
<1>1. StatsTypeOK /\ HistTypeOK /\ HelmTypeOK /\ TagsInv /\ CliTypeOK => PortalTypeOK
  BY DEF TagsInv, PortalTypeOK
<1> QED
  BY <1>1, PartsKeepTheirSpecs, StatsTypes, HistTypes, HelmTypes, TagsInvariant, CliTypes, PTL

\* What is proved of each part holds of all, side by side.
THEOREM PortalIsSafe ==
    Spec => [](/\ StatsAreRight /\ ScanMisses /\ ShownIsDeployable /\ ListIsWhole
               /\ TokenFileExplained /\ HonestReports)
  BY PartsKeepTheirSpecs, StatsHold, ScansMissLittle, ShownCanBeDeployed, TagListIsWhole,
    TokenFileHasReasons, ReportsAreHonest, PTL
==============================================================================
