------------------------------ MODULE CliSession ------------------------------
(***************************************************************************)
(* The kubegate command line (internal/cli, cmd/kubegate): commands of one *)
(* user that share the file token.json, run side by side, and are killed.  *)
(*                                                                         *)
(* A command reads the file, refreshes an expired token, writes the file   *)
(* and reads it once more before its call.  The file is rewritten in place *)
(* (os.WriteFile: opened and emptied, then written) and removed by logout; *)
(* who opened it before that writes to a file nobody finds.  A call is on  *)
(* its way between the command and the API, and may be carried out when    *)
(* the command has given up waiting or has died.                           *)
(*                                                                         *)
(* External: the identity provider, which renews a refresh token or keeps  *)
(* it (rotates), and the API, of which one thing is kept: an environment   *)
(* that can be created once.  A token is a login and two serial numbers.   *)
(***************************************************************************)
EXTENDS Naturals, FiniteSets

CONSTANTS
    Cmd,            \* processes
    CmdAsked,       \* what each may be: its kind, and whether its flags are good
    MaxLogin,       \* logins
    MaxRefresh,     \* refreshes of one login
    NoFile, Emptied, Garbage    \* what else the file may be

Kind == {"login", "logout", "product list", "env list", "env create"}

ASSUME CliConstants ==
    /\ CmdAsked \subseteq [kind : Kind, good : BOOLEAN]
    /\ MaxLogin \in Nat \ {0} /\ MaxRefresh \in Nat
    /\ "none" \notin Cmd

Login == 1..MaxLogin
Serial == 0..MaxRefresh
StoredToken == [login : Login, access : Serial, refresh : Serial]

\* A file without a token is none of the tokens, and the three are three.
ASSUME FilesDiffer ==
    /\ {NoFile, Emptied, Garbage} \cap StoredToken = {}
    /\ NoFile # Emptied /\ NoFile # Garbage /\ Emptied # Garbage

VARIABLES
    token, inode,   \* the file
    asked, pc,      \* of each command: what it is, and where it stands
    tok,            \* the token it holds
    fd,             \* the inode it has open
    outcome,        \* what it told the user
    \* the provider: tokens given out, and whether refresh tokens are used once
    issued, rotates, logins,
    expired,        \* access tokens that are
    environment,    \* the API: the command that created it, if any did
    answer,         \* of each call: none made, on its way, or what the API answered
    \* history
    orphaned,       \* logins whose newest refresh token was lost with its reply or holder
    killed,         \* a writer was killed with the file emptied
    overlapped,     \* two writers had the file open
    owner,          \* what the last login or logout left: a login, or 0
    contested       \* whether another writer was under way then

cliVars == <<token, inode, asked, pc, tok, fd, outcome, issued, rotates, logins, expired,
             environment, answer, orphaned, killed, overlapped, owner, contested>>
disk == <<token, inode, killed, overlapped, owner, contested>>
idp == <<issued, rotates, logins, expired, orphaned>>

NoToken == [login |-> 1, access |-> 0, refresh |-> 0]
PCs == {"start", "refresh", "write", "fill", "run", "call", "sent", "done"}
Outcomes == {"none", "ok", "usage", "not logged in", "unreadable",
             "conflict", "refused", "failed", "killed"}
Answers == {"none", "sent", "ok", "conflict", "refused", "failed"}

CliTypeOK ==
    /\ token \in StoredToken \cup {NoFile, Emptied, Garbage} /\ inode \in Nat
    /\ asked \in [Cmd -> CmdAsked] /\ pc \in [Cmd -> PCs]
    /\ tok \in [Cmd -> StoredToken] /\ fd \in [Cmd -> Nat]
    /\ outcome \in [Cmd -> Outcomes]
    /\ issued \in [Login -> Serial] /\ rotates \in BOOLEAN /\ logins \in 0..MaxLogin
    /\ expired \subseteq Login \X Serial
    /\ environment \in Cmd \cup {"none"} /\ answer \in [Cmd -> Answers]
    /\ orphaned \subseteq Login /\ killed \in BOOLEAN /\ overlapped \in BOOLEAN
    /\ owner \in 0..MaxLogin /\ contested \in BOOLEAN

\* The user has logged in once.
CliInit ==
    /\ token = NoToken /\ inode = 1
    /\ asked \in [Cmd -> CmdAsked] /\ pc = [c \in Cmd |-> "start"]
    /\ tok = [c \in Cmd |-> NoToken] /\ fd = [c \in Cmd |-> 0]
    /\ outcome = [c \in Cmd |-> "none"]
    /\ issued = [l \in Login |-> 0] /\ rotates \in BOOLEAN /\ logins = 1
    /\ expired = {} /\ environment = "none" /\ answer = [c \in Cmd |-> "none"]
    /\ orphaned = {} /\ killed = FALSE /\ overlapped = FALSE
    /\ owner = 1 /\ contested = FALSE

At(c, where, kinds) == pc[c] = where /\ asked[c].kind \in kinds
Goto(c, where) == pc' = [pc EXCEPT ![c] = where] /\ UNCHANGED outcome
Tell(c, what) ==
    /\ pc' = [pc EXCEPT ![c] = "done"]
    /\ outcome' = [outcome EXCEPT ![c] = what]

IsExpired(t) == <<t.login, t.access>> \in expired
Protected == Kind \ {"login", "logout"}
Writers == {c \in Cmd : pc[c] \in {"refresh", "write", "fill"}}

\* ReadToken, by a command that goes on according to the token it finds.
ReadToken(c, fresh, stale) ==
    \/ token = NoFile /\ Tell(c, IF pc[c] = "start" THEN "not logged in" ELSE "unreadable")
                      /\ UNCHANGED tok
    \/ token \in {Emptied, Garbage} /\ Tell(c, "unreadable") /\ UNCHANGED tok
    \/ token \in StoredToken /\ tok' = [tok EXCEPT ![c] = token]
                              /\ Goto(c, IF IsExpired(token) THEN stale ELSE fresh)

PreRun(c) ==
    /\ At(c, "start", Protected)
    /\ ReadToken(c, "run", "refresh")
    /\ UNCHANGED <<asked, fd, environment, answer>> /\ UNCHANGED disk /\ UNCHANGED idp

(***************************************************************************)
(* Tokens                                                                  *)
(***************************************************************************)

\* The provider's answer to a refresh.
NewToken(t) ==
    [login |-> t.login, access |-> issued[t.login] + 1,
     refresh |-> IF rotates THEN issued[t.login] + 1 ELSE 0]

\* The refresh token that is good, by the provider.
CurrentRefresh(l) == IF rotates THEN issued[l] ELSE 0

\* Bug: the new refresh token is not stored.
RefreshedKeeps(t) == [NewToken(t) EXCEPT !.refresh = t.refresh]

refreshed(t) == NewToken(t)

\* The refresh of an expired token: the provider refuses a used refresh token,
\* or does not answer; it may have renewed the token when its answer is lost.
RefreshToken(c) ==
    LET t == tok[c]  accepted == t.refresh = CurrentRefresh(t.login) IN
    /\ pc[c] = "refresh"
    /\ \/ /\ accepted /\ issued[t.login] < MaxRefresh
          /\ issued' = [issued EXCEPT ![t.login] = @ + 1]
          /\ \/ Goto(c, "write") /\ tok' = [tok EXCEPT ![c] = refreshed(t)] /\ UNCHANGED orphaned
             \/ Tell(c, "not logged in") /\ orphaned' = orphaned \cup {t.login} /\ UNCHANGED tok
       \/ Tell(c, "not logged in") /\ UNCHANGED <<tok, issued, orphaned>>
    /\ UNCHANGED <<asked, fd, rotates, logins, expired, environment, answer>> /\ UNCHANGED disk

\* The device flow, from discovery to the token; it may fail at any point.
runLogin(c) ==
    /\ At(c, "start", {"login"})
    /\ \/ /\ logins < MaxLogin
          /\ logins' = logins + 1
          /\ tok' = [tok EXCEPT ![c] = [login |-> logins', access |-> 0, refresh |-> 0]]
          /\ Goto(c, "write")
       \/ Tell(c, "failed") /\ UNCHANGED <<tok, logins>>
    /\ UNCHANGED <<asked, fd, issued, rotates, expired, orphaned, environment, answer>> /\ UNCHANGED disk

OpenTruncated(f) == Emptied

\* WriteToken opens the file, or makes a new one.
OpenToken(c) ==
    /\ pc[c] = "write"
    /\ inode' = IF token = NoFile THEN inode + 1 ELSE inode
    /\ token' = OpenTruncated(token)
    /\ fd' = [fd EXCEPT ![c] = inode']
    /\ overlapped' = (overlapped \/ \E d \in Cmd \ {c} : pc[d] = "fill" /\ fd[d] = inode')
    /\ Goto(c, "fill")
    /\ UNCHANGED <<asked, tok, environment, answer, killed, owner, contested>> /\ UNCHANGED idp

\* The file it has open was removed.
Unlinked(c) == fd[c] # inode \/ token = NoFile

\* WriteToken writes it: over what another wrote meanwhile, the rest of which
\* may stick out.
FillToken(c) ==
    /\ pc[c] = "fill"
    /\ IF Unlinked(c) THEN UNCHANGED token
       ELSE token' \in IF token = Emptied THEN {tok[c]} ELSE {tok[c], Garbage}
    /\ IF asked[c].kind = "login" /\ ~Unlinked(c)
       THEN owner' = tok[c].login /\ contested' = (Writers # {c})
       ELSE UNCHANGED <<owner, contested>>
    /\ IF asked[c].kind = "login" THEN Tell(c, "ok") ELSE Goto(c, "run")
    /\ UNCHANGED <<inode, asked, tok, fd, environment, answer, killed, overlapped>> /\ UNCHANGED idp

DeleteToken(f) == NoFile

Logout(c) ==
    /\ At(c, "start", {"logout"})
    /\ token' = DeleteToken(token)
    /\ owner' = 0 /\ contested' = (Writers # {})
    /\ Tell(c, "ok")
    /\ UNCHANGED <<inode, asked, tok, fd, environment, answer, killed, overlapped>> /\ UNCHANGED idp

(***************************************************************************)
(* Calls                                                                   *)
(***************************************************************************)

\* Commands that look at their flags when the answer is there.
CheckedAfter == {"product list"}

Run(c) ==
    /\ pc[c] = "run"
    /\ \/ ~asked[c].good /\ asked[c].kind \notin CheckedAfter
          /\ Tell(c, "usage") /\ UNCHANGED tok
       \/ (asked[c].good \/ asked[c].kind \in CheckedAfter)
          /\ ReadToken(c, "call", "call")
    /\ UNCHANGED <<asked, fd, environment, answer>> /\ UNCHANGED disk /\ UNCHANGED idp

\* The request is on its way; it may never arrive.
Call(c) ==
    /\ pc[c] = "call"
    /\ Goto(c, "sent")
    /\ answer' = [answer EXCEPT ![c] = "sent"]
    /\ UNCHANGED <<asked, tok, fd, environment>> /\ UNCHANGED disk /\ UNCHANGED idp

\* The API carries a call out, and answers if its command still waits.  It may
\* refuse it, for the token, the role or the request, whether the command thought
\* its token good or not; a call that fails may have had its effect.
Serve(c) ==
    /\ answer[c] = "sent"
    /\ \E a \in Answers \ {"none", "sent"} :
          /\ answer' = [answer EXCEPT ![c] = IF pc[c] = "sent" THEN a ELSE "none"]
          /\ \/ /\ a = "conflict" => asked[c].kind = "env create" /\ environment # "none"
                /\ a = "ok" => asked[c].kind # "env create"
                /\ UNCHANGED environment
             \/ /\ asked[c].kind = "env create" /\ environment = "none"
                /\ a \in {"ok", "failed"}
                /\ environment' = c
    /\ UNCHANGED <<asked, pc, tok, fd, outcome>> /\ UNCHANGED disk /\ UNCHANGED idp

Success(c) == IF asked[c].good THEN "ok" ELSE "usage"

\* Bug: a call that was not answered is made again.
NoAnswerRetries(c) == Goto(c, "call")

\* The client waits 30 seconds, and calls once.
NoAnswer(c) == Tell(c, "failed")

\* Who ends gets no answer any more; a call on its way stays so.
HangUp(c) == answer' = [answer EXCEPT ![c] = IF @ = "sent" THEN "sent" ELSE "none"]

Report(c) ==
    /\ pc[c] = "sent"
    /\ \/ answer[c] # "sent" /\ Tell(c, IF answer[c] = "ok" THEN Success(c) ELSE answer[c])
       \/ NoAnswer(c)
    /\ HangUp(c)
    /\ UNCHANGED <<asked, tok, fd, environment>> /\ UNCHANGED disk /\ UNCHANGED idp

\* A command dies, or cannot write; a call it has made goes on.
Kill(c) ==
    /\ pc[c] \notin {"start", "done"}
    /\ Tell(c, "killed") /\ HangUp(c)
    /\ killed' = (killed \/ (pc[c] = "fill" /\ fd[c] = inode /\ token = Emptied))
    /\ orphaned' = IF pc[c] \in {"write", "fill"} THEN orphaned \cup {tok[c].login} ELSE orphaned
    /\ UNCHANGED <<token, inode, asked, tok, fd, overlapped, owner, contested, environment,
                   issued, rotates, logins, expired>>

Expire ==
    /\ \E l \in 1..logins : expired' = expired \cup {<<l, issued[l]>>} /\ expired' # expired
    /\ UNCHANGED <<asked, pc, tok, fd, outcome, environment, answer, issued, rotates, logins,
                   orphaned>>
    /\ UNCHANGED disk

CommandStep(c) ==
    PreRun(c) \/ RefreshToken(c) \/ runLogin(c) \/ OpenToken(c) \/ FillToken(c)
        \/ Logout(c) \/ Run(c) \/ Call(c) \/ Report(c) \/ Kill(c)

CliNext == Expire \/ \E c \in Cmd : CommandStep(c) \/ Serve(c)

CliSpec == CliInit /\ [][CliNext]_cliVars

(***************************************************************************)
(* Properties                                                              *)
(***************************************************************************)

\* A refresh token in the file that the provider no longer takes (a user who is
\* logged out without having done so) has one explanation: its successor is on
\* its way to the file, or was lost with an answer or with a killed command.
TokensNotLost ==
    token \in StoredToken =>
        \/ token.refresh = CurrentRefresh(token.login)
        \/ token.login \in orphaned
        \/ \E c \in Cmd : /\ pc[c] \in {"write", "fill"} /\ tok[c].login = token.login
                          /\ tok[c].refresh = CurrentRefresh(token.login)

\* A file that cannot be read is being written, or was left so by a killed
\* command or by two that wrote side by side; no order of other steps does it.
TornExplained ==
    /\ token = Emptied =>
          killed \/ \E c \in Cmd : pc[c] = "fill" /\ fd[c] = inode
    /\ token = Garbage => overlapped

\* The last login or logout decides whose token is in the file, unless another
\* command was about to write its own.
LastLoginDecides ==
    ~contested /\ token \in StoredToken => token.login = owner

\* Whatever token.json holds, good or bad, has its explanation: no order of
\* the commands' steps but those named spoils it.
TokenFileExplained == TokensNotLost /\ TornExplained /\ LastLoginDecides

\* What env create says of the environment is so for good: it made it if it says
\* ok, and a call that arrives late does not make it after the command has
\* complained of its flags, of the token, of a refusal or of a conflict.  One that says
\* it failed, or was killed, may have made it; a conflict is never with its own.
HonestReports ==
    \A c \in Cmd : asked[c].kind = "env create" =>
        /\ outcome[c] = "ok" => environment = c
        /\ environment = c => outcome[c] \in {"none", "ok", "failed", "killed"}
        /\ outcome[c] = "conflict" => environment \notin {"none", c}
=============================================================================
