----------------------------- MODULE TokenStore -----------------------------
(***************************************************************************)
(* Where a plugin's OAuth token lives: internal/credentials/               *)
(* token_encryption.go, internal/auth/{oauth2,refresh_token,github_app}.go *)
(* and `wtmcpctl oauth auth` (cmd/wtmcpctl/oauth.go).                      *)
(*                                                                         *)
(* With encryption the refresh token and the expiry are in an encrypted    *)
(* file, the access token and the encryption key in the OS keyring; an     *)
(* older plaintext file is migrated when the server starts.  The server    *)
(* and wtmcpctl are two processes that share the file, the keyring and     *)
(* nothing else.  Each is a sequence of file and keyring calls; it can be  *)
(* killed between any two, and the keyring can stop answering.             *)
(*                                                                         *)
(* Tokens are numbered as the provider issues them.  A token is a record   *)
(* of refresh token r, access token a, and e, the access token whose       *)
(* lifetime its expiry field describes.                                    *)
(***************************************************************************)
EXTENDS Integers, FiniteSets

CONSTANTS
  MaxIssued,   \* bound: tokens the provider issues
  Modes,       \* the provider's configurations to explore
  Rotates      \* those in which a refresh may replace the refresh token and
               \* revoke the old one

ASSUME MaxIssuedAssumption == MaxIssued \in Nat \ {0}
ASSUME RotatesAssumption == Rotates \subseteq Modes
ASSUME ModesAssumption == Modes \subseteq {"encrypted", "plain", "rotating", "app"}

VARIABLES
  mode,      \* "encrypted" and "plain": oauth2; "rotating": refresh_token with
             \* a token file; "app": github_app
  issued,    \* tokens issued so far
  valid,     \* refresh tokens the provider accepts
  fresh,     \* access tokens that have not expired
  answers,   \* the keyring answers
  encKey,    \* keyring entry __encryption_key; 0: missing
  access,    \* keyring entry __oauth_access_<plugin>; 0: missing
  encFile,   \* token-<plugin>.json.enc
  plain,     \* the plaintext token file
  ps,        \* the two processes
  keyRace,   \* history: one process has replaced the other's new key
  dropped    \* history: a rotated refresh token was not stored

tokenVars == <<mode, issued, valid, fresh, answers, encKey, access, encFile,
               plain, ps, keyRace, dropped>>

disk == <<encKey, access, encFile, plain>>
provider == <<issued, valid, fresh>>
history == <<keyRace, dropped>>

----------------------------------------------------------------------------
Ids == 0..MaxIssued
Token == [r : Ids, a : Ids, e : Ids]
NoToken == [r |-> 0, a |-> 0, e |-> 0]
NoFile == [key |-> 0, r |-> 0, e |-> 0]
EncFiles == [key : 0..2, r : Ids, e : Ids]
Procs == {"server", "ctl"}
KeyOf(p) == IF p = "server" THEN 1 ELSE 2    \* rand.Read: keys never repeat

PCs == {"down", "load", "loadAccess", "readPlain", "getKey", "setKey", "file",
        "access", "verify", "remove", "reload", "fallback", "up", "save"}
Idle == [pc |-> "down", ret |-> "none", tok |-> NoToken, cur |-> NoToken,
         key |-> 0]

TypeOKTokens ==
  /\ mode \in Modes /\ issued \in Ids
  /\ valid \subseteq Ids /\ fresh \subseteq Ids
  /\ answers \in BOOLEAN /\ keyRace \in BOOLEAN /\ dropped \in BOOLEAN
  /\ encKey \in 0..2 /\ access \in Ids
  /\ encFile \in EncFiles /\ plain \in Token
  /\ ps \in [Procs -> [pc : PCs, ret : {"none", "load", "reload", "migrate",
                                        "refresh", "auth"},
                       tok : Token, cur : Token, key : 0..2]]

(* oauth2.Token.Valid: an access token whose expiry has not passed.        *)
Valid(t) == t.a # 0 /\ t.e \in fresh

(* LoadToken: decryptPayload needs the key that sealed the file.           *)
Decrypts(key) == encFile # NoFile /\ key # 0 /\ encFile.key = key

(* ... and a missing access token makes the result expired.                *)
Loaded(file, acc) == [r |-> file.r, a |-> acc, e |-> IF acc = 0 THEN 0 ELSE file.e]

Move(p, f) == ps' = [ps EXCEPT ![p] = f]
At(p, pc) == ps[p].pc = pc
Goto(p, to) == Move(p, [ps[p] EXCEPT !.pc = to])

----------------------------------------------------------------------------
(* The user logged in at some earlier time, or never; an encryption key    *)
(* may or may not exist.                                                   *)
TokenInit ==
  /\ mode \in Modes
  /\ issued \in 0..1
  /\ valid = IF issued = 0 THEN {} ELSE {1}
  /\ fresh = {}
  /\ \/ issued = 1 /\ plain = [r |-> 1, a |-> 1, e |-> 1]
     \/ (issued = 0 \/ mode = "rotating") /\ plain = NoToken
  /\ answers = TRUE
  /\ encKey \in {0, 2} /\ access = 0 /\ encFile = NoFile
  /\ ps = [p \in Procs |-> Idle]
  /\ keyRace = FALSE /\ dropped = FALSE

(* NewOAuth2Provider: encrypted first, then plaintext.                     *)
ServerStart ==
  /\ At("server", "down") /\ mode \in {"encrypted", "plain"}
  /\ Goto("server", IF mode = "encrypted" THEN "load" ELSE "fallback")
  /\ UNCHANGED <<mode, provider, answers, disk, history>>

(* LoadToken reads the key and the file, and later the access token; a     *)
(* keyring error then fails the load, a missing access token does not.     *)
LoadFile ==
  /\ At("server", "load") \/ At("server", "reload")
  /\ IF answers /\ Decrypts(encKey)
     THEN Move("server", [ps["server"] EXCEPT !.pc = "loadAccess",
                            !.cur = Loaded(encFile, 1), !.ret = ps["server"].pc])
     ELSE Goto("server", IF At("server", "load") THEN "readPlain" ELSE "fallback")
  /\ UNCHANGED <<mode, provider, answers, disk, history>>

LoadAccess ==
  /\ At("server", "loadAccess")
  /\ IF answers
     THEN Move("server", [Idle EXCEPT !.pc = "up",
             !.tok = [ps["server"].cur EXCEPT !.a = access,
                        !.e = IF access = 0 THEN 0 ELSE @]])
     ELSE Move("server", [Idle EXCEPT !.pc =
             IF ps["server"].ret = "load" THEN "readPlain" ELSE "fallback"])
  /\ UNCHANGED <<mode, provider, answers, disk, history>>

(* MigrateUnencryptedToken: no plaintext file, nothing to do.              *)
ReadPlaintext ==
  /\ At("server", "readPlain")
  /\ Move("server", IF plain = NoToken THEN [Idle EXCEPT !.pc = "reload"]
                    ELSE [Idle EXCEPT !.pc = "getKey", !.ret = "migrate",
                                      !.cur = plain])
  /\ UNCHANGED <<mode, provider, answers, disk, history>>

(* The plaintext token is used when no encrypted one could be loaded.      *)
LoadPlaintext ==
  /\ At("server", "fallback")
  /\ Move("server", [Idle EXCEPT !.pc = "up", !.tok = plain])
  /\ UNCHANGED <<mode, provider, answers, disk, history>>

----------------------------------------------------------------------------
(* Mutant: the error is ignored and the plaintext removed.                 *)
AfterFailureIgnored(p) == [ps[p] EXCEPT !.pc = "remove"]

(* SaveToken has failed for process p: a migration falls back to the       *)
(* plaintext, a refreshing server keeps the token in memory, wtmcpctl      *)
(* leaves the plaintext file.                                              *)
AfterFailure(p) ==
  CASE ps[p].ret = "migrate" -> [Idle EXCEPT !.pc = "fallback"]
    [] ps[p].ret = "refresh" -> [Idle EXCEPT !.pc = "up", !.tok = ps[p].tok]
    [] ps[p].ret = "auth" -> Idle

SaveFails(p) ==
  /\ Move(p, AfterFailure(p))
  /\ dropped' = (dropped \/ (ps[p].ret = "refresh" /\ mode \in Rotates))
  /\ UNCHANGED <<mode, provider, answers, disk, keyRace>>

(* getOrCreateEncryptionKey: te.mu guards it within one process only.      *)
GetKey(p) ==
  /\ At(p, "getKey") /\ answers
  /\ Move(p, [ps[p] EXCEPT !.pc = IF encKey = 0 THEN "setKey" ELSE "file",
                           !.key = encKey])
  /\ UNCHANGED <<mode, provider, answers, disk, history>>

CreateKey(p) ==
  /\ At(p, "setKey") /\ answers
  /\ encKey' = KeyOf(p)
  /\ keyRace' = (keyRace \/ encKey # 0)
  /\ Move(p, [ps[p] EXCEPT !.pc = "file", !.key = KeyOf(p)])
  /\ UNCHANGED <<mode, provider, answers, access, encFile, plain, dropped>>

(* Temporary file, sync, rename: the old file or the new one.              *)
WriteEncrypted(p) ==
  /\ At(p, "file")
  /\ encFile' = [key |-> ps[p].key, r |-> ps[p].cur.r, e |-> ps[p].cur.e]
  /\ Goto(p, "access")
  /\ UNCHANGED <<mode, provider, answers, encKey, access, plain, history>>

(* The access token follows once the file is safe.                         *)
StoreAccess(p) ==
  /\ At(p, "access") /\ answers
  /\ access' = ps[p].cur.a
  /\ Move(p, IF ps[p].ret = "refresh" THEN [Idle EXCEPT !.pc = "up", !.tok = ps[p].tok]
             ELSE [ps[p] EXCEPT !.pc = "verify"])
  /\ UNCHANGED <<mode, provider, answers, encKey, encFile, plain, history>>

(* Any of these calls may fail: no keyring, no disk space.                 *)
SaveError(p) ==
  /\ \/ ps[p].pc \in {"getKey", "setKey", "access"} /\ ~answers
     \/ At(p, "file")
  /\ SaveFails(p)

(* Round trip: load what was saved and compare before the plaintext goes.  *)
RoundTrip(p) ==
  /\ answers /\ Decrypts(encKey)
  /\ encFile.r = ps[p].cur.r
  /\ ps[p].cur.a = 0 \/ access = ps[p].cur.a

VerifyToken(p) ==
  /\ At(p, "verify")
  /\ Move(p, IF RoundTrip(p) THEN [ps[p] EXCEPT !.pc = "remove"]
             ELSE IF p = "ctl" THEN Idle ELSE [Idle EXCEPT !.pc = "reload"])
  /\ UNCHANGED <<mode, provider, answers, disk, history>>

(* os.Remove of the plaintext file; when it fails the server's migration   *)
(* counts as failed.                                                       *)
RemovePlaintext(p, ok) ==
  /\ At(p, "remove")
  /\ plain' = IF ok THEN NoToken ELSE plain
  /\ Move(p, IF p = "ctl" THEN Idle
             ELSE [Idle EXCEPT !.pc = IF ok THEN "reload" ELSE "fallback"])
  /\ UNCHANGED <<mode, provider, answers, encKey, access, encFile, history>>

----------------------------------------------------------------------------
(* The token endpoint answers a refresh of t (external): a new access      *)
(* token, and perhaps a new refresh token that revokes the old one.        *)
Issue(t, rotate) ==
  [r |-> IF rotate THEN issued + 1 ELSE t.r, a |-> issued + 1, e |-> issued + 1]

Issues(t, rotate) ==
  /\ issued < MaxIssued /\ t.r \in valid /\ (rotate => mode \in Rotates)
  /\ issued' = issued + 1
  /\ fresh' = fresh \cup {issued + 1}
  /\ valid' = IF rotate THEN (valid \ {t.r}) \cup {issued + 1} ELSE valid

(* Authenticate, under o.mu: an expired token is refreshed, kept in memory *)
(* first and then saved.                                                   *)
RefreshLocked(rotate) ==
  LET t == ps["server"].tok IN
  /\ At("server", "up") /\ mode \in {"encrypted", "plain"}
  /\ t.r # 0 /\ ~Valid(t)
  /\ Issues(t, rotate)
  /\ Move("server", [Idle EXCEPT !.tok = Issue(t, rotate), !.cur = Issue(t, rotate),
            !.ret = "refresh", !.pc = IF mode = "encrypted" THEN "getKey" ELSE "save"])
  /\ UNCHANGED <<mode, answers, disk, history>>

(* saveToken and saveRefreshToken: temporary file and rename; an error is  *)
(* only logged.                                                            *)
SavePlaintext(ok) ==
  /\ At("server", "save")
  /\ plain' = IF ok THEN ps["server"].cur ELSE plain
  /\ dropped' = (dropped \/ (~ok /\ mode \in Rotates))
  /\ Move("server", [Idle EXCEPT !.pc = "up", !.tok = ps["server"].tok])
  /\ UNCHANGED <<mode, provider, answers, encKey, access, encFile, keyRace>>

(* NewRefreshTokenProvider: the token file if there is one, else the       *)
(* configured token.                                                       *)
StartRotating ==
  /\ At("server", "down") /\ mode = "rotating"
  /\ Move("server", [Idle EXCEPT !.pc = "up",
            !.tok = [NoToken EXCEPT !.r = IF plain # NoToken THEN plain.r
                                          ELSE IF issued > 0 THEN 1 ELSE 0]])
  /\ UNCHANGED <<mode, provider, answers, disk, history>>

(* RefreshTokenProvider.refresh: only a changed refresh token is written.  *)
RefreshRotating(rotate) ==
  LET t == ps["server"].tok IN
  /\ At("server", "up") /\ mode = "rotating" /\ ~Valid(t)
  /\ Issues(t, rotate)
  /\ Move("server", [Idle EXCEPT !.tok = Issue(t, rotate), !.cur = Issue(t, rotate),
            !.ret = IF rotate THEN "refresh" ELSE "none",
            !.pc = IF rotate THEN "save" ELSE "up"])
  /\ UNCHANGED <<mode, answers, disk, history>>

(* github_app: the private key is enough for a new access token; nothing   *)
(* is stored.                                                              *)
RefreshApp ==
  /\ mode = "app" /\ (At("server", "down") \/ ~Valid(ps["server"].tok))
  /\ issued < MaxIssued
  /\ issued' = issued + 1 /\ fresh' = fresh \cup {issued + 1}
  /\ Move("server", [Idle EXCEPT !.pc = "up",
            !.tok = [r |-> 0, a |-> issued + 1, e |-> issued + 1]])
  /\ UNCHANGED <<mode, valid, answers, disk, history>>

----------------------------------------------------------------------------
(* wtmcpctl oauth auth: the browser flow (external) writes the plaintext   *)
(* file, then the token is encrypted and the plaintext removed.            *)
OAuthAuth ==
  /\ At("ctl", "down") /\ mode \in {"encrypted", "plain"}
  /\ issued < MaxIssued
  /\ issued' = issued + 1
  /\ valid' = valid \cup {issued + 1} /\ fresh' = fresh \cup {issued + 1}
  /\ LET t == [r |-> issued + 1, a |-> issued + 1, e |-> issued + 1] IN
       /\ plain' = t
       /\ IF mode = "encrypted"
          THEN Move("ctl", [Idle EXCEPT !.pc = "getKey", !.ret = "auth", !.cur = t])
          ELSE UNCHANGED ps
  /\ UNCHANGED <<mode, answers, encKey, access, encFile, history>>

(* The process dies; a refresh token that was rotated and not yet written  *)
(* dies with it.                                                           *)
Dies(p) ==
  /\ ~At(p, "down")
  /\ Move(p, Idle)
  /\ dropped' = (dropped \/ (ps[p].ret = "refresh" /\ mode \in Rotates))
  /\ UNCHANGED <<mode, provider, answers, disk, keyRace>>

AccessExpires(g) ==
  /\ g \in fresh /\ \A h \in fresh : g <= h
  /\ fresh' = fresh \ {g}
  /\ UNCHANGED <<mode, issued, valid, answers, disk, ps, history>>

KeyringFlips ==
  /\ mode = "encrypted"
  /\ answers' = ~answers
  /\ UNCHANGED <<mode, provider, disk, ps, history>>

TokenNext ==
  \/ ServerStart \/ LoadFile \/ LoadAccess \/ ReadPlaintext \/ LoadPlaintext
  \/ StartRotating \/ RefreshApp \/ OAuthAuth \/ KeyringFlips
  \/ \E p \in Procs : \/ GetKey(p) \/ CreateKey(p) \/ WriteEncrypted(p)
                      \/ StoreAccess(p) \/ SaveError(p) \/ VerifyToken(p) \/ Dies(p)
  \/ \E ok \in BOOLEAN :
       \/ RefreshLocked(ok) \/ RefreshRotating(ok) \/ SavePlaintext(ok)
       \/ \E p \in Procs : RemovePlaintext(p, ok)
  \/ \E g \in Ids : AccessExpires(g)

TokenSpec == TokenInit /\ [][TokenNext]_tokenVars

----------------------------------------------------------------------------
(* What a server started now, with the keyring answering, would use.       *)
Recoverable ==
  CASE mode = "encrypted" /\ Decrypts(encKey) -> encFile.r
    [] mode = "rotating" /\ plain = NoToken -> 1
    [] OTHER -> plain.r

(* Once a login has put a token on disk, some refresh token that the       *)
(* provider still accepts can be recovered from disk and keyring, whatever *)
(* the server and wtmcpctl are in the middle of, wherever one of them is   *)
(* killed and whenever the keyring fails.  The exceptions: two processes   *)
(* created the encryption key at the same time, or a rotated refresh token *)
(* could not be stored (SaveToken, MigrateUnencryptedToken,                *)
(* encryptAndRemovePlaintext, refreshLocked).                              *)
RefreshTokenKept ==
  issued > 0 /\ mode # "app" /\ ~keyRace /\ ~dropped
    /\ (\A p \in Procs : ps[p].ret # "refresh" \/ mode \notin Rotates)
    => Recoverable \in valid

=============================================================================
