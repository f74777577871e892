----------------------------- MODULE MCState -------------------------------
(* Bounds for model-checking what the program keeps: on disk (Credentials, *)
(* TokenStore, Discovery's config.yaml, FileIO, Vault) and in the          *)
(* registries of the server (ToolSurface), and what the google-docs plugin *)
(* makes of a document (DocWriter).  They share no variable; a behaviour   *)
(* explores the one that `explored` names.                                 *)
EXTENDS Credentials, TokenStore, Discovery, FileIO, Vault, ToolSurface, DocWriter

CONSTANT Explorable
VARIABLE explored

MCUnquoted == [v \in CredValues |-> CHOOSE w \in CredValues : TRUE]

Manifest(n, u, g, t, ds) ==
  [name |-> n, user |-> u, valid |-> TRUE, enabled |-> TRUE, auth |-> FALSE,
   group |-> g, task |-> t, linked |-> FALSE, deps |-> ds]
MCCandidates ==
  <<[Manifest("a", FALSE, NoGroup, "A", {}) EXCEPT !.valid = FALSE],
    Manifest("a", FALSE, NoGroup, "A", {}),
    Manifest("b", FALSE, "g", "B", {"a"}),
    Manifest("c", FALSE, NoGroup, "C", {"b"}),
    Manifest("d", FALSE, NoGroup, "B", {"u"}),
    Manifest("b", TRUE, NoGroup, "B", {}),
    Manifest("u", TRUE, "g", "U", {"d"})>>
Cmd(o, S) == [op |-> o, names |-> S]
MCCtlCommands ==
  {Cmd("enable", {"b"}), Cmd("enable", {"d", "zz"}), Cmd("disable", {"b"}),
   Cmd("disable", {"a"}), Cmd("only", {"b", "u"}), Cmd("only", {"d", "u"}),
   Cmd("clear", {}), Cmd("manage", {"a", "d"}),
   Cmd("user-plugins", {"on"}), Cmd("user-plugins", {}),
   Cmd("provider-enable", {"p"}), Cmd("provider-disable", {"p"}),
   Cmd("stats-set", {"on"}), Cmd("agent-enable", {}), Cmd("agent-disable", {})}
MCStartConfigs ==
  {[enabled |-> {}, disabled |-> {"c"}, userPlugins |-> FALSE,
    providersOff |-> {}, stats |-> {}]}

WReq(p, k, v, c, s) == [path |-> p, mkdir |-> k, valid |-> v, content |-> c, source |-> s]
MCWriteRequests ==
  {WReq("deep", k, TRUE, NoContent, "src") : k \in BOOLEAN}
  \cup {WReq("top", TRUE, TRUE, NoContent, "src"), WReq("top", TRUE, TRUE, "x", NoContent),
        WReq("top", TRUE, TRUE, "x", "src"), WReq("deep", TRUE, FALSE, "x", NoContent)}

MCVaultPlugins == {[name |-> "jira", group |-> "jira"], [name |-> "docs", group |-> "google"]}

ToolDef(n, r, dry, ok) == [name |-> n, read |-> r, dryRun |-> dry, compiles |-> ok]
MCToolsOf ==
  [a |-> <<ToolDef("x", TRUE, FALSE, TRUE), ToolDef("w", FALSE, TRUE, TRUE)>>,
   b |-> <<ToolDef("w", FALSE, FALSE, TRUE), ToolDef("plugin_list", TRUE, FALSE, TRUE),
           ToolDef("bad", TRUE, FALSE, FALSE)>>]
MCUrisOf == [a |-> {"u1", "u2"}, b |-> {}]
MCSurfaceSettings ==
  [readOnly : {FALSE}, elicitation : {"lenient", "strict"}]
    \cup [readOnly : {TRUE}, elicitation : {"off"}]

Span(t, s, a, c) == [text |-> t, style |-> s, anchor |-> a, chip |-> c]
PlainA == Span(<<"a">>, "plain", "none", "none")
BoldB == Span(<<"b">>, "bold", "none", "none")
CodeC == Span(<<"c">>, "mono", "none", "none")
LinkL == Span(<<"l">>, "plain", "h", "none")
WordH == Span(<<"h">>, "plain", "none", "none")
Today == Span(<<>>, "plain", "none", "date")
Someone == Span(<<>>, "bold", "none", "person")
Ln(k, ss) == [kind |-> k, spans |-> ss, list |-> "none", depth |-> 0, rows |-> <<>>]
It(l, d, ss) == [kind |-> "list", spans |-> ss, list |-> l, depth |-> d, rows |-> <<>>]
Tb(rs) == [kind |-> "table", spans |-> <<>>, list |-> "none", depth |-> 0, rows |-> rs]
MCLines ==
  {Ln("body", <<PlainA, BoldB>>), Ln("body", <<PlainA, Today>>),
   Ln("body", <<Someone, LinkL>>), Ln("body", <<CodeC, PlainA>>), Ln("blank", <<>>),
   Ln("head", <<WordH>>), Ln("head", <<BoldB, PlainA>>),
   It("unordered", 0, <<PlainA>>), It("unordered", 1, <<PlainA>>),
   It("ordered", 0, <<PlainA, Today>>), It("ordered", 1, <<BoldB, LinkL>>),
   Ln("rule", <<>>), Ln("code", <<PlainA>>),
   Tb(<<<<<<PlainA>>, <<PlainA, BoldB>>>>>>), Tb(<<<<<<BoldB>>>>, <<<<Today>>>>>>)}

(* What gdocs_write is known to get wrong is left out: a rule at the end,  *)
(* a list after nested items (the run nested_lists), and a table right     *)
(* after a heading with nothing else after it.                             *)
Nested(l) == l.kind = "list" /\ l.depth > 0
Chips(l) == \E k \in DOMAIN l.spans : l.spans[k].chip # "none"
SecondList(md) ==
  \E i, j \in DOMAIN md :
    /\ i < j /\ Nested(md[i]) /\ md[j].kind = "list"
    /\ \A k \in i .. j : md[k].kind # "table"
    /\ \/ Chips(md[j]) \/ \E k \in i .. j : md[k].kind # "list"
       \/ /\ md[j].depth = 0
          /\ \E k \in 1 .. j : md[k].kind = "list" /\ md[k].list # md[j].list
HeadedTable(md) ==
  \E i \in DOMAIN md : \E j \in 1 .. i - 1 :
    /\ md[i].kind = "table" /\ md[j].kind = "head"
    /\ \A k \in j + 1 .. i : md[k].kind \in {"blank", "table"}
    /\ i = Len(md) \/ md[i + 1].kind \in {"table", "blank"}
MCMarkdowns ==
  {md \in UNION {[1 .. n -> MCLines] : n \in 1 .. 3} :
     md[Len(md)].kind # "rule" /\ ~SecondList(md) /\ ~HeadedTable(md)}
(* The example of plugins/google-docs/context.md:192-204, shortened, and a *)
(* paragraph after it.                                                     *)
MCNestedLists ==
  {<<It("ordered", 0, <<PlainA>>), It("unordered", 1, <<PlainA>>), Ln("blank", <<>>),
     It("unordered", 0, <<PlainA>>), It("unordered", 1, <<PlainA>>), Ln("blank", <<>>),
     Ln("body", <<PlainA, BoldB>>)>>}
Unwritten == <<Newline("normal", "plain")>>
MCStartDocs ==
  {Unwritten, <<Unit("tab", "plain"), Unit("o", "bold"), Newline("normal", "plain")>>}

(* Fewer starting points: a migrated group has given up its env.d file, an *)
(* unmigrated one has no backup, and all of its keys are tracked or none;  *)
(* the vault's passwords are in files, the default one also in the         *)
(* environment; only plugin b may be disabled from the start.              *)
GroupStart ==
  /\ mfile.tracked \in {{}, KeysOf(keyring)}
  /\ IF mfile.migrated THEN envd = Nothing ELSE backup.kind = "none"
NoGroupStart ==
  keyring = Nothing /\ envd = Nothing /\ mfile = NoMigration /\ backup.kind = "none"
NoTokenStart == mode = (CHOOSE m \in Modes : TRUE) /\ issued = 0 /\ encKey = 0
VaultStart ==
  /\ passwordFile["default"] \in {"none", "p"} /\ passwordFile["dev"] \in {"none", "q"}
  /\ environ["default"] \in {"none", "p"} /\ environ["dev"] = "none"
NoVaultStart ==
  /\ \A k \in VaultKeys : passwordFile[k] = NoPassword /\ environ[k] = NoPassword
  /\ pinentry = "none"
SurfaceStart == "a" \notin disabled
NoSurfaceStart ==
  /\ settings = (CHOOSE s \in SurfaceSettings : TRUE) /\ disabled = {}
  /\ owners = [n \in ToolNames |->
       CHOOSE p \in Plugins \cup {Nobody} :
         AnyOf({q \in Plugins : n \in Registrable(q, Unowned)}, p)]

StateInit ==
  /\ explored \in Explorable
  /\ DocInit /\ (explored # "doc" => doc = Unwritten)
  /\ SurfaceInit /\ IF explored = "surface" THEN SurfaceStart ELSE NoSurfaceStart
  /\ VaultInit /\ IF explored = "vault" THEN VaultStart ELSE NoVaultStart
  /\ TokenInit /\ (explored # "token" => NoTokenStart)
  /\ DiscoveryInit /\ (explored # "config" => agentFile = NoAgentFile)
  /\ FileInit
  /\ CredInit /\ IF explored = "group" THEN GroupStart ELSE NoGroupStart

(* The two reloaders are alike: the client's is the first to work. *)
Alike == reload'["watcher"].pc # "idle" => reload'["client"].pc # "idle"

StateNext ==
  /\ \/ /\ explored = "group" /\ CredNext
        /\ UNCHANGED <<tokenVars, discoveryVars, fileVars, vaultVars, surfaceVars, docVars>>
     \/ /\ explored = "token" /\ TokenNext
        /\ UNCHANGED <<credVars, discoveryVars, fileVars, vaultVars, surfaceVars, docVars>>
     \/ /\ explored = "config" /\ DiscoveryNext
        /\ UNCHANGED <<credVars, tokenVars, fileVars, vaultVars, surfaceVars, docVars>>
     \/ /\ explored = "file" /\ FileNext
        /\ UNCHANGED <<credVars, tokenVars, discoveryVars, vaultVars, surfaceVars, docVars>>
     \/ /\ explored = "vault" /\ VaultNext
        /\ UNCHANGED <<credVars, tokenVars, discoveryVars, fileVars, surfaceVars, docVars>>
     \/ /\ explored = "surface" /\ SurfaceNext /\ Alike
        /\ UNCHANGED <<credVars, tokenVars, discoveryVars, fileVars, vaultVars, docVars>>
     \/ /\ explored = "doc" /\ DocNext
        /\ UNCHANGED <<credVars, tokenVars, discoveryVars, fileVars, vaultVars, surfaceVars>>
  /\ UNCHANGED explored

StateSpec ==
  StateInit /\ [][StateNext]_<<credVars, tokenVars, discoveryVars, fileVars, vaultVars,
                               surfaceVars, docVars, explored>>

=============================================================================
