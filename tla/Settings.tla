------------------------------ MODULE Settings ------------------------------
(***************************************************************************)
(* The settings of the web server (appSettings of cmd/web/main.go): where  *)
(* they come from, the form that changes them, the file they are kept in,  *)
(* and the Drive client that is built from them.                           *)
(*                                                                         *)
(* Three fields stand for all: "folder" for those the form may clear (the  *)
(* folder ID, host, user, password and database), "key", which an empty    *)
(* form field leaves alone, and "prefix" for those that fall back on a     *)
(* default (prefix, port, credentials, token file, retention).  A value is *)
(* Blank, Default or one of Texts.                                         *)
(*                                                                         *)
(* The file is written by os.WriteFile, which truncates it first, and the  *)
(* token file by os.Create and an encoder; any step of a request may be    *)
(* the last before the process ends and starts again.                      *)
(* A client made by uploader.New refreshes its access token under the      *)
(* context it was made with, which for the OAuth callback is that of the   *)
(* request and is over when the request is.                                *)
(*                                                                         *)
(* A definition marked "Fault" is not part of the specification: put in    *)
(* the place of the definition that follows it, it breaks a property.      *)
(***************************************************************************)
EXTENDS Integers

CONSTANTS
  Blank, Default,   \* the empty string and a default value
  EnvTexts,         \* other values of an environment variable
  FormTexts,        \* and of a field of the form
  KeyTexts,         \* those of them that are 64 characters long
  Torn,             \* a string read while it is being written
  NoClient,         \* the nil client
  Savers            \* requests to /api/settings/save under way at once

Texts == EnvTexts \cup FormTexts

ASSUME SettingsAssumption ==
  /\ Blank # Default /\ {Blank, Default} \cap Texts = {}
  /\ KeyTexts \subseteq Texts
  /\ Torn \notin Texts \cup {Blank, Default}

Values   == Texts \cup {Blank, Default}
Fields   == {"folder", "key", "prefix"}
Settings == [Fields -> Values]
Empty    == [f \in Fields |-> Blank]

VARIABLES
  env,      \* the environment variables
  cfg,      \* a.cfg
  file,     \* settings.json: "none", "empty" or "whole"
  disk,     \* the settings it holds; Empty unless it is whole
  pc,       \* where each request stands
  copy,     \* the settings it has applied; Empty when not used any more
  buf,      \* what it is about to write; likewise
  unsaved,  \* has the last attempt to write the file failed?
  token,    \* the token file: "none", "torn" or "whole"
  client,   \* the Drive client: [folder, ctx, fresh]
  oauth     \* where the OAuth callback stands

saveVars == <<pc, copy, buf, unsaved>>
vars == <<env, cfg, file, disk, pc, copy, buf, unsaved, token, client, oauth>>

\* Fault: environment variables override the file.
EnvFirst(e, d) ==
  [f \in Fields |->
     IF e[f] # Blank THEN e[f]
     ELSE IF d[f] # Blank THEN d[f]
     ELSE IF f = "prefix" THEN Default ELSE Blank]

\* loadSettings: defaults, then environment, then settings.json.
Merged(e, d) ==
  [f \in Fields |->
     IF d[f] # Blank THEN d[f]
     ELSE IF e[f] # Blank THEN e[f]
     ELSE IF f = "prefix" THEN Default ELSE Blank]

\* Fault: an empty form field overwrites the key.
SubmittedKeyToo(form) ==
  [f \in Fields |-> IF f = "prefix" /\ form[f] = Blank THEN Default ELSE form[f]]

\* Fault: an empty form field is stored as it is.
SubmittedAsIs(form) ==
  [f \in Fields |-> IF f = "key" /\ form[f] = Blank THEN cfg[f] ELSE form[f]]

\* What apiSaveSettings makes of the form.
Submitted(form) ==
  [f \in Fields |->
     IF form[f] # Blank THEN form[f]
     ELSE CASE f = "key"    -> cfg[f]
            [] f = "prefix" -> Default
            [] OTHER        -> Blank]

\* Does toBackupConfig accept the settings?
Accepts(c) == c["folder"] # Blank /\ c["key"] \in KeyTexts

\* Callers of uploader.New get a client or an error, with a token at hand.
NewClient(folder, c) == [folder |-> folder, ctx |-> c, fresh |-> TRUE]

Init ==
  /\ env \in [Fields -> {Blank} \cup EnvTexts]
  /\ file = "none" /\ disk = Empty
  /\ cfg = Merged(env, Empty)
  /\ pc = [w \in Savers |-> "off"]
  /\ copy = [w \in Savers |-> Empty] /\ buf = [w \in Savers |-> Empty]
  /\ unsaved = FALSE /\ token = "none" /\ client = NoClient /\ oauth = "off"

-----------------------------------------------------------------------------
(* A request to /api/settings/save.                                        *)

Goto(w, l) == pc' = [pc EXCEPT ![w] = l]

\* cfgMu is held from Lock to Unlock.
Locked == \E w \in Savers : pc[w] = "update"

Lock(w, form) ==
  /\ pc[w] = "off" /\ ~Locked
  /\ Goto(w, "update")
  /\ copy' = [copy EXCEPT ![w] = Submitted(form)]
  /\ UNCHANGED <<env, cfg, file, disk, buf, unsaved, token, client, oauth>>

Unlock(w) ==
  /\ pc[w] = "update"
  /\ Goto(w, "marshal")
  /\ cfg' = copy[w]
  /\ UNCHANGED <<env, file, disk, copy, buf, unsaved, token, client, oauth>>

Marshal(w) ==
  /\ pc[w] = "marshal" /\ ~Locked
  /\ Goto(w, "truncate")
  /\ buf' = [buf EXCEPT ![w] = cfg]
  /\ UNCHANGED <<env, cfg, file, disk, copy, unsaved, token, client, oauth>>

Truncate(w) ==
  /\ pc[w] = "truncate"
  /\ Goto(w, "write")
  /\ file' = "empty" /\ disk' = Empty
  /\ UNCHANGED <<env, cfg, copy, buf, unsaved, token, client, oauth>>

Write(w) ==
  /\ pc[w] = "write"
  /\ Goto(w, "connect")
  /\ file' = "whole" /\ disk' = buf[w]
  /\ unsaved' = FALSE
  /\ buf' = [buf EXCEPT ![w] = Empty]
  /\ UNCHANGED <<env, cfg, copy, token, client, oauth>>

\* The file cannot be opened or written: "save failed", and nothing is undone.
WriteFails(w) ==
  /\ pc[w] \in {"truncate", "write"}
  /\ Goto(w, "off")
  /\ unsaved' = TRUE
  /\ copy' = [copy EXCEPT ![w] = Empty] /\ buf' = [buf EXCEPT ![w] = Empty]
  /\ UNCHANGED <<env, cfg, file, disk, token, client, oauth>>

\* HasToken reads the token file ...
HasToken(w) ==
  /\ pc[w] = "connect"
  /\ IF token = "whole" /\ copy[w]["folder"] # Blank
     THEN Goto(w, "new") /\ copy' = copy
     ELSE Goto(w, "off") /\ copy' = [copy EXCEPT ![w] = Empty]
  /\ UNCHANGED <<env, cfg, file, disk, buf, unsaved, token, client, oauth>>

\* ... and uploader.New reads it again, or fails.
Reconnect(w) ==
  /\ pc[w] = "new"
  /\ Goto(w, "off")
  /\ \/ token = "whole" /\ client' = NewClient(copy[w]["folder"], "background")
     \/ UNCHANGED client
  /\ copy' = [copy EXCEPT ![w] = Empty]
  /\ UNCHANGED <<env, cfg, file, disk, buf, unsaved, token, oauth>>

\* Without a token it asks for a code on the terminal, where nobody is.
Asks(w) ==
  /\ pc[w] = "new" /\ token = "torn"
  /\ Goto(w, "asks")
  /\ UNCHANGED <<env, cfg, file, disk, copy, buf, unsaved, token, client, oauth>>

-----------------------------------------------------------------------------
(* The OAuth callback, the Drive pages, and the process.                   *)

Exchange ==
  /\ oauth = "off"
  /\ oauth' = "save"
  /\ UNCHANGED <<env, cfg, file, disk, saveVars, token, client>>

\* saveToken: os.Create, then the encoder.
TruncateToken ==
  /\ oauth = "save"
  /\ oauth' = "encode" /\ token' = "torn"
  /\ UNCHANGED <<env, cfg, file, disk, saveVars, client>>

EncodeToken ==
  /\ oauth = "encode"
  /\ oauth' = "connect" /\ token' = "whole"
  /\ UNCHANGED <<env, cfg, file, disk, saveVars, client>>

\* The code is refused, or the file cannot be written.
ExchangeFails ==
  /\ oauth \in {"save", "encode"}
  /\ oauth' = "off"
  /\ UNCHANGED <<env, cfg, file, disk, saveVars, token, client>>

\* What a reader of a.cfg that takes no lock may see of the folder.
SeenFolders ==
  {cfg["folder"]} \cup UNION {{copy[w]["folder"], Torn} : w \in {v \in Savers :
                                 pc[v] = "update" /\ copy[v]["folder"] # cfg["folder"]}}

Callback ==
  /\ oauth = "connect"
  /\ oauth' = "off"
  /\ \/ \E f \in SeenFolders : client' = NewClient(f, "request")
     \/ UNCHANGED client
  /\ UNCHANGED <<env, cfg, file, disk, saveVars, token>>

\* The access token of the client runs out ...
Expire ==
  /\ client # NoClient /\ client.fresh
  /\ client' = [client EXCEPT !.fresh = FALSE]
  /\ UNCHANGED <<env, cfg, file, disk, saveVars, token, oauth>>

\* ... and is renewed by the next request to Drive, unless the context the
\* client was made with is over.
Refresh ==
  /\ client # NoClient /\ ~client.fresh /\ client.ctx # "request"
  /\ client' = [client EXCEPT !.fresh = TRUE]
  /\ UNCHANGED <<env, cfg, file, disk, saveVars, token, oauth>>

Restart ==
  /\ cfg' = Merged(env, disk)
  /\ \/ token = "whole" /\ client' = NewClient(Merged(env, disk)["folder"], "main")
     \/ client' = NoClient
  /\ pc' = [w \in Savers |-> "off"] /\ oauth' = "off"
  /\ copy' = [w \in Savers |-> Empty] /\ buf' = [w \in Savers |-> Empty]
  /\ unsaved' = FALSE
  /\ UNCHANGED <<env, file, disk, token>>

-----------------------------------------------------------------------------

Forms == [Fields -> FormTexts \cup {Blank}]

Saving(w) == Unlock(w) \/ Marshal(w) \/ Truncate(w) \/ Write(w) \/ WriteFails(w)
             \/ HasToken(w) \/ Reconnect(w) \/ Asks(w)

Next ==
  \/ \E w \in Savers : Saving(w) \/ \E form \in Forms : Lock(w, form)
  \/ Exchange \/ TruncateToken \/ EncodeToken \/ ExchangeFails \/ Callback \/ Expire \/ Refresh
  \/ Restart

Spec == Init /\ [][Next]_vars

-----------------------------------------------------------------------------
Clients == [folder : Values \cup {Torn}, ctx : {"main", "background", "request"}, fresh : BOOLEAN]

(* Every variable has its type; the settings in force always have a prefix.*)
TypeOK ==
  /\ env \in Settings /\ cfg \in Settings /\ disk \in Settings
  /\ file \in {"none", "empty", "whole"} /\ (file # "whole" => disk = Empty)
  /\ pc \in [Savers -> {"off", "update", "marshal", "truncate", "write", "connect", "new", "asks"}]
  /\ copy \in [Savers -> Settings] /\ buf \in [Savers -> Settings]
  /\ unsaved \in BOOLEAN /\ token \in {"none", "torn", "whole"}
  /\ oauth \in {"off", "save", "encode", "connect"}
  /\ client = NoClient \/ client \in Clients
  /\ cfg["prefix"] # Blank

\* The settings in force have been written to the file.
Saved == ~unsaved /\ \A w \in Savers : pc[w] \notin {"marshal", "truncate", "write"}

(* A restart brings back every setting that is not empty, whichever came   *)
(* from the environment, a default or the form, and however many restarts  *)
(* and failed saves came before, once a save has ended well.               *)
SurvivesRestart ==
  Saved => \A f \in Fields : cfg[f] # Blank => Merged(env, disk)[f] = cfg[f]

(* Settings with which backups run are settings with which they run after  *)
(* a restart, so that the scheduler goes on where it was (configOk of      *)
(* module Scheduler does not turn false by itself).                        *)
StaysAccepted == Saved /\ Accepts(cfg) => Accepts(Merged(env, disk))

(* An encryption key that has been saved is there for good: neither a form *)
(* that leaves the field empty nor a restart takes it away.                *)
KeyKept == [][Saved /\ cfg["key"] # Blank => cfg'["key"] # Blank]_vars

(* "The settings.json (written by the UI) takes highest precedence": what  *)
(* a form has saved is what a restart loads.                               *)
FileWins == Saved /\ file = "whole" => Merged(env, disk) = disk

(* "saved to disk and applied immediately": once a request has been dealt  *)
(* with, the Drive client works on the folder in the settings.             *)
ClientFollows ==
  client # NoClient /\ Saved /\ (\A w \in Savers : pc[w] = "off") =>
    client.folder = cfg["folder"]

(* "so subsequent runs are fully automatic" (uploader.New): nothing waits  *)
(* at the terminal once there has been a token file.                       *)
NeverAsks == \A w \in Savers : pc[w] # "asks"

(* "Google Drive connected successfully!": the client of an authorized     *)
(* server can always get an access token.                                  *)
StaysConnected == client # NoClient => client.fresh \/ client.ctx # "request"

=============================================================================
