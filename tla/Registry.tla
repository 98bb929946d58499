------------------------------ MODULE Registry ------------------------------
(***************************************************************************)
(* config.toml as the commands see it: the operations of registry.rs and   *)
(* of the commands that use them.  Names are unique (add_server and        *)
(* add_target refuse duplicates), so a list of entries is a function of    *)
(* the name.  A server keeps its SSH endpoint and whether it was used; the *)
(* port of the relay, the user and the time stamps have no influence here. *)
(***************************************************************************)
CONSTANTS
  Names,  \* server names
  Hosts,  \* SSH endpoints, host:port
  Ids,    \* RustDesk ids (a label stands for the id of its target)
  Modes,  \* credential modes
  None    \* no server, target or name

DefaultMode == "prompt"

ASSUME RegistryAssumption ==
  /\ DefaultMode \in Modes
  /\ Modes \subseteq {"prompt", "keychain", "unsafe"}

Server == [host : Hosts, used : BOOLEAN]
Target == [via : Names \cup {None}]
Config == [servers : [Names -> Server \cup {None}], targets : [Ids -> Target \cup {None}],
           mode : Modes, default : Names \cup {None}]

DefaultConfig == [servers |-> [n \in Names |-> None], targets |-> [i \in Ids |-> None],
                  mode |-> DefaultMode, default |-> None]

ASSUME RegistryNoneAssumption == None \notin Server \cup Target \cup Names

(***************************************************************************)
(* The commands that may write.  ack is --i-understand-this-is-insecure.   *)
(***************************************************************************)
Command ==
       [op : {"server add"}, name : Names, host : Hosts]
  \cup [op : {"server remove"}, name : Names]
  \cup [op : {"target add"}, id : Ids, via : Names \cup {None}]
  \cup [op : {"target remove"}, id : Ids]
  \cup [op : {"config set-mode"}, mode : Modes, ack : BOOLEAN]
  \cup [op : {"connect"}, id : Ids, via : Names \cup {None}]

Registered(config, name) == name # None /\ config.servers[name] # None

\* resolve_via_name: --via, else the target's own server, else the default.
Via(config, cmd) ==
  LET target == config.targets[cmd.id]
  IN  IF cmd.via # None THEN cmd.via
      ELSE IF target # None /\ target.via # None THEN target.via
      ELSE config.default

\* Whether the command goes on, from the configuration it loaded.
Accepts(config, cmd) ==
  CASE cmd.op = "server add"      -> config.servers[cmd.name] = None
    [] cmd.op = "server remove"   -> config.servers[cmd.name] # None
    [] cmd.op = "target add"      -> /\ cmd.via # None => Registered(config, cmd.via)
                                     /\ config.targets[cmd.id] = None
    [] cmd.op = "target remove"   -> config.targets[cmd.id] # None
    [] cmd.op = "config set-mode" -> cmd.mode = "unsafe" => cmd.ack
    [] cmd.op = "connect"         -> Registered(config, Via(config, cmd))

\* What the command makes of it; connect stamps last_used.
Applied(config, cmd) ==
  CASE cmd.op = "server add"      -> [config EXCEPT !.servers[cmd.name] =
                                        [host |-> cmd.host, used |-> FALSE]]
    [] cmd.op = "server remove"   -> [config EXCEPT !.servers[cmd.name] = None]
    [] cmd.op = "target add"      -> [config EXCEPT !.targets[cmd.id] = [via |-> cmd.via]]
    [] cmd.op = "target remove"   -> [config EXCEPT !.targets[cmd.id] = None]
    [] cmd.op = "config set-mode" -> [config EXCEPT !.mode = cmd.mode]
    [] cmd.op = "connect"         -> [config EXCEPT !.servers[Via(config, cmd)].used = TRUE]

=============================================================================
