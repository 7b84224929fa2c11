---- MODULE RemoteSetup ----
(***************************************************************************)
(* How clone and config add-backup arrive at the configuration of a remote *)
(* (commands/clone.rs), and whether it fits what the remote holds.         *)
(*                                                                         *)
(* A remote prefix holds at most one INDEX_ROOT per key, under a name that *)
(* only the holder of the key can compute, and objects.  A configuration   *)
(* is the kind of the remote, its place and its key.  Answers are what the *)
(* user types: "" is an empty answer.                                      *)
(***************************************************************************)
EXTENDS Naturals, Sequences, SequencesExt

NoKey == 0
FreshKey == 9
Keys == {1, 2}
Error == [kind |-> "error"]
RemoteConfig(kind, place, key) == [kind |-> kind, place |-> place, key |-> key]
IsError(config) == config.kind = "error"

-----------------------------------------------------------------------------
(* What the remote holds.                                                  *)

\* index_root_path: INDEX_ROOT, or an object named by the key.
index_root_present(remote, key) == key \in remote.roots

\* iter_hashes: an encrypted INDEX_ROOT is among the objects; a listing that
\* fails counts as an empty one.
iter_hashes(remote) == remote.listable /\ (remote.objects \/ remote.roots \ {NoKey} # {})

\* Mutant: only INDEX_ROOT decides whether the prefix is empty.
validate_by_root(remote, key, intent) == (intent = "existing") <=> index_root_present(remote, key)
validate_remote_state(remote, key, intent) ==
    IF intent = "new" THEN ~index_root_present(remote, key) /\ ~iter_hashes(remote)
    ELSE index_root_present(remote, key)

-----------------------------------------------------------------------------
(* URLs, flags, connection strings.                                        *)

detect_remote_type(url) ==
    CASE url.scheme \in {"/", ".", "~", "local"} -> "local"
      [] url.scheme = "s3" -> "s3" [] url.scheme = "gs" -> "gcs" [] url.scheme = "azure" -> "azure"
      [] OTHER -> "error"
build_remote_config_from_url(url) ==
    LET kind == detect_remote_type(url)
    IN  IF kind = "error" \/ (kind = "azure" /\ ~url.container) THEN Error
        ELSE RemoteConfig(kind, url.place, NoKey)

validate_intent_flags(f) == ~(f.existing /\ (f.new \/ f.encrypt))
resolve_intent_noninteractive(f) ==
    IF f.new THEN "new" ELSE IF f.existing THEN "existing" ELSE IF f.encrypt THEN "new" ELSE "error"

set_remote_encryption(config, key) == [config EXCEPT !.key = key]

\* base32: eight bits in, five bits out, the last ones padded with zeros; back,
\* the bits that do not fill a byte are dropped.
Regroup(from, to, values) ==
    FoldLeft(LAMBDA s, v :
               LET bits == s.bits + from
                   buf == s.buf * 2 ^ from + v
                   n == bits \div to
               IN  [bits |-> bits - n * to, buf |-> buf % 2 ^ (bits - n * to),
                    out |-> s.out \o [i \in 1 .. n |-> (buf \div 2 ^ (bits - i * to)) % 2 ^ to]],
             [bits |-> 0, buf |-> 0, out |-> <<>>], values)
encode(bytes) ==
    LET s == Regroup(8, 5, bytes)
    IN  IF s.bits > 0 THEN Append(s.out, (s.buf * 2 ^ (5 - s.bits)) % 32) ELSE s.out
decode(chars) == Regroup(5, 8, chars).out

\* What serde_json writes: three bytes tell these configurations apart.
MenuKinds == <<"local", "s3", "gcs", "azure">>
PlaceNames == <<"o", "b", "p">>
to_string(c) ==
    <<120 + (CHOOSE i \in 1 .. 4 : MenuKinds[i] = c.kind), 85 * (CHOOSE i \in 1 .. 3 : PlaceNames[i] = c.place), 31 * c.key>>
from_slice(bytes) ==
    LET read == {c \in {RemoteConfig(MenuKinds[k], PlaceNames[p], key) : k \in 1 .. 4, p \in 1 .. 3, key \in Keys \cup {NoKey}} :
                   to_string(c) = bytes}
    IN  IF read = {} THEN Error ELSE CHOOSE c \in read : TRUE

\* config export, and the same as the URL of a clone.
encode_connection_string(config) == encode(to_string(config))
parse_connection_string(string) == from_slice(decode(string))
IsConnectionString(url) == url.scheme = "omemfs_repo_"

-----------------------------------------------------------------------------
(* Interactive setup.                                                      *)

prompt_remote_credentials(url) ==
    LET kind == detect_remote_type(url)
    IN  IF kind \in {"local", "s3"} THEN RemoteConfig(kind, url.place, NoKey) ELSE Error

\* collect_*_fields: the place is required, the rest optional.
collect_fields(kind, place) == IF place = "" THEN Error ELSE RemoteConfig(kind, place, NoKey)
\* Choices are read until one of the four kinds; the end of input is an error.
collect_remote_from_menu(choices, place) ==
    LET valid == SelectSeq(choices, LAMBDA c : c \in 1 .. 4)
    IN  IF valid = <<>> THEN Error ELSE collect_fields(MenuKinds[valid[1]], place)

Intent(f, answer) ==
    LET flagged == resolve_intent_noninteractive(f)
    IN  IF flagged # "error" THEN flagged ELSE IF answer \in {"new", "existing"} THEN answer ELSE "error"
\* A new remote gets a fresh key unless declined; an existing one the key typed.
Key(f, intent, a) ==
    IF intent = "new" THEN (IF f.encrypt \/ a.encrypted # "n" THEN FreshKey ELSE NoKey)
    ELSE IF a.encrypted = "y" THEN a.dek ELSE NoKey
configure_remote_interactively(config, f, a) ==
    LET intent == Intent(f, a.intent)
    IN  IF IsError(config) \/ intent = "error" THEN [config |-> Error, intent |-> "error"]
        ELSE [config |-> set_remote_encryption(config, Key(f, intent, a)), intent |-> intent]

Validated(remote, c) ==
    IF ~IsError(c.config) /\ validate_remote_state(remote, c.config.key, c.intent) THEN c.config ELSE Error

-----------------------------------------------------------------------------
(* The commands: the configuration of the remote they set up, or Error.    *)

FromUrl(remote, f, url) ==
    LET intent == resolve_intent_noninteractive(f)
        config == build_remote_config_from_url(url)
    IN  IF intent = "error" \/ IsError(config) THEN Error
        ELSE Validated(remote, [intent |-> intent,
               config |-> IF intent = "new" /\ f.encrypt THEN set_remote_encryption(config, FreshKey) ELSE config])

Interactively(remote, f, a) ==
    LET creds == IF a.url.scheme = "" THEN collect_remote_from_menu(a.choices, a.place)
                 ELSE prompt_remote_credentials(a.url)
    IN  Validated(remote, configure_remote_interactively(creds, f, a))

\* A connection string is taken as it is, wherever a URL is asked for.
setup(remote, f, url, a) ==
    CASE ~validate_intent_flags(f) -> Error
      [] IsConnectionString(url) -> parse_connection_string(url.string)
      [] url.scheme # "" -> FromUrl(remote, f, url)
      [] IsConnectionString(a.url) -> parse_connection_string(a.url.string)
      [] OTHER -> Interactively(remote, f, a)

clone(remote, f, url, a) == IF IsConnectionString(url) /\ f.encrypt THEN Error ELSE setup(remote, f, url, a)

\* A backup that is there is replaced with --force only.
run_add_backup(remotes, remote, f, url, a) ==
    LET backup == setup(remote, f, url, a)
    IN  IF IsError(backup) \/ (~IsError(remotes.backup) /\ ~f.force) THEN remotes
        ELSE [remotes EXCEPT !.backup = backup]
====
