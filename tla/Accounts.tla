------------------------------ MODULE Accounts ------------------------------
(***************************************************************************)
(* The accounts: their settings in the config file, which every command    *)
(* reads, changes and writes whole (internal/core/account/account.go and   *)
(* internal/config/config.go), and their secrets in the keyring            *)
(* (internal/auth).  Commands of several processes, and of the TUI, may    *)
(* overlap, fail and die anywhere.                                         *)
(***************************************************************************)
EXTENDS FiniteSets, Naturals

CONSTANTS
    Commands,   \* the commands that may be under way at a time
    AccountSlugs,
    MaxStamp    \* bound: the commands begun

ASSUME AccountsAssumption == MaxStamp \in Nat

VARIABLES
    config,     \* the config file: the settings of each account
    mixed,      \* it has the rest of a longer one after its end: no command reads it
    password, token,   \* the keyring: by slug, and by slug with ".oauth2"
    command,    \* command[c]: the progress of one
    stamp,      \* the commands begun: a change of settings, a password or a
                \* sign-in is told by its number
    written, asked,   \* history: what the file was last written to; what the last
                \* command on an account that ended well said it is
    raced       \* history: the accounts of which a change was lost (see Raced)

accountVars == <<config, mixed, password, token, command, stamp, written, asked, raced>>
keyring == <<password, token>>

Absent == [type |-> "none", rev |-> 0]
NoToken == [signin |-> 0, refresh |-> FALSE]
Nobody == [s \in AccountSlugs |-> Absent]

\* seen: the settings of the account as it was read first; set: as they are to be;
\* loaded: the file as read last; secret: the password or sign-in to store, or 0.
\* alone is history: no other command ran at any time of it.
NoCommand == [pc |-> "idle", op |-> "none", slug |-> "none", loaded |-> Nobody, seen |-> Absent,
              set |-> Absent, secret |-> 0, alone |-> FALSE]

InitAccounts ==
    /\ config = Nobody /\ mixed = FALSE
    /\ password = [s \in AccountSlugs |-> 0] /\ token = [s \in AccountSlugs |-> NoToken]
    /\ command = [c \in Commands |-> NoCommand] /\ stamp = 0
    /\ written = Nobody /\ asked = [s \in AccountSlugs |-> [settings |-> Absent, secret |-> 0]]
    /\ raced = {}

Pc(c, pc) == command[c].pc = pc
Slug(c) == command[c].slug
Step(c, pc) == command' = [command EXCEPT ![c].pc = pc]
Ends(c) == command' = [command EXCEPT ![c] = NoCommand]

BeginCommand(c, r) ==
    /\ Pc(c, "idle") /\ stamp < MaxStamp /\ stamp' = stamp + 1
    /\ command' = [d \in Commands |->
         IF d = c THEN [r EXCEPT !.alone = \A e \in Commands \ {c} : Pc(e, "idle")]
                  ELSE [command[d] EXCEPT !.alone = FALSE]]
    /\ UNCHANGED <<config, mixed, keyring, written, asked, raced>>

-----------------------------------------------------------------------------
(* The commands begin: account add, edit and remove, and the form of the   *)
(* TUI.  The user of a Google account signs in before add reads the file.  *)

NewAccount(s, type) ==
    [NoCommand EXCEPT !.pc = "load", !.op = "add", !.slug = s,
                      !.set = [type |-> type, rev |-> stamp + 1], !.secret = stamp + 1]

BeginAdd(c, s, type) == BeginCommand(c, NewAccount(s, type))

\* edit gets the account, and later replaces all its settings; it may ask for a
\* password in between.
BeginEdit(c, s, n) ==
    /\ ~ mixed /\ config[s] # Absent
    /\ BeginCommand(c, [NoCommand EXCEPT !.pc = "load", !.op = "edit", !.slug = s, !.seen = config[s],
                          !.set = [config[s] EXCEPT !.rev = stamp + 1], !.secret = n])

BeginRemove(c, s) == BeginCommand(c, [NoCommand EXCEPT !.pc = "load", !.op = "remove", !.slug = s])

\* ReauthorizeGoogle gets the account once the user has signed in.
BeginReauthorize(c, s) ==
    /\ ~ mixed /\ config[s].type = "google"
    /\ BeginCommand(c, [NoCommand EXCEPT !.pc = "token", !.op = "reauthorize", !.slug = s,
                          !.seen = config[s], !.secret = stamp + 1])

\* A connection reads the token, which has expired, and has it refreshed.
BeginConnect(c, s) ==
    /\ ~ mixed /\ config[s].type = "google" /\ token[s].refresh
    /\ BeginCommand(c, [NoCommand EXCEPT !.pc = "refresh", !.op = "connect", !.slug = s,
                          !.secret = token[s].signin])

-----------------------------------------------------------------------------
(* Add, Update, Remove and Save. *)

Refuses(c) ==
    \/ mixed
    \/ command[c].op = "add" /\ config[Slug(c)] # Absent
    \/ command[c].op # "add" /\ config[Slug(c)] = Absent
    \/ command[c].op = "edit" /\ command[c].secret # 0 /\ command[c].set.type = "google"

Load(c) ==
    /\ Pc(c, "load")
    /\ \/ Refuses(c) /\ Ends(c)
       \/ /\ ~ Refuses(c)
          /\ command' = [command EXCEPT ![c].loaded = config,
               ![c].seen = IF @ = Absent THEN config[Slug(c)] ELSE @,
               ![c].pc = IF command[c].op = "remove" THEN "delete password"
                         ELSE IF command[c].secret # 0 THEN "secret" ELSE "truncate"]
    /\ UNCHANGED <<config, mixed, keyring, stamp, written, asked, raced>>

\* A change is lost when a file is written from one read before another was written,
\* or an account's settings from those of before; when a secret is changed that
\* another command has changed and not yet written the file; by a command that dies
\* halfway; and by a token stored instead of a newer one, or where there is none.
\* An add or a removal that no other command overlaps mends it.
Raced(c, S, whole) ==
    raced' = (IF whole /\ command[c].alone THEN raced \ {Slug(c)} ELSE raced) \cup S

Touched(c) ==
    \/ Pc(c, "delete token")
    \/ command[c].pc \in {"truncate", "write"} /\ (command[c].secret # 0 \/ command[c].op = "remove")

Crossed(c) ==
    {Slug(d) : d \in {d \in Commands \ {c} : Slug(d) = Slug(c) /\ Touched(d)
                        /\ (command[c].op = "remove" => command[d].op # "remove")}}

SetSecret(c) ==
    /\ Pc(c, "secret") /\ Step(c, "truncate")
    /\ \/ /\ command[c].set.type = "password"
          /\ password' = [password EXCEPT ![Slug(c)] = command[c].secret] /\ UNCHANGED token
       \/ /\ command[c].set.type = "google"
          /\ token' = [token EXCEPT ![Slug(c)] = [signin |-> command[c].secret, refresh |-> TRUE]]
          /\ UNCHANGED password
    /\ Raced(c, Crossed(c), FALSE)
    /\ UNCHANGED <<config, mixed, stamp, written, asked>>

DeletePassword(c) ==
    /\ Pc(c, "delete password") /\ Step(c, "delete token")
    /\ password' = [password EXCEPT ![Slug(c)] = 0]
    /\ Raced(c, Crossed(c), FALSE)
    /\ UNCHANGED <<config, mixed, token, stamp, written, asked>>

DeleteOAuthToken(c) ==
    /\ Pc(c, "delete token") /\ Step(c, "truncate")
    /\ token' = [token EXCEPT ![Slug(c)] = NoToken]
    /\ Raced(c, Crossed(c), FALSE)
    /\ UNCHANGED <<config, mixed, password, stamp, written, asked>>

\* An empty file is one with no accounts.
Truncate(c) ==
    /\ Pc(c, "truncate") /\ Step(c, "write")
    /\ config' = Nobody /\ mixed' = FALSE
    /\ UNCHANGED <<keyring, stamp, written, asked, raced>>

\* Fault: settings are appended to those there are, and the first are found.
Appended(c) ==
    IF command[c].op = "edit" THEN command[c].loaded ELSE [command[c].loaded EXCEPT ![Slug(c)] = command[c].set]

\* UpsertAccount and RemoveAccount.
Upserted(c) == [command[c].loaded EXCEPT ![Slug(c)] = command[c].set]

Write(c) ==
    LET s == Slug(c)
    IN  /\ Pc(c, "write") /\ Ends(c)
        /\ config' = Upserted(c) /\ written' = config'
        /\ mixed' \in IF config = Nobody THEN {FALSE} ELSE BOOLEAN
        /\ asked' = [asked EXCEPT ![s] =
             [settings |-> command[c].set,
              secret |-> IF command[c].op = "edit" /\ command[c].secret = 0 THEN @.secret
                         ELSE command[c].secret]]
        /\ Raced(c, IF mixed' THEN AccountSlugs
                    ELSE {t \in AccountSlugs : command[c].loaded[t] # written[t]}
                           \cup {t \in {s} : command[c].seen # written[t]},
                 command[c].op # "edit")
        /\ UNCHANGED <<keyring, stamp>>

\* An error, or the death of the process.
Fail(c) ==
    /\ ~ Pc(c, "idle") /\ Ends(c)
    /\ Raced(c, IF Pc(c, "write") THEN AccountSlugs
                ELSE {t \in {Slug(c)} : Touched(c)}, FALSE)
    /\ UNCHANGED <<config, mixed, keyring, stamp, written, asked>>

-----------------------------------------------------------------------------
(* Tokens. *)

SetReauthorized(c) ==
    LET s == Slug(c) IN
    /\ Pc(c, "token") /\ Ends(c)
    /\ token' = [token EXCEPT ![s] = [signin |-> command[c].secret, refresh |-> TRUE]]
    /\ asked' = [asked EXCEPT ![s].secret = command[c].secret]
    /\ Raced(c, Crossed(c) \cup {t \in {s} : command[c].seen # written[t]}, FALSE)
    /\ UNCHANGED <<config, mixed, password, stamp, written>>

Refreshed(c, carried) ==
    LET s == Slug(c) IN
    /\ Pc(c, "refresh") /\ Ends(c)
    /\ token' = [token EXCEPT ![s] = [signin |-> command[c].secret, refresh |-> carried]]
    /\ Raced(c, {t \in {s} : token[t].signin # command[c].secret}, FALSE)
    /\ UNCHANGED <<config, mixed, password, stamp, written, asked>>

\* Fault: what the server answers, which has no refresh token.
RefreshAsAnswered(c) == Refreshed(c, FALSE)

\* accessToken: the refresh token is carried over.
SetRefreshed(c) == Refreshed(c, TRUE)

NextAccounts ==
    \E c \in Commands :
      \/ \E s \in AccountSlugs :
           \/ \E type \in {"password", "google"} : BeginAdd(c, s, type)
           \/ \E n \in {0, stamp + 1} : BeginEdit(c, s, n)
           \/ BeginRemove(c, s) \/ BeginReauthorize(c, s) \/ BeginConnect(c, s)
      \/ Load(c) \/ SetSecret(c) \/ DeletePassword(c) \/ DeleteOAuthToken(c)
      \/ Truncate(c) \/ Write(c) \/ Fail(c) \/ SetReauthorized(c) \/ SetRefreshed(c)

AccountsSpec == InitAccounts /\ [][NextAccounts]_accountVars

-----------------------------------------------------------------------------
(* Properties. *)

Settings == [type : {"none", "password", "google"}, rev : 0..MaxStamp]

AccountsTypeOK ==
    /\ config \in [AccountSlugs -> Settings] /\ mixed \in BOOLEAN
    /\ password \in [AccountSlugs -> 0..MaxStamp]
    /\ token \in [AccountSlugs -> [signin : 0..MaxStamp, refresh : BOOLEAN]]
    /\ stamp \in 0..MaxStamp /\ raced \subseteq AccountSlugs

\* The settings of an account are those that the last command on it left, whatever
\* is done to it and to the others meanwhile, unless a change was lost; or the file
\* is just being written (account.go: load, change, save with no lock).
SettingsAsAsked ==
    \A s \in AccountSlugs \ raced :
      \/ ~ mixed /\ config[s] = asked[s].settings
      \/ \E c \in Commands : Pc(c, "write")

\* A command on s has begun to change its secrets.
Under(s) == \E c \in Commands : Slug(c) = s /\ command[c].pc \notin {"load", "refresh", "token"}

\* An account has the secret last given for it, with which its token can be
\* refreshed, and one that is removed has none (account.go: secrets first, then
\* the file; google.go: accessToken).
SecretsAsAsked ==
    \A s \in AccountSlugs \ raced :
      \/ Under(s)
      \/ asked[s].settings.type = "none" /\ password[s] = 0 /\ token[s] = NoToken
      \/ asked[s].settings.type = "password" /\ password[s] = asked[s].secret
      \/ /\ asked[s].settings.type = "google"
         /\ token[s] = [signin |-> asked[s].secret, refresh |-> TRUE]

=============================================================================
