------------------------------- MODULE Config -------------------------------
(***************************************************************************)
(* How a process finds its options (src/internal/config, and the beginning *)
(* of run() in src/cmd): built-in defaults, the environment, a JSON file,  *)
(* command-line flags, and the environment a second time.                  *)
(*                                                                         *)
(* One option stands for those of its kind: "addr" is a string with a      *)
(* flag, "bucket" one without, ssl a boolean and maxUpload a number.       *)
(* A value that is not given is Unset; Empty is the empty string, which the *)
(* environment, the file and a flag treat differently.                     *)
(***************************************************************************)
EXTENDS Integers, Sequences

CONSTANTS
    Unset,         \* an option that a source does not mention
    Unreadable,    \* a file that cannot be read or parsed
    Empty,         \* the empty string
    Values,        \* other strings
    Limits,        \* numbers that MAX_UPLOAD_BYTES and the file may hold
    DefaultString, \* the built-in default of a string option
    DefaultMaxUpload

ASSUME ConfigAssumption ==
    /\ Unset \notin Values \union {Empty, Unreadable}
    /\ Unset \notin BOOLEAN /\ Empty \notin BOOLEAN
    /\ Unset \notin Limits /\ Empty \notin Limits
    /\ Empty \notin Values
    /\ DefaultString \in Values
    /\ Limits \subseteq Int
    /\ DefaultMaxUpload \in Int

Strings == {"addr", "bucket"}
Flags == {"addr"}

\* What the sources say.  Quotes around a value of the environment are stripped before
\* anything else; a string that is no boolean or no number is Empty here.
Environments ==
    [strings: [Strings -> Values \union {Unset, Empty}],
     ssl: BOOLEAN \union {Unset, Empty},
     maxUpload: Limits \union {Unset, Empty}]

Files ==
    [strings: [Strings -> Values \union {Empty}],
     ssl: BOOLEAN \union {Unset},
     maxUpload: Limits]

CommandLines == [strings: [Flags -> Values \union {Unset, Empty}]]

VARIABLES
    options,       \* opts of run()
    env, file, flags,
    at             \* how far run() has come

configVars == <<options, env, file, flags, at>>

-----------------------------------------------------------------------------
\* envString: a variable that is set wins, empty or not.
EnvString(value, fallback) == IF value = Unset THEN fallback ELSE value

\* envBool and envInt64: what cannot be read counts as unset.
EnvParsed(value, fallback) == IF value \in {Unset, Empty} THEN fallback ELSE value

ApplyAppEnv(opts) ==
    [strings |-> [o \in Strings |-> EnvString(env.strings[o], opts.strings[o])],
     ssl |-> EnvParsed(env.ssl, opts.ssl),
     maxUpload |-> EnvParsed(env.maxUpload, opts.maxUpload)]

\* An empty string, a null boolean and a number below 1 leave the option alone.
ApplyAppJSON(opts) ==
    [strings |-> [o \in Strings |-> IF file.strings[o] = Empty THEN opts.strings[o]
                                                               ELSE file.strings[o]],
     ssl |-> IF file.ssl = Unset THEN opts.ssl ELSE file.ssl,
     maxUpload |-> IF file.maxUpload > 0 THEN file.maxUpload ELSE opts.maxUpload]

\* A flag that was visited wins, empty or not; the defaults of the others are the
\* options so far.
ApplyFlags(opts) ==
    [opts EXCEPT !.strings = [o \in Strings |->
        IF o \in Flags /\ flags.strings[o] # Unset THEN flags.strings[o] ELSE @[o]]]

BuiltIn ==
    [strings |-> [o \in Strings |-> DefaultString], ssl |-> FALSE, maxUpload |-> DefaultMaxUpload]

-----------------------------------------------------------------------------
\* The sources are fixed before the process starts.
ConfigInit ==
    /\ options = BuiltIn
    /\ env = [strings |-> [o \in Strings |-> Unset], ssl |-> Unset, maxUpload |-> Unset]
    /\ file = Unset
    /\ flags = [strings |-> [o \in Flags |-> Unset]]
    /\ at = "launch"

\* ConfigPath names a file or none; without one nothing is read.
Launch ==
    /\ at = "launch"
    /\ env' \in Environments
    /\ file' \in Files \union {Unset, Unreadable}
    /\ flags' \in CommandLines
    /\ at' = "defaults"
    /\ UNCHANGED options

DefaultAppOptions ==
    /\ at = "defaults"
    /\ options' = ApplyAppEnv(BuiltIn)
    /\ at' = "file"
    /\ UNCHANGED <<env, file, flags>>

\* An error of ReadAppJSON makes run() panic.
ReadFile ==
    /\ at = "file"
    /\ \/ file = Unset /\ at' = "flags" /\ UNCHANGED options
       \/ file = Unreadable /\ at' = "panicked" /\ UNCHANGED options
       \/ /\ file \notin {Unset, Unreadable}
          /\ options' = ApplyAppJSON(options)
          /\ at' = "flags"
    /\ UNCHANGED <<env, file, flags>>

\* Mutation of ParseFlags: the environment is not applied again.
ParseFlagsOnly ==
    /\ at = "flags"
    /\ options' = ApplyFlags(options)
    /\ at' = "done"
    /\ UNCHANGED <<env, file, flags>>

ParseFlags ==
    /\ at = "flags"
    /\ options' = ApplyAppEnv(ApplyFlags(options))
    /\ at' = "done"
    /\ UNCHANGED <<env, file, flags>>

ConfigNext == Launch \/ DefaultAppOptions \/ ReadFile \/ ParseFlags

ConfigSpec == ConfigInit /\ [][ConfigNext]_configVars

-----------------------------------------------------------------------------
(***************************************************************************)
(* Properties.                                                             *)
(***************************************************************************)

\* The value, where a source gives one.
Or(value, otherwise) == IF value = Unset THEN otherwise ELSE value

Told(value) == IF value = Empty THEN Unset ELSE value

\* One order of precedence for every option, whatever the sources say and however often
\* the environment is applied: environment, flag, file, default.  An empty variable or
\* flag is an answer for a string and none for the others.
Precedence ==
    at = "done" =>
        /\ \A o \in Strings :
             options.strings[o] =
                Or(env.strings[o],
                   Or(IF o \in Flags THEN flags.strings[o] ELSE Unset,
                      Or(IF file = Unset THEN Unset ELSE Told(file.strings[o]), DefaultString)))
        /\ options.ssl =
             Or(Told(env.ssl), Or(IF file = Unset THEN Unset ELSE file.ssl, FALSE))
        /\ options.maxUpload =
             Or(Told(env.maxUpload),
                Or(IF file # Unset /\ file.maxUpload > 0 THEN file.maxUpload ELSE Unset,
                   DefaultMaxUpload))
=============================================================================
