----------------------------- MODULE ConfigFile -----------------------------
(* redis.conf (config.c): the options a server reads from it when it starts,  *)
(* CONFIG SET, and CONFIG REWRITE, which writes the options back into the     *)
(* file and keeps its comments and the lines it does not understand.          *)
(* Options that are read, set and written alike are modelled by one of them:  *)
(*   hz                a number           activerehashing  a word of a list   *)
(*   maxmemory         bytes              dbfilename       text with a default*)
(*   requirepass       text or none       dir              text, always saved *)
(*   save              any number of lines, also none                         *)
(*   client-output-buffer-limit (limit)   a line for each class of clients    *)
(* and by themselves bind, slaveof, rename-command, repl-backlog-ttl (ttl) and*)
(* include.  A directive the server does not know ends its start.             *)
(* The server has one thread: only a crash comes between the write and the    *)
(* truncation of the file.                                                    *)
EXTENDS Naturals, Sequences, FiniteSetsExt, SequencesExt

CONSTANTS
  Kilo, Thousand,  \* what a "kb" and a "k" stand for
  MinHz, MaxHz,
  Classes,         \* classes of clients, in the order of the code
  NoValue,         \* a string option that is not set
  Files,           \* a sequence of the files the server may be started with
  Included,        \* the lines of the file that an include line names; it loads
  Inputs,          \* [options that can be set -> arguments given to CONFIG SET]
  EditLines,       \* a sequence of the lines an operator may add to the file
  MaxChanges, MaxCrashes  \* bounds: options set and lines added, crashes

VARIABLES
  config,    \* the options in memory
  conf,      \* the lines of the file
  padded,    \* the file is written and not yet truncated
  saved,     \* history: <<the options of the last rewrite>>, or <<>> after an edit
  changes, crashes

configVars == <<config, conf, padded, saved, changes, crashes>>

Line(option, arg) == [opt |-> option, arg |-> arg]
Comment(text) == Line("#", text)
Blank == Line("", "")
Signature == Comment("Generated by CONFIG REWRITE")
Padding == <<Blank, Comment("padding")>>

Clamp(n) == IF n < MinHz THEN MinHz ELSE IF n > MaxHz THEN MaxHz ELSE n

\* An amount of memory as it is written: digits and a unit.
Amount(n, unit) == [n |-> n, unit |-> unit]
memtoll(a) ==
  a.n * CASE a.unit = "" -> 1 [] a.unit = "k" -> Thousand [] a.unit = "kb" -> Kilo
          [] a.unit = "mb" -> Kilo * Kilo [] a.unit = "gb" -> Kilo * Kilo * Kilo
rewriteConfigFormatMemory(bytes) ==
  LET Divides(d) == bytes # 0 /\ bytes % d = 0
  IN CASE Divides(Kilo * Kilo * Kilo) -> Amount(bytes \div (Kilo * Kilo * Kilo), "gb")
       [] Divides(Kilo * Kilo) /\ ~Divides(Kilo * Kilo * Kilo) ->
            Amount(bytes \div (Kilo * Kilo), "mb")
       [] Divides(Kilo) /\ ~Divides(Kilo * Kilo) -> Amount(bytes \div Kilo, "kb")
       [] OTHER -> Amount(bytes, "")

-----------------------------------------------------------------------------
(* Reading the file                                                          *)

\* initServerConfig, and no save points once a file is given (main).
Defaults ==
  [hz |-> 2, maxmemory |-> 0, activerehashing |-> "yes", dbfilename |-> "dump.rdb",
   requirepass |-> NoValue, dir |-> "/", save |-> <<>>, slaveof |-> NoValue, bind |-> <<>>,
   limit |-> [c \in Range(Classes) |-> 0], ttl |-> 1, renamed |-> {}]

yesnotoi(word) == word \in {"yes", "no"}
pathIsBaseName(path) == path # "a/path"
Options == DOMAIN Defaults \cup {"rename-command"}
Directives == Options \cup {"#", "", "include"}

\* Lines at which loadServerConfigFromString gives up: unbalanced quotes, a wrong
\* value, or a bad directive.
LoadError(l) ==
  \/ l.opt = "unbalanced"
  \/ l.opt = "activerehashing" /\ ~yesnotoi(l.arg)
  \/ l.opt = "dbfilename" /\ ~pathIsBaseName(l.arg)
  \/ l.opt \notin Directives

LoadDirective(c, l) ==
  CASE l.opt = "hz" -> [c EXCEPT !.hz = Clamp(l.arg)]
    [] l.opt = "maxmemory" -> [c EXCEPT !.maxmemory = memtoll(l.arg)]
    [] l.opt = "save" -> [c EXCEPT !.save = IF l.arg = <<>> THEN <<>> ELSE Append(@, l.arg)]
    [] l.opt = "limit" -> [c EXCEPT !.limit[l.arg.class] = memtoll(l.arg.hard)]
    [] l.opt = "ttl" -> [c EXCEPT !.ttl = l.arg.n]      \* atoi
    [] l.opt = "rename-command" -> [c EXCEPT !.renamed = @ \cup {l.arg}]
    [] l.opt \in {"activerehashing", "dbfilename", "requirepass", "dir", "slaveof", "bind"} ->
         [c EXCEPT ![l.opt] = l.arg]
    [] OTHER -> c
\* An included file is read at the place of its line.
LoadLine(c, l) == IF l.opt = "include" THEN FoldLeft(LoadDirective, c, Included) ELSE LoadDirective(c, l)

Loads(lines) == \A i \in DOMAIN lines : ~LoadError(lines[i])
loadServerConfigFromString(lines) == FoldLeft(LoadLine, Defaults, lines)

ConfigInit ==
  /\ \E i \in DOMAIN Files : conf = Files[i]
  /\ config = loadServerConfigFromString(conf)
  /\ padded = FALSE
  /\ saved = <<>>
  /\ changes = 0 /\ crashes = 0

-----------------------------------------------------------------------------
(* CONFIG SET and SLAVEOF                                                    *)

\* The limits are checked as amounts, and only their digits are taken.
Accepts(o, v) ==
  /\ o = "activerehashing" => yesnotoi(v)
  /\ o = "dbfilename" => pathIsBaseName(v)

With(c, o, v) ==
  CASE o = "hz" -> [c EXCEPT !.hz = Clamp(v)]
    [] o = "maxmemory" -> [c EXCEPT !.maxmemory = memtoll(v)]
    [] o = "requirepass" -> [c EXCEPT !.requirepass = IF v = "" THEN NoValue ELSE v]
    [] o = "limit" -> [c EXCEPT !.limit[v.class] = v.hard.n]
    [] o \in {"activerehashing", "dbfilename", "dir", "save", "ttl", "slaveof"} -> [c EXCEPT ![o] = v]

configSetCommand(o, v) ==
  /\ ~padded /\ changes < MaxChanges
  /\ Accepts(o, v)
  /\ config' = With(config, o, v)
  /\ changes' = changes + 1
  /\ UNCHANGED <<conf, padded, saved, crashes>>

-----------------------------------------------------------------------------
(* CONFIG REWRITE                                                            *)

rewriteConfigReadOldFile(lines) ==
  [lines |-> [i \in DOMAIN lines |-> IF lines[i].opt = "unbalanced" THEN Comment("???") ELSE lines[i]],
   option_to_line |-> [o \in Options |-> {i \in DOMAIN lines : lines[i].opt = o}],
   rewritten |-> {},
   has_tail |-> \E i \in DOMAIN lines : lines[i].opt = "#" /\ lines[i].arg = Signature.arg]

rewriteConfigMarkAsProcessed(state, option) == [state EXCEPT !.rewritten = @ \cup {option}]

\* Mutant: the line is only written where the option was.
KeepLine(state, option, arg, force) ==
  LET old == state.option_to_line[option]
      s == rewriteConfigMarkAsProcessed(state, option)
  IN IF old = {} THEN s
     ELSE [s EXCEPT !.lines[Min(old)] = Line(option, arg), !.option_to_line[option] = @ \ {Min(old)}]

\* The first old line of the option is used again; else a line is appended, if it
\* has to be there.
rewriteConfigRewriteLine(state, option, arg, force) ==
  LET old == state.option_to_line[option]
      s == rewriteConfigMarkAsProcessed(state, option)
  IN CASE old # {} -> [s EXCEPT !.lines[Min(old)] = Line(option, arg),
                                !.option_to_line[option] = @ \ {Min(old)}]
       [] old = {} /\ force ->
            [s EXCEPT !.lines = @ \o (IF s.has_tail THEN <<>> ELSE <<Signature>>)
                                  \o <<Line(option, arg)>>,
                      !.has_tail = TRUE]
       [] OTHER -> s

rewriteConfigNumericalOption(state, option, value) ==
  rewriteConfigRewriteLine(state, option, value, value # Defaults[option])
rewriteConfigBytesOption(state, option, value) ==
  rewriteConfigRewriteLine(state, option, rewriteConfigFormatMemory(value), value # Defaults[option])
rewriteConfigEnumOption(state, option, value) ==
  rewriteConfigRewriteLine(state, option, value, value # Defaults[option])
rewriteConfigStringOption(state, option, value, default) ==
  IF value = NoValue THEN rewriteConfigMarkAsProcessed(state, option)
  ELSE rewriteConfigRewriteLine(state, option, value, value # default)
rewriteConfigSaveOption(state) ==
  rewriteConfigMarkAsProcessed(
    FoldLeft(LAMBDA s, point : rewriteConfigRewriteLine(s, "save", point, TRUE), state, config.save),
    "save")
rewriteConfigSlaveofOption(state) ==
  IF config.slaveof = NoValue THEN rewriteConfigMarkAsProcessed(state, "slaveof")
  ELSE rewriteConfigRewriteLine(state, "slaveof", config.slaveof, TRUE)
rewriteConfigClientoutputbufferlimitOption(state) ==
  FoldLeft(LAMBDA s, c : rewriteConfigRewriteLine(s, "limit",
             [class |-> c, hard |-> rewriteConfigFormatMemory(config.limit[c])],
             config.limit[c] # Defaults.limit[c]), state, Classes)
rewriteConfigBindOption(state) ==
  IF config.bind = <<>> THEN rewriteConfigMarkAsProcessed(state, "bind")
  ELSE rewriteConfigRewriteLine(state, "bind", config.bind, TRUE)

\* Lines of the options that were processed, and not used again, are blanked.
rewriteConfigRemoveOrphaned(state) ==
  LET orphans == UNION {state.option_to_line[o] : o \in state.rewritten}
  IN [state EXCEPT !.lines = [i \in DOMAIN @ |-> IF i \in orphans THEN Blank ELSE @[i]]]

\* Blank lines in a row become one.
rewriteConfigGetContentFromState(state) ==
  FoldLeft(LAMBDA kept, l : IF l.opt = "" /\ kept # <<>> /\ Last(kept).opt = "" THEN kept
                            ELSE Append(kept, l), <<>>, state.lines)

RewrittenOptions(state) ==
  FoldLeft(LAMBDA s, o :
      CASE o = "bind" -> rewriteConfigBindOption(s)
        [] o = "save" -> rewriteConfigSaveOption(s)
        [] o = "slaveof" -> rewriteConfigSlaveofOption(s)
        [] o = "limit" -> rewriteConfigClientoutputbufferlimitOption(s)
        [] o = "hz" -> rewriteConfigNumericalOption(s, o, config.hz)
        [] o \in {"ttl", "maxmemory"} -> rewriteConfigBytesOption(s, o, config[o])
        [] o = "activerehashing" -> rewriteConfigEnumOption(s, o, config[o])
        [] o = "dbfilename" -> rewriteConfigStringOption(s, o, config[o], Defaults[o])
        [] o \in {"dir", "requirepass"} -> rewriteConfigStringOption(s, o, config[o], NoValue),
    state,
    <<"bind", "save", "dbfilename", "dir", "slaveof", "ttl", "requirepass", "maxmemory",
      "activerehashing", "limit", "hz">>)

\* rewriteConfig, with the write of rewriteConfigOverwriteFile: a file that gets
\* shorter is filled up, so that one write replaces all of it.
rewriteConfig(shorter) ==
  /\ ~padded
  /\ \E old \in {rewriteConfigReadOldFile(conf)} : \E new \in {RewrittenOptions(old)} :
       conf' = rewriteConfigGetContentFromState(rewriteConfigRemoveOrphaned(new))
               \o (IF shorter THEN Padding ELSE <<>>)
  /\ padded' = shorter
  /\ saved' = <<config>>
  /\ UNCHANGED <<config, changes, crashes>>

\* The ftruncate of rewriteConfigOverwriteFile.
Truncate ==
  /\ padded
  /\ conf' = SubSeq(conf, 1, Len(conf) - Len(Padding))
  /\ padded' = FALSE
  /\ UNCHANGED <<config, saved, changes, crashes>>

\* The server is killed, at any point, and started again.
Restart ==
  /\ crashes < MaxCrashes
  /\ Loads(conf)
  /\ config' = loadServerConfigFromString(conf)
  /\ padded' = FALSE
  /\ crashes' = crashes + 1
  /\ UNCHANGED <<conf, saved, changes>>

\* An operator adds a line before the others, or after them.
Edit(l) ==
  /\ ~padded /\ changes < MaxChanges
  /\ conf' = <<l>> \o conf \/ conf' = Append(conf, l)
  /\ saved' = <<>>
  /\ changes' = changes + 1
  /\ UNCHANGED <<config, padded, crashes>>

ConfigNext ==
  \/ \E o \in DOMAIN Inputs : \E v \in Inputs[o] : configSetCommand(o, v)
  \/ \E shorter \in BOOLEAN : rewriteConfig(shorter)
  \/ Truncate \/ Restart
  \/ \E i \in DOMAIN EditLines : Edit(EditLines[i])

-----------------------------------------------------------------------------
\* A rewrite has no option for these lines and leaves them where they are
\* (rewriteConfigRemoveOrphaned): a directive nobody knows, and an include.
HasUnknown(lines) == \E i \in DOMAIN lines : lines[i].opt \notin Directives \cup {"unbalanced"}
HasInclude(lines) == \E i \in DOMAIN lines : lines[i].opt = "include"

\* A rewritten file can be started with, and a server that starts with it has the
\* options of the one that rewrote it, also when that one died before it truncated
\* the file, and whatever the file was before, was edited to and was rewritten to
\* (rewriteConfig, loadServerConfigFromString).  Three things are excepted: a file
\* with a directive the server does not know is not loaded, before and after a
\* rewrite; with an include the options of the included file may override or
\* repeat what the rewrite wrote; and repl-backlog-ttl is written with units and
\* read without.
ConfigReloads ==
  saved # <<>> /\ ~HasUnknown(conf) =>
    /\ Loads(conf)
    /\ HasInclude(conf) \/ [loadServerConfigFromString(conf) EXCEPT !.ttl = saved[1].ttl] = saved[1]
=============================================================================
