------------------------------- MODULE ChatModes -------------------------------
(***************************************************************************)
(* Which modes a chat command may be answered by, and in which order:      *)
(* chat-mode-detector.ts, resolveCommandChatMode() of commands/index.ts    *)
(* and resolveChatModeCandidates() of chat-executor.ts.                    *)
(***************************************************************************)
EXTENDS Naturals, Sequences, FiniteSets
LOCAL Ext == INSTANCE SequencesExt

Mode == {"claude", "codex", "api"}
None == "none"

\* What the modes depend on: what the machine has, the setting of config.json,
\* the default and the order of the server, its override for chats, and what the
\* command demands.
Setting == [available: SUBSET Mode, local: Mode \cup {None}, default: Mode \cup {None},
            order: UNION {[1 .. n -> Mode] : n \in 1 .. 2},
            override: Mode \cup {None}, payload: Mode \cup {None}]

\* The first mode of the three that is available.
FirstOf(available) ==
  IF "claude" \in available THEN "claude" ELSE IF "codex" \in available THEN "codex" ELSE "api"

Explicit(s) == s.local \in s.available \/ s.default \in s.available

ActiveMode(s) ==
  IF s.local \in s.available THEN s.local
  ELSE IF s.default \in s.available THEN s.default
  ELSE FirstOf(s.available)

\* A mode that the command or the server demands must be available, where that
\* is known. The detected one is no choice: the order decides then.
Demanded(s) == IF s.payload # None THEN s.payload ELSE s.override
Unsupported(s) == Demanded(s) # None /\ s.available # {} /\ Demanded(s) \notin s.available
Selected(s) ==
  IF Demanded(s) # None THEN Demanded(s)
  ELSE IF Explicit(s) THEN ActiveMode(s) ELSE None

Available(modes, available) ==
  SelectSeq(Ext!FoldLeft(LAMBDA seen, mode : IF mode \in Ext!Range(seen) THEN seen ELSE Append(seen, mode), <<>>, modes),
            LAMBDA mode : mode \in available)

\* The mode of the payload is the only one; any other is tried first, with the
\* others of the order behind it.
Candidates(s) ==
  LET first == IF Selected(s) = None THEN <<>> ELSE <<Selected(s)>>
      able == Available(first \o s.order, s.available)
  IN  IF s.payload # None THEN <<s.payload>>
      ELSE IF able # <<>> THEN able
      ELSE <<IF s.available = {} THEN "claude" ELSE FirstOf(s.available)>>
=============================================================================
