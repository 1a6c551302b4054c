----------------------------- MODULE MCIniText -----------------------------
(* A small php.ini for TLC.                                                 *)
EXTENDS IniText

Apcu == [name |-> "apcu", ext |-> "apcu", prio |-> 80, bundled |-> FALSE]
Redis == [name |-> "redis", ext |-> "redis", prio |-> 80, bundled |-> FALSE]
MCExt == {"apcu", "redis"}
MCPkg == {Apcu, Redis}

\* A setting, a comment, and an extension the user enables without gpie, which
\* is the line the first block comes after.
MCUserText == <<Line("setting", "memory_limit"), Line("comment", "xdebug"),
                Line("directive", "xdebug")>>

\* Without the comment, for the runs in which installs overlap.
MCShortText == <<Line("setting", "memory_limit"), Line("directive", "xdebug")>>

\* What a command may be told that keeps the user's lines: several jobs, or
\* prebuilts, but not both (IniTextProofs!OneReadEach), and what loses them.
MCNotBoth == {[jobs |-> 2, prebuilts |-> FALSE], [jobs |-> 1, prebuilts |-> TRUE]}
MCBoth == {[jobs |-> 2, prebuilts |-> TRUE]}

ASSUME UserIsPlain == UserTextIsPlain
=============================================================================
