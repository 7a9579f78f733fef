--------------------------- MODULE MCUsageMetering --------------------------
(* UsageMetering over three providers.  Anthropic's model has a dearer     *)
(* 1-hour tier and a dated release of its own price; OpenAI's write tier   *)
(* is its dearest; the rates do not divide, so truncation shows, and one   *)
(* token of Tinfoil's output is worth less than the unit of account.       *)
EXTENDS UsageMetering

Card(i, o, r, w, h) ==
  [input |-> i, output |-> o, cache_read |-> r, cache_write |-> w, cache_write_1h |-> h]

MCRates ==
  [id \in {<<"claude", "">>, <<"claude", "dated">>, <<"gpt", "">>, <<"oss", "">>} |->
     CASE id = <<"claude", "">> -> [provider |-> "anthropic", rate |-> Card(7, 15, 2, 9, 14)]
       [] id = <<"claude", "dated">> -> [provider |-> "anthropic", rate |-> Card(8, 16, 2, 10, 16)]
       [] id = <<"gpt", "">> -> [provider |-> "openai", rate |-> Card(8, 14, 3, 11, 11)]
       [] OTHER -> [provider |-> "tinfoil", rate |-> Card(2, 3, 2, 0, 0)]]

Id(ns, base, suffix) == [ns |-> ns, base |-> base, suffix |-> suffix]
MCIds == {Id("", "claude", ""), Id("", "claude", "dated"), Id("", "gpt", "dated"),
          Id("", "gpt", "pro"), Id("openai", "gpt", ""), Id("tinfoil", "oss", ""),
          Id("openai", "oss", "")}

\* Tools and an unlisted field carry most of their prompt's tokens.
Prompt(b, i, r, w, h, extra, fields) ==
  [bytes |-> b, input |-> i, read |-> r, write |-> w, write1h |-> h, extra |-> extra,
   fields |-> {"conversation"} \cup fields]
MCPrompts ==
  {Prompt(3, 3, 0, 0, 0, 0, {}), Prompt(6, 1, 2, 1, 0, 0, {"context_management"}),
   Prompt(4, 0, 0, 4, 0, 0, {"sampling"}), Prompt(5, 0, 1, 3, 3, 0, {"sampling"}),
   Prompt(6, 5, 0, 0, 0, 4, {"novel"}), Prompt(6, 5, 0, 0, 0, 4, {"tools", "control"})}
MCBetas == {{}, {"context-1m"}, {"context-management", "context-1m"}}
MCCaps == {Absent, 0, 1, 2}
MCDrifts == {-2, 0, 36}
=============================================================================
