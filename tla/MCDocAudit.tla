----------------------------- MODULE MCDocAudit -----------------------------
EXTENDS DocAudit
Readme == <<"README.md">>
Guide == <<"docs", "README.md">>
Spec_md == <<"docs", "features", "SPEC.md">>
Old == <<"docs", "old.md">>
MCFiles == {Readme, Guide, Spec_md, Old, <<"CHANGELOG.md">>}
Num(n) == [is |-> "num", value |-> n]
Key(f) == [is |-> "key", fact |-> f]
Is(k) == [is |-> k]
TestKey == Key("test_count")
ToolKey == Key("mcp_tool_count")
TwoClaims == <<ToolKey, Num(23), TestKey, Is("word"), Num(14), Is("masked"), ToolKey>>
MCTexts ==
  {<<>>,
   <<TwoClaims>>,
   <<<<Num(21), TestKey>>, <<Num(15), ToolKey>>, <<Num(14), ToolKey>>>>,
   <<<<Is("modifier"), Num(20), TestKey>>, Fence, <<Num(14), ToolKey>>>>,
   <<Fence, <<Num(20), TestKey>>, Fence, <<[is |-> "lead", fact |-> "mcp_tool_count"], ToolKey, Num(15)>>>>,
   <<<<[is |-> "version", value |-> 123], Is("word"), Is("word"), Num(9), ToolKey>>,
     <<Num(22), [is |-> "quoted", value |-> 130], Is("word"), Is("word"), Is("word"), Is("word"), TestKey>>>>}
MCAbove == {"home"}
Static(v) == [dynamic |-> FALSE, version |-> v]
Dynamic(hatch, installed) == [dynamic |-> TRUE, hatch |-> hatch, installed |-> installed]
Suite(n) == [framework |-> TRUE, test_count |-> n]
SmallGraph == [nodes |-> <<Unset, Suite(20)>>, edges |-> 1, extensions |-> {".py", ".h", ".txt"}, rules |-> 4]
LargeGraph == [nodes |-> <<Suite(9), Suite(14)>>, edges |-> 3, extensions |-> {".c", ".h"}, rules |-> 4]
Groups == {<<"docs">>, <<"docs", "audit">>, <<"lint">>}
MCProjects ==
  {[manifests |-> <<Static(Unset), Static(123), Unset>>, graph |-> SmallGraph,
    release |-> [tools |-> 14, commands |-> Groups]],
   [manifests |-> <<Dynamic(Unset, Unset), Unset, Static(130)>>, graph |-> SmallGraph,
    release |-> [tools |-> 15, commands |-> Groups]],
   [manifests |-> <<Dynamic(130, 123), Static(123), Unset>>, graph |-> LargeGraph,
    release |-> [tools |-> 15, commands |-> Groups]],
   [manifests |-> <<Dynamic(Unset, 123), Static(130), Unset>>, graph |-> LargeGraph,
    release |-> [tools |-> 14, commands |-> Groups]]}
Nothing == [extra_facts |-> <<>>, tolerances |-> <<>>, ignore |-> {}, exclude_paths |-> {}]
Rule15 == [path |-> "README.md", fact |-> "mcp_tool_count", value |-> 15]
MCConfigs ==
  {Nothing,
   [extra_facts |-> [test_count |-> [value |-> Unusable], mcp_tool_count |-> Unusable],
    tolerances |-> [mcp_tool_count |-> 5, test_count |-> Unusable],
    ignore |-> {Rule15}, exclude_paths |-> {Unusable, {Old}}],
   [extra_facts |-> [test_count |-> [value |-> 20]], tolerances |-> [test_count |-> 0],
    ignore |-> {Unusable, [Rule15 EXCEPT !.value = Unset], [Rule15 EXCEPT !.path = Unset]},
    exclude_paths |-> {}]}
MCSuffix == {<<"README.md", Readme>>, <<"README.md", Guide>>}
MCLanguageOf == (".py" :> "Python") @@ (".c" :> "C") @@ (".h" :> "C")
=============================================================================
