----------------------------- MODULE Languages -----------------------------
(***************************************************************************)
(* web: lib/languages.ts.  The catalogue, the grammars behind it, and the  *)
(* detector: an ordered list of rules of which the first that matches      *)
(* wins.  A regular expression is a mark that a text carries or does not;  *)
(* the rules that count lines or marks are written out.                    *)
(***************************************************************************)
EXTENDS TextUnits, FiniteSetsExt

CONSTANTS
    SampleUnits,      \* how much of a text the detector looks at (4000)
    MinSample         \* below this it does not guess (12)

PLAIN == "text"

\* The keys of loaders.
Loaders == {
    "apache", "asm", "astro", "awk", "bash", "c", "clojure", "cmake", "cpp", "crystal",
    "csharp", "css", "csv", "d", "dart", "diff", "docker", "dotenv", "elixir", "elm",
    "erlang", "fsharp", "gleam", "go", "graphql", "groovy", "haskell", "hcl", "html",
    "http", "ini", "java", "javascript", "json", "json5", "jsonc", "jsx", "julia",
    "kotlin", "latex", "less", "lisp", "log", "lua", "make", "markdown", "nginx", "nim",
    "objective-c", "ocaml", "pascal", "perl", "php", "powershell", "prisma",
    "properties", "proto", "python", "r", "racket", "regex", "ruby", "rust", "scala",
    "scheme", "scss", "shellsession", "solidity", "sql", "svelte", "swift", "tcl",
    "terraform", "toml", "tsx", "typescript", "v", "verilog", "vim", "vue", "wasm",
    "xml", "yaml", "zig" }

\* The ids of LANGUAGES: plain text, and what has a grammar.
Offered == {PLAIN} \cup {
    "log", "diff", "apache", "asm", "astro", "awk", "bash", "c", "clojure", "cmake",
    "cpp", "crystal", "csharp", "css", "csv", "d", "dart", "docker", "dotenv", "elixir",
    "elm", "erlang", "fsharp", "gleam", "go", "graphql", "groovy", "haskell", "hcl",
    "html", "http", "ini", "java", "javascript", "json", "json5", "jsonc", "jsx",
    "julia", "kotlin", "latex", "less", "lisp", "lua", "make", "markdown", "nginx",
    "nim", "objective-c", "ocaml", "pascal", "perl", "php", "powershell", "prisma",
    "properties", "proto", "python", "r", "racket", "regex", "ruby", "rust", "scala",
    "scheme", "scss", "shellsession", "solidity", "sql", "svelte", "swift", "tcl",
    "terraform", "toml", "tsx", "typescript", "v", "verilog", "vim", "vue", "wasm",
    "xml", "yaml", "zig" }

-----------------------------------------------------------------------------
\* A line, by what the counting rules look for.  contentLines drops blank lines and
\* those that start with "#".
Line(stamped, pair, braced, commas) ==
    [content |-> TRUE, stamped |-> stamped, pair |-> pair, braced |-> braced, commas |-> commas]

Skipped == [Line(FALSE, FALSE, FALSE, 0) EXCEPT !.content = FALSE]

contentLines(lines) == SelectSeq(lines, LAMBDA l : l.content)

\* More than tenths/10 of the content lines, of which there are at least two.
Most(lines, tenths, hits(_)) ==
    LET rows == contentLines(lines)
    IN  Len(rows) >= 2 /\ 10 * Len(SelectSeq(rows, hits)) > tenths * Len(rows)

isYaml(lines) ==
    /\ \A i \in DOMAIN lines : ~lines[i].braced
    /\ Most(lines, 7, LAMBDA l : l.pair)

isLog(lines) == Most(lines, 6, LAMBDA l : l.stamped)

isCsv(lines) ==
    LET rows == contentLines(lines)
        head == SubSeq(rows, 1, IF Len(rows) < 20 THEN Len(rows) ELSE 20)
    IN  /\ Len(rows) >= 2 /\ head[1].commas > 0
        /\ \A i \in DOMAIN head : head[i].commas = head[1].commas

\* A strong mark of Dart settles it, of the weak ones two have to agree.
DART_STRONG == {
    "import 'dart:", "@override", "StatelessWidget", "WidgetRef", "extends State<",
    "required this.", "super.key", "late final", "Widget build(", ") async {", "int get x" }
DART_WEAK == {
    "void main()", "<T>[", "for (final x in", ".toList()", "final x =", "print('" }

isDart(marks) == marks \cap DART_STRONG # {} \/ Cardinality(marks \cap DART_WEAK) >= 2

\* A text has units, marks and lines; those of its sample.  JSON is a mark: JSON.parse accepts the sample.
MarksOf(text) ==
    text.marks
      \cup (IF isLog(text.lines) THEN {"isLog"} ELSE {})
      \cup (IF isYaml(text.lines) THEN {"isYaml"} ELSE {})
      \cup (IF isCsv(text.lines) THEN {"isCsv"} ELSE {})
      \cup (IF isDart(text.marks) THEN {"isDart"} ELSE {})

-----------------------------------------------------------------------------
\* A rule asks for a mark out of each set of all and for no mark of none.
Rule(id, all, none) == [id |-> id, all |-> all, none |-> none]
When(id, mark) == Rule(id, {{mark}}, {})
Either(id, one, other) == Rule(id, {{one, other}}, {})
Both(id, one, other) == Rule(id, {{one}, {other}}, {})

rules == <<
    When("bash", "#!sh"), When("python", "#!python"), When("perl", "#!perl"),
    When("php", "<?php"), When("xml", "<?xml"), When("html", "<!doctype html"),
    When("diff", "diff --git"), When("json", "JSON.parse"), When("log", "isLog"),
    Both("docker", "FROM", "RUN"), When("http", "HTTP/1.1"), When("dart", "isDart"),
    Both("go", "package", "func"), Both("rust", "fn x(", "let mut"), When("zig", "@import("),
    Either("elixir", "defmodule", "def x do"), When("erlang", "-module("),
    Either("haskell", "module X where", "x :: a ->"), When("scala", "case class"),
    Either("solidity", "pragma solidity", "contract X {"),
    Both("swift", "func x(", "import SwiftUI"), Both("kotlin", "fun x(", "val x"),
    Either("csharp", "using System", "namespace X {"), When("java", "public class"),
    Either("objective-c", "#import", "[[X alloc] init"),
    Both("cpp", "#include <x>", "std::"), When("c", "#include"),
    Either("python", "def x:", "import x"), Both("ruby", "def x", "end"),
    Both("lua", "local x =", "function"), When("perl", "use strict;"),
    Either("r", "<- function(", "library(x)"), Both("julia", "using X", "function end"),
    When("sql", "select"), When("prisma", "model X {"),
    Either("proto", "syntax = proto3", "message X {"), Either("graphql", "query x {", "type X {"),
    When("terraform", "resource x"), Both("nginx", "server {", "listen"),
    When("apache", "<VirtualHost"), When("make", "target:"), When("cmake", "project("),
    When("powershell", "Write-Host"), When("vue", "<template>"),
    Both("svelte", "<script>", "{#if"), Rule("html", {{"</div>"}}, {"SCRIPT"}),
    Both("tsx", "TS", "JSX"), Both("jsx", "JSX", "SCRIPT"), When("typescript", "TS"),
    When("javascript", "=>"), Both("scss", "$x", "{ x: y; }"), Both("css", "x { y: z; }", "color:"),
    When("latex", "documentclass"), Either("markdown", "# x", "code fence"),
    Both("toml", "[x.y]", "x = "), Both("ini", "[x]", "x ="), Rule("dotenv", {{"X="}}, {"{};"}),
    When("yaml", "isYaml"), When("log", "isLog"), When("csv", "isCsv") >>

Matches(rule, marks) ==
    /\ \A group \in rule.all : group \cap marks # {}
    /\ rule.none \cap marks = {}

Sample(units) ==
    Trim(SubSeq(units, 1, IF Len(units) < SampleUnits THEN Len(units) ELSE SampleUnits))

detectLanguage(text) ==
    LET marks == MarksOf(text)
        hits == {i \in DOMAIN rules : Matches(rules[i], marks)}
    IN  IF Len(Sample(text.units)) < MinSample \/ hits = {} THEN PLAIN ELSE rules[Min(hits)].id

-----------------------------------------------------------------------------
(***************************************************************************)
(* What the comments of the source say of these tables, for every text the *)
(* marks can describe; constants, so TLC evaluates them before it starts.  *)
(***************************************************************************)
\* Every language but plain text has a grammar, and the detector names none that the
\* picker does not offer.
ASSUME CatalogueAssumption ==
    /\ Offered \ {PLAIN} = Loaders
    /\ \A i \in DOMAIN rules : rules[i].id \in Offered

AllMarks == UNION {UNION rules[i].all : i \in DOMAIN rules}

\* A stamped line settles a log before any keyword rule can trip over a word in a
\* message, and C# is told from Java, Dart from its relatives, by their order: no two
\* marks beside theirs change the answer but those of the rules listed before them.
Settled(id, mark, before) ==
    \A others \in {{}} \cup {{m, n} : m, n \in AllMarks \ before} :
        LET marks == {mark} \cup others
            hits == {i \in DOMAIN rules : Matches(rules[i], marks)}
        IN  rules[Min(hits)].id = id

Earlier(id) ==
    UNION {UNION rules[i].all : i \in
              1 .. (Min({j \in DOMAIN rules : rules[j].id = id}) - 1)}

ASSUME OrderAssumption ==
    /\ Settled("log", "isLog", Earlier("log"))
    /\ Settled("dart", "isDart", Earlier("dart"))
    /\ Settled("csharp", "using System", Earlier("csharp"))
=============================================================================
