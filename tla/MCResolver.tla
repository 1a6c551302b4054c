----------------------------- MODULE MCResolver -----------------------------
(* A few machines, command lines and Packagist answers for TLC.             *)
EXTENDS Resolver

V(core) == Text(core)
Term(op, core) == [op |-> op, arg |-> V(core)]
Lone(op) == [op |-> op, arg |-> NoText]
Only(op, core) == <<<<Term(op, core)>>>>

-----------------------------------------------------------------------------
(* Constraints: every operator, at its boundaries.                          *)
MCConstraints == {
  <<>>, <<<<Lone("*")>>>>,
  Only(">=", <<2, 0>>), Only("<=", <<2, 0, 5>>), Only(">", <<1, 9, 3>>),
  Only("<", <<2>>), Only("^", <<1, 2>>), Only("^", <<0, 9>>),
  Only("^", <<0, 0, 3>>), Only("~", <<2, 0>>), Only("~", <<2, 0, 4>>),
  Only("~", <<1>>), Only(".*", <<2, 0>>), Only("", <<2, 0>>),
  Only("=", <<2, 1, 0>>), Only("==", <<1, 9, 3>>), Only("!=", <<2, 1>>),
  Only("", <<7>>),
  <<<<Term("", <<1, 2>>), Lone("-"), Term("", <<2, 0>>)>>>>,
  <<<<Term("", <<0, 0, 3>>), Lone("-"), Term("", <<1, 9, 3>>)>>>>,
  <<<<Lone(">="), Term("", <<1, 2>>), Lone("<"), Term("", <<2, 1>>)>>>>,
  <<<<Term("^", <<7>>)>>, <<Term("^", <<1, 2>>)>>>>,
  <<<<Term("^", <<7>>)>>, <<>>>>,
  <<<<Term(">=", <<2>>), Term("!=", <<2, 1, 0>>)>>>>}

-----------------------------------------------------------------------------
(* Listings.                                                                *)
Php(c) == [kind |-> "php", name |-> "php", constraint |-> c]
ExtReq(n, c) == [kind |-> "ext", name |-> n, constraint |-> c]
Library == [kind |-> "lib", name |-> "zip", constraint |-> <<>>]

NeedsPhp83 == Set({Php(Only("^", <<8, 3>>)), Library})
NeedsPhp82 == Set({Php(Only("~", <<8, 2, 0>>))})
NeedsIgbinary == Set({Php(Only(">=", <<8>>)),
                      ExtReq("igbinary", Only("^", <<3, 2>>))})
NeedsJson == Set({ExtReq("json", <<>>)})

Meta(unsupported, os, osExclude, methods) ==
  Set([unsupported |-> unsupported, os |-> os, osExclude |-> osExclude,
       validName |-> TRUE, methods |-> methods])
Plain == Meta({}, {}, {}, <<"pre-packaged-binary", "composer-default">>)
NoZts == Meta({"zts"}, {}, {"windows"}, <<"unknown">>)
NotHere == Meta({}, {"darwin"}, {"windows"}, <<>>)
OnLinux == Meta({"nts"}, {"linux", "darwin"}, {}, <<>>)
BadName == Set([DefaultMetadata EXCEPT !.validName = FALSE])

Entry(core, tag, glued, type, requires, phpExt) ==
  [version |-> [core |-> core, tag |-> tag], glued |-> glued, type |-> type,
   requires |-> requires, phpExt |-> phpExt]
Release(core, requires, phpExt) ==
  Entry(core, "", FALSE, Set("php-ext"), requires, phpExt)
SameAsBefore(core) == Entry(core, "", FALSE, Absent, Absent, Absent)

MCListings == {
  <<>>,
  <<Entry(<<3, 0, 0, 0>>, "RC", FALSE, Set("php-ext"), NeedsPhp83, Plain),
    SameAsBefore(<<2, 1, 0, 0>>),
    Entry(<<2, 0, 5, 0>>, "", FALSE, Absent, NeedsPhp82, Absent),
    SameAsBefore(<<1, 9, 3, 0>>), SameAsBefore(<<0, 9, 1, 0>>)>>,
  <<Release(<<2, 1, 3, 0>>, NeedsIgbinary, NoZts),
    Entry(<<2, 0, 4, 0>>, "", FALSE, Absent, Unset, Unset),
    Release(<<1, 2, 0, 0>>, NeedsJson, OnLinux),
    SameAsBefore(<<0, 0, 3, 0>>)>>,
  \* listed oldest first
  <<Release(<<0, 0, 4, 0>>, NeedsJson, Plain),
    Release(<<1, 9, 3, 0>>, NeedsPhp82, NotHere),
    Release(<<2, 0, 10, 0>>, NeedsPhp83, NoZts)>>,
  \* pre-releases only, the last one written without a dash
  <<Entry(<<2, 1, 0, 0>>, "beta", TRUE, Set("php-ext-zend"), NeedsJson, Plain),
    Entry(<<2, 1, 0, 0>>, "alpha", FALSE, Absent, Absent, Absent)>>,
  <<Entry(<<3, 0, 0, 0>>, "RC", TRUE, Set("php-ext"), NeedsJson, Plain),
    SameAsBefore(<<2, 0, 5, 0>>)>>,
  <<Release(<<1, 2, 10, 0>>, NeedsJson, BadName),
    Entry(<<1, 0, 0, 0>>, "", FALSE, Set("library"), Absent, Unset),
    Entry(<<0, 9, 0, 0>>, "", FALSE, Unset, Absent, Absent)>>}

MCLoadedLists == {
  [json |-> V(<<8, 3, 4>>)],
  [json |-> V(<<8, 3, 4>>), igbinary |-> V(<<3, 2, 15>>)],
  [json |-> V(<<8, 3, 4>>), igbinary |-> V(<<2, 0, 8>>)]}

-----------------------------------------------------------------------------
(* Machines.                                                                *)
Php83 == [version |-> <<8, 3, 4>>, zts |-> FALSE, api |-> 83]
Php83Zts == [Php83 EXCEPT !.zts = TRUE]
Php82 == [version |-> <<8, 2, 1>>, zts |-> FALSE, api |-> 82]
Found(p, version, system) == [path |-> p, version |-> version, system |-> system]
Phpize(api) == [run |-> "ok", api |-> api, binary |-> NoPath]
Config(p) == [run |-> "ok", api |-> 0, binary |-> p]
Hangs == [run |-> "hangs", api |-> 0, binary |-> NoPath]
Fns(configs, phpizes) ==
  [t \in Tools |-> IF t = "phpize" THEN phpizes ELSE configs]

Local == <<"local", "">>
Usr == <<"usr", "">>
Usr82 == <<"usr", "8.2">>
Usr83 == <<"usr", "8.3">>
Opt82 == <<"opt82", "">>
Cellar82 == <<"cellar82", "">>
Brew == <<"brew", "">>

\* An official PHP image, thread-safe.
DockerImage ==
  [bin |-> Local :> Php83Zts,
   tools |-> Fns(Local :> Config(Local), Local :> Phpize(83)),
   found |-> <<Found(Local, <<8, 3, 4>>, TRUE)>>,
   search |-> <<"local", "usr">>]

\* Debian with two PHPs; `php` is an alternative for the newer one.
Debian ==
  [bin |-> Usr :> Php83 @@ Usr82 :> Php82 @@ Usr83 :> Php83,
   tools |-> Fns(Usr :> Config(Usr83) @@ Usr82 :> Config(Usr82),
                 Usr :> Phpize(83) @@ Usr82 :> Phpize(82)),
   found |-> <<Found(Usr82, <<8, 2, 1>>, FALSE), Found(Usr83, <<8, 3, 4>>, TRUE)>>,
   search |-> <<"usr">>]

\* The same with versioned tools that wait for input, and plain ones of 8.2.
DebianHanging ==
  [Debian EXCEPT !.tools = Fns(Usr82 :> Hangs @@ Usr :> Config(Usr82),
                               Usr82 :> Hangs @@ Usr83 :> Hangs
                                 @@ Usr :> Phpize(82))]

\* The same with a newer PHP built into /usr/local, ahead on $PATH.
DebianLocal ==
  [DebianHanging EXCEPT
     !.bin = Local :> Php83 @@ @,
     !.tools["php-config"] = Local :> Config(Local) @@ @,
     !.found = <<Found(Usr82, <<8, 2, 1>>, FALSE), Found(Local, <<8, 3, 4>>, TRUE),
                 Found(Usr83, <<8, 3, 4>>, FALSE)>>,
     !.search = <<"local", "usr">>]

\* Homebrew: opt82/php is a link, and php-config prints where it leads.
Homebrew ==
  [bin |-> Opt82 :> Php82 @@ Cellar82 :> Php82 @@ Brew :> Php83,
   tools |-> Fns(Opt82 :> Config(Cellar82) @@ Cellar82 :> Config(Cellar82)
                   @@ Brew :> Config(Brew),
                 Opt82 :> Phpize(82) @@ Cellar82 :> Phpize(82)
                   @@ Brew :> Phpize(83)),
   found |-> <<Found(Cellar82, <<8, 2, 1>>, FALSE), Found(Brew, <<8, 3, 4>>, FALSE)>>,
   search |-> <<"brew", "usr">>]

\* The same in a shell whose $PATH lacks Homebrew.
HomebrewNotOnPath == [Homebrew EXCEPT !.search = <<"usr">>]

\* No PHP at all.
Bare == [bin |-> [p \in {} |-> Php83],
         tools |-> Fns([p \in {} |-> Missing], [p \in {} |-> Missing]),
         found |-> <<>>, search |-> <<"usr">>]

NoArgs == [kind |-> "none", path |-> NoPath, selector |-> <<>>, phpize |-> NoPath]
Selector(s) == [NoArgs EXCEPT !.kind = "selector", !.selector = s]
WithPath(p) == [NoArgs EXCEPT !.kind = "path", !.path = p]

MCMachines == {DockerImage, Debian, DebianHanging, DebianLocal, Homebrew,
               HomebrewNotOnPath, Bare}
MCArgs == {NoArgs, Selector(<<8>>), Selector(<<8, 2>>), Selector(<<8, 3, 9>>),
           WithPath(Opt82), WithPath(Usr82), [NoArgs EXCEPT !.phpize = Usr],
           [Selector(<<8, 2>>) EXCEPT !.phpize = Usr]}
MCRequests == [constraint : MCConstraints, ignore : BOOLEAN]
AnyRelease == [constraint |-> <<>>, ignore |-> FALSE]

\* Every machine and command line with one request, and every request for
\* three targets.
MCScenarios ==
  [machine : MCMachines, args : MCArgs, request : {AnyRelease}]
    \cup [machine : {DockerImage, Debian}, args : {NoArgs}, request : MCRequests]
    \cup [machine : {Debian}, args : {Selector(<<8, 2>>)}, request : MCRequests]

ASSUME InstanceIsRegular == RegularInputs
ASSUME InstanceIsSorted == DiscoveryIsSorted
=============================================================================
