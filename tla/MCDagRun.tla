------------------------------ MODULE MCDagRun ------------------------------
(* Graphs for model checking DagRun.                                        *)
EXTENDS DagRun

Stat(p) == [list |-> FALSE, path |-> p]
List(p) == [list |-> TRUE, path |-> p]
FileObs(p) == [kind |-> "file", path |-> p]
EnumObs(p) == [kind |-> "enum", path |-> p]

Only(x) == {x}
AnyContent == {"none", "old", "cur"}

(***************************************************************************)
(* Headers: "gen" writes gen/h, "cc" is discovered and reads the header or  *)
(* lists its directory without consuming it, "link" consumes cc's object    *)
(* and gen's value output.                                                  *)
(***************************************************************************)
HActions == {"gen", "cc", "link"}
HArtifacts == {"src", "h", "val", "obj", "exe"}
HKind == [gen |-> "static", cc |-> "discovered", link |-> "uncacheable"]
HConsumes == [gen |-> {"src"}, cc |-> {"src"}, link |-> {"obj", "val"}]
HProduces == [gen |-> <<"val", "h">>, cc |-> <<"obj">>, link |-> <<"exe">>]
HPath == [src |-> <<"src">>, h |-> <<"gen", "h">>, val |-> <<>>, obj |-> <<"obj">>, exe |-> <<"exe">>]
HProbes == [gen |-> {{}}, cc |-> {{}, {Stat(<<"gen", "h">>)}, {List(<<"gen">>), Stat(<<"gen", "h">>)}}, link |-> {{}}]
HPathsets == [gen |-> {}, cc |-> {{FileObs(<<"gen", "h">>)}, {EnumObs(<<"gen">>)}}, link |-> {}]
HDisk == [src |-> {"none", "cur"}, h |-> AnyContent, obj |-> {"old"}, exe |-> {"none"}]
HBlob == [src |-> {"good"}, h |-> {"gone", "shared", "good"}, val |-> {"gone", "good"}, obj |-> {"good"}, exe |-> {"gone"}]

(***************************************************************************)
(* Include: the shape dag_add_tree builds.  "inc" is discovered and         *)
(* produces the include tree and then a stamp without path; "cc" reads a    *)
(* header of the tree it does not consume.                                  *)
(***************************************************************************)
IActions == {"inc", "cc"}
IArtifacts == {"tree", "stamp", "obj"}
IKind == [inc |-> "discovered", cc |-> "discovered"]
IConsumes == [inc |-> {}, cc |-> {}]
IProduces == [inc |-> <<"tree", "stamp">>, cc |-> <<"obj">>]
IPath == [tree |-> <<"include">>, stamp |-> <<>>, obj |-> <<"obj">>]
IProbes == [inc |-> {{}}, cc |-> {{Stat(<<"include", "x.h">>)}}]
IPathsets == [inc |-> {{}}, cc |-> {}]
IDisk == [tree |-> AnyContent, obj |-> {"none"}]
IBlob == [tree |-> {"good"}, stamp |-> {"gone", "good"}, obj |-> {"gone"}]

(***************************************************************************)
(* Probe: "cc" asks whether the directory gen exists while "gen" creates    *)
(* its only file.                                                           *)
(***************************************************************************)
PActions == {"gen", "cc"}
PArtifacts == {"h", "obj"}
PKind == [gen |-> "static", cc |-> "discovered"]
PConsumes == [gen |-> {}, cc |-> {}]
PProduces == [gen |-> <<"h">>, cc |-> <<"obj">>]
PPath == [h |-> <<"gen", "h">>, obj |-> <<"obj">>]
PProbes == [gen |-> {{}}, cc |-> {{Stat(<<"gen">>)}}]
PPathsets == [gen |-> {}, cc |-> {}]
PDisk == [h |-> {"none"}, obj |-> {"none"}]
PBlob == [h |-> {"good"}, obj |-> {"gone"}]

(***************************************************************************)
(* Web: four actions.  "p" and "q" are discovered and may each read the     *)
(* other's target, "t" produces a tree they may read from, "z" consumes     *)
(* both targets of p and q.                                                 *)
(***************************************************************************)
WActions == {"p", "q", "t", "z"}
WArtifacts == {"po", "qo", "tree", "zo"}
WKind == [p |-> "discovered", q |-> "discovered", t |-> "static", z |-> "static"]
WConsumes == [p |-> {}, q |-> {}, t |-> {}, z |-> {"po", "qo"}]
WProduces == [p |-> <<"po">>, q |-> <<"qo">>, t |-> <<"tree">>, z |-> <<"zo">>]
WPath == [po |-> <<"out", "p">>, qo |-> <<"out", "q">>, tree |-> <<"out", "t">>, zo |-> <<"z">>]
WProbes == [p |-> {{}, {Stat(<<"out", "q">>)}, {Stat(<<"out", "t", "m">>)}},
            q |-> {{}, {Stat(<<"out", "p">>), Stat(<<"out", "t", "m">>)}, {Stat(<<"z">>)}},
            t |-> {{}}, z |-> {{}}]
WPathsets == [p |-> {{FileObs(<<"out", "t", "m">>)}}, q |-> {{FileObs(<<"out", "p">>)}},
              t |-> {}, z |-> {}]
WDisk == [po |-> {"none", "old"}, qo |-> {"old"}, tree |-> {"old", "cur"}, zo |-> {"none"}]
WBlob == [po |-> {"good"}, qo |-> {"good"}, tree |-> {"good", "gone"}, zo |-> {"good"}]
=============================================================================
