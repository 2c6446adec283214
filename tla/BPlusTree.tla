----------------------------- MODULE BPlusTree -----------------------------
(***************************************************************************)
(* The B+ tree of storage/index_bplus_tree.cpp on the pages of one index   *)
(* file (types/include/index_file.hpp) reached through BPIndexPager, as    *)
(* operators from files to files.                                          *)
(*                                                                         *)
(* file.pages is a std::vector that create_page appends to.  The functions *)
(* that split a node keep a reference to it across create_page; when the   *)
(* vector is full, push_back moves the pages and the reference is left on  *)
(* freed, emptied memory.  Copying the upper half of the node then asks    *)
(* for a vector of negative length, and std::length_error is thrown: the   *)
(* node stays too full and the new page stays empty.  `capacity` is the    *)
(* vector's.  With a vector that is not full the split succeeds.           *)
(***************************************************************************)
EXTENDS Naturals, Sequences, SequencesExt

CONSTANTS
  max_leaf_keys, max_internal_keys  \* 64 and 64 in the code

ASSUME TreeAssumption ==
  /\ max_leaf_keys \in Nat \ {0}
  /\ max_internal_keys \in Nat \ {0}

-----------------------------------------------------------------------------
(* Pages and files                                                         *)

NoPageId == 0   \* next_leaf of the last leaf, parent of the first root

LeafPage(id, parent, keys, rows, next) ==
  [id |-> id, parent |-> parent, is_leaf |-> TRUE,
   keys |-> keys, rows |-> rows, next_leaf |-> next]
InternalPage(id, parent, keys, children) ==
  [id |-> id, parent |-> parent, is_leaf |-> FALSE,
   keys |-> keys, children |-> children]

(* create_index_file: one empty leaf                                       *)
NewFile ==
  [root_page |-> 1, last_page |-> 1, capacity |-> 1,
   pages |-> <<LeafPage(1, NoPageId, <<>>, <<>>, NoPageId)>>]

(* serialize_if followed by deserialize_if: last_page is not written, and  *)
(* the vector is reserved for the pages read                               *)
Stored(f) == [root_page |-> f.root_page, pages |-> f.pages]
Loaded(s) ==
  [root_page |-> s.root_page, last_page |-> 0, capacity |-> Len(s.pages),
   pages |-> s.pages]

(* get_page: the first page with that id, as its position; 0 for nullptr   *)
Pos(f, id) == SelectInSeq(f.pages, LAMBDA p : p.id = id)

PagesFull(f) == Len(f.pages) = f.capacity

(* create_page: its id is last_page + 1; a full vector grows to twice its  *)
(* size                                                                    *)
CreatePage(f, page) ==
  [f EXCEPT !.last_page = @ + 1,
            !.pages = Append(@, [page EXCEPT !.id = f.last_page + 1]),
            !.capacity = IF PagesFull(f) THEN 2 * @ ELSE @]

SetParent(f, ids, parent) ==
  LET moved == {Pos(f, id) : id \in ids}
  IN  [f EXCEPT !.pages =
         [i \in DOMAIN @ |-> IF i \in moved THEN [@[i] EXCEPT !.parent = parent] ELSE @[i]]]

-----------------------------------------------------------------------------
(* Search                                                                  *)

(* how many keys of the sequence are before the place of `key`: in an      *)
(* internal node the search passes equal keys, in a leaf it stops at them  *)
KeysUpTo(keys, key) ==
  LET i == SelectInSeq(keys, LAMBDA k : ~(k <= key)) IN IF i = 0 THEN Len(keys) ELSE i - 1
KeysBelow(keys, key) ==
  LET i == SelectInSeq(keys, LAMBDA k : ~(k < key)) IN IF i = 0 THEN Len(keys) ELSE i - 1

(* a mutant: `<` where the code has `<=`                                   *)
ChildForBelow(page, key) == page.children[KeysBelow(page.keys, key) + 1]

(* the child that find_leaf follows                                        *)
ChildFor(page, key) == page.children[KeysUpTo(page.keys, key) + 1]

(* find_leaf: the positions of the pages from the root down.  A path as    *)
(* long as the file that has not reached a leaf is a loop that does not end*)
Descent(f, key) ==
  LET down[n \in 1 .. Len(f.pages)] ==
        IF n = 1 THEN <<Pos(f, f.root_page)>>
        ELSE LET path == down[n - 1]
                 p == f.pages[Last(path)]
             IN  IF p.is_leaf THEN path ELSE Append(path, Pos(f, ChildFor(p, key)))
  IN  down[Len(f.pages)]

SearchEnds(f, key) == f.pages[Last(Descent(f, key))].is_leaf

LeafFor(f, key) == f.pages[Last(Descent(f, key))]

(* find: the row of the first entry of the leaf with that key, or none     *)
Found(f, key) == key \in Range(LeafFor(f, key).keys)
Find(f, key) ==
  LET leaf == LeafFor(f, key)
  IN  leaf.rows[SelectInSeq(leaf.keys, LAMBDA k : k = key)]

-----------------------------------------------------------------------------
(* Insertion                                                               *)

(* what an insertion comes to: the file, and whether it threw              *)
Done(f) == [file |-> f, threw |-> FALSE]
Threw(f) == [file |-> f, threw |-> TRUE]

InsertIntoLeaf(f, pos, key, row) ==
  LET at == KeysBelow(f.pages[pos].keys, key) + 1
  IN  [f EXCEPT !.pages[pos].keys = InsertAt(@, at, key),
                !.pages[pos].rows = InsertAt(@, at, row)]

(* A split: the page at `pos` keeps the lower half, a new page gets the    *)
(* upper half; `pending` is what insert_into_parent has to link            *)
Pending(f, left, separator, right) ==
  [file |-> f, threw |-> FALSE, pending |-> TRUE,
   left |-> left, separator |-> separator, right |-> right]
Settled(result) == [result EXCEPT !.pending = FALSE]
SplitThrows(f, pos, page) ==
  [Pending(CreatePage(f, page), f.pages[pos].id, 0, 0) EXCEPT !.threw = TRUE, !.pending = FALSE]

(* a mutant: the lower leaf is not linked to the upper one                 *)
SplitLeafUnlinked(f, pos) ==
  LET leaf == f.pages[pos]
      mid == Len(leaf.keys) \div 2
      right == f.last_page + 1
      upper == LeafPage(right, leaf.parent, SubSeq(leaf.keys, mid + 1, Len(leaf.keys)),
                        SubSeq(leaf.rows, mid + 1, Len(leaf.rows)), leaf.next_leaf)
      lower == [leaf EXCEPT !.keys = SubSeq(@, 1, mid), !.rows = SubSeq(@, 1, mid)]
  IN  IF PagesFull(f)
        THEN SplitThrows(f, pos, LeafPage(right, leaf.parent, <<>>, <<>>, NoPageId))
        ELSE Pending([CreatePage(f, upper) EXCEPT !.pages[pos] = lower],
                     leaf.id, upper.keys[1], right)

SplitLeaf(f, pos) ==
  LET leaf == f.pages[pos]
      mid == Len(leaf.keys) \div 2
      right == f.last_page + 1
      upper == LeafPage(right, leaf.parent, SubSeq(leaf.keys, mid + 1, Len(leaf.keys)),
                        SubSeq(leaf.rows, mid + 1, Len(leaf.rows)), leaf.next_leaf)
      lower == [leaf EXCEPT !.keys = SubSeq(@, 1, mid), !.rows = SubSeq(@, 1, mid),
                            !.next_leaf = right]
  IN  IF PagesFull(f)
        THEN SplitThrows(f, pos, LeafPage(right, leaf.parent, <<>>, <<>>, NoPageId))
        ELSE Pending([CreatePage(f, upper) EXCEPT !.pages[pos] = lower],
                     leaf.id, upper.keys[1], right)

SplitInternal(f, pos) ==
  LET node == f.pages[pos]
      mid == Len(node.keys) \div 2
      right == f.last_page + 1
      upper == InternalPage(right, node.parent, SubSeq(node.keys, mid + 2, Len(node.keys)),
                            SubSeq(node.children, mid + 2, Len(node.children)))
      lower == [node EXCEPT !.keys = SubSeq(@, 1, mid), !.children = SubSeq(@, 1, mid + 1)]
  IN  IF PagesFull(f)
        THEN SplitThrows(f, pos, InternalPage(right, node.parent, <<>>, <<>>))
        ELSE Pending(SetParent([CreatePage(f, upper) EXCEPT !.pages[pos] = lower],
                               Range(upper.children), right),
                     node.id, node.keys[mid + 1], right)

(* insert_into_parent at the page `parent` of the path, with the split of  *)
(* that page when it has become too full                                   *)
LinkAt(result, parent) ==
  LET f == result.file
      pos == Pos(f, parent)
      child == SelectInSeq(f.pages[pos].children, LAMBDA c : c = result.left)
      linked == SetParent([f EXCEPT !.pages[pos].keys = InsertAt(@, child, result.separator),
                                    !.pages[pos].children = InsertAt(@, child + 1, result.right)],
                          {result.right}, parent)
  IN  IF ~result.pending THEN result
      ELSE IF f.pages[pos].is_leaf \/ child = 0 THEN [Settled(result) EXCEPT !.threw = TRUE]
      ELSE IF Len(linked.pages[pos].keys) > max_internal_keys THEN SplitInternal(linked, pos)
      ELSE [Settled(result) EXCEPT !.file = linked]

(* insert_into_parent when the path is used up: a new root above the two   *)
NewRoot(result) ==
  LET f == result.file
      root == f.last_page + 1
      grown == CreatePage(f, InternalPage(root, NoPageId, <<result.separator>>,
                                          <<result.left, result.right>>))
  IN  IF ~result.pending THEN result
      ELSE [Settled(result) EXCEPT
              !.file = [SetParent(grown, {result.left, result.right}, root)
                          EXCEPT !.root_page = root]]

(* insert, for a key whose search ends                                     *)
Insert(f, key, row) ==
  LET path == Descent(f, key)
      pos == Last(path)
      g == InsertIntoLeaf(f, pos, key, row)
      above == Reverse(Front([i \in DOMAIN path |-> f.pages[path[i]].id]))
      result == NewRoot(FoldLeft(LinkAt, SplitLeaf(g, pos), above))
  IN  IF Len(g.pages[pos].keys) <= max_leaf_keys THEN Done(g)
      ELSE IF result.threw THEN Threw(result.file) ELSE Done(result.file)

-----------------------------------------------------------------------------
(* The leaf chain, as index_scan walks it                                  *)

(* the leftmost leaf: the first child of every node from the root          *)
FirstLeaf(f) ==
  LET down[n \in 1 .. Len(f.pages)] ==
        IF n = 1 THEN Pos(f, f.root_page)
        ELSE LET pos == down[n - 1]
                 p == f.pages[pos]
             IN  IF p.is_leaf THEN pos ELSE Pos(f, p.children[1])
  IN  down[Len(f.pages)]

(* the leaves along next_leaf, as positions; one more than there are pages *)
(* means a loop that does not end                                          *)
Chain(f) ==
  LET walk[n \in 1 .. Len(f.pages) + 1] ==
        IF n = 1 THEN <<FirstLeaf(f)>>
        ELSE LET path == walk[n - 1]
                 p == f.pages[Last(path)]
             IN  IF ~p.is_leaf \/ p.next_leaf = NoPageId THEN path
                 ELSE Append(path, Pos(f, p.next_leaf))
  IN  walk[Len(f.pages) + 1]

ScanLoops(f) ==
  \/ ~f.pages[FirstLeaf(f)].is_leaf
  \/ Len(Chain(f)) > Len(f.pages)

ChainKeys(f) ==
  LET chain == Chain(f) IN FlattenSeq([i \in DOMAIN chain |-> f.pages[chain[i]].keys])
ChainRows(f) ==
  LET chain == Chain(f) IN FlattenSeq([i \in DOMAIN chain |-> f.pages[chain[i]].rows])
=============================================================================
