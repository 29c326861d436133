------------------------------ MODULE DataModel ------------------------------
(***************************************************************************)
(* The link of a composition (util/DataModel.js, util/StateManager.js): the *)
(* instruments' numbers, in the order of the schema, as JSON in which every *)
(* run of digits is replaced by the hexadecimal one of its value.           *)
(* A number is its hundredths, as a note's duration is rounded to; the text *)
(* of one is its runs of digits: before the point, and after it if any.     *)
(***************************************************************************)
EXTENDS Naturals, Sequences, SequencesExt

RECURSIVE Digits(_, _)
Digits(n, base) == IF n < base THEN <<n>>
                   ELSE Append(Digits(n \div base, base), n % base)

parseInt(digits, base) == FoldLeft(LAMBDA n, d : n * base + d, 0, digits)

(* 100, 150 and 105 hundredths are 1, 1.5 and 1.05.                         *)
stringify(h) ==
  LET whole == Digits(h \div 100, 10)
      tens  == (h % 100) \div 10
  IN  IF h % 100 = 0 THEN <<whole>>
      ELSE IF h % 10 = 0 THEN <<whole, <<tens>>>>
      ELSE <<whole, <<tens, h % 10>>>>

parse(runs) ==
  parseInt(runs[1], 10) * 100
  + IF Len(runs) = 1 THEN 0
    ELSE IF Len(runs[2]) = 1 THEN runs[2][1] * 10 ELSE parseInt(runs[2], 10)

hex(runs)   == [k \in DOMAIN runs |-> Digits(parseInt(runs[k], 10), 16)]
unhex(runs) == [k \in DOMAIN runs |-> Digits(parseInt(runs[k], 16), 10)]

(* A model maps the keys of its schema to numbers.                          *)
serializeModel(schema, model) == [k \in DOMAIN schema |-> model[schema[k]]]

deserializeModel(schema, data) ==
  [key \in ToSet(schema) |-> data[CHOOSE k \in DOMAIN schema : schema[k] = key]]

toURL(schema, model) ==
  LET data == serializeModel(schema, model)
  IN  [k \in DOMAIN data |-> hex(stringify(data[k]))]

loadFromString(schema, url) ==
  deserializeModel(schema, [k \in DOMAIN url |-> parse(unhex(url[k]))])

(***************************************************************************)
(* The link in the page's address (util/StateManager.js)                    *)
(***************************************************************************)
None == <<>>

(* The instruments are registered in the order of the page, and their       *)
(* numbers are kept in the order of their names.                            *)
Alphabet == <<"arpeggiator", "drum", "guitar">>

init(registered) == SelectSeq(Alphabet, LAMBDA name : name \in ToSet(registered))

(* A link with too few numbers cannot be read.                              *)
loadSerializedData(schema, link) ==
  IF Len(link) < Len(schema) THEN None ELSE loadFromString(schema, link)

loadJSONData(json) == json

loadDefaultData(schema) == [name \in ToSet(schema) |-> 100]

(* The link, what the page that embeds the experiment gives, or the default. *)
loadSerializedOrDefault(schema, link, customData) ==
  LET allData == IF link # None THEN loadSerializedData(schema, link)
                 ELSE IF customData # None THEN loadJSONData(customData)
                 ELSE None
  IN  IF allData = None THEN loadDefaultData(schema) ELSE allData

firstLoadData(schema, link, customData) ==
  toURL(schema, loadSerializedOrDefault(schema, link, customData))

reloadFirstLoadData(schema, link, customData) ==
  loadSerializedData(schema, firstLoadData(schema, link, customData))

------------------------------------------------------------------------------
(* What is loaded from the link is what was saved, but for numbers like     *)
(* 1.05: the zero after the point is lost.                                  *)
Lossy(h) == h % 100 \in 1..9

LinkKeeps(schema, model) ==
  LET loaded == loadFromString(schema, toURL(schema, model))
  IN  /\ DOMAIN loaded = DOMAIN model
      /\ \A key \in DOMAIN model :
           loaded[key] = IF Lossy(model[key]) THEN model[key] + 9 * (model[key] % 100)
                         ELSE model[key]

(* The instruments' order on a page does not matter to a link that is made  *)
(* on another; without one that can be read, the composition is the page's  *)
(* own or the default; and a reset brings back what was loaded from a link. *)
LinkIsShared(there, here, model, tooFew, customData) ==
  LET schema == init(here)
      link   == toURL(init(there), model)
      Loaded(url) == loadSerializedOrDefault(schema, url, customData)
  IN  /\ LinkKeeps(init(there), model)
      /\ Loaded(link) = loadFromString(init(there), link)
      /\ reloadFirstLoadData(schema, link, customData) = Loaded(link)
      /\ Loaded(SubSeq(link, 1, tooFew)) =
           IF tooFew = 0 /\ customData # None THEN customData ELSE loadDefaultData(schema)
===============================================================================
